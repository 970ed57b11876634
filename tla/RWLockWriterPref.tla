-------------------------- MODULE RWLockWriterPref --------------------------
(***************************************************************************)
(* Assignment-04-locks/rwlock-writer-pref.c: a reader that finds writers   *)
(* waiting backs off and polls until none is registered any more.          *)
(***************************************************************************)
EXTENDS RWThreads

VARIABLES write_lock, reader_count_lock,   \* semaphores of rwlock
          writers_waiting

lock == <<write_lock, reader_count_lock, writers_waiting>>
vars == <<pc, readers, files, lock>>

WaitCount(t, from, to) == /\ Goto(t, from, to) /\ SemWait(reader_count_lock)
                          /\ UNCHANGED <<readers, files, write_lock, writers_waiting>>

PostCount(t, from, to) == /\ Goto(t, from, to) /\ SemPost(reader_count_lock)
                          /\ UNCHANGED <<readers, files, write_lock, writers_waiting>>

-----------------------------------------------------------------------------
(* rwlock_acquire_readlock: lock the count, and while a writer waits       *)
(* unlock it, sleep and lock it again.                                     *)
LockCount(r) == WaitCount(r, "start", "check") \/ WaitCount(r, "sleep", "check")

BackOff_Holding(r) == /\ writers_waiting > 0 /\ Goto(r, "check", "sleep")
                      /\ UNCHANGED <<readers, files, lock>>

BackOff(r) == writers_waiting > 0 /\ PostCount(r, "check", "sleep")

NoWriter_Unchecked(r) == /\ Goto(r, "check", "first")
                         /\ UNCHANGED <<readers, files, lock>>

NoWriter(r) == /\ writers_waiting = 0 /\ Goto(r, "check", "first")
               /\ UNCHANGED <<readers, files, lock>>

First_Skipped(r) == /\ Goto(r, "first", "enter")
                    /\ UNCHANGED <<readers, files, lock>>

First(r) == /\ Goto(r, "first", "enter")
            /\ IF readers = 0 THEN SemWait(write_lock) ELSE UNCHANGED write_lock
            /\ UNCHANGED <<readers, files, reader_count_lock, writers_waiting>>

EnterRead(r) == /\ Goto(r, "enter", "post") /\ readers' = readers + 1
                /\ UNCHANGED <<files, lock>>

UnlockCount(r) == PostCount(r, "post", "log")

AcquireRead(r) == LockCount(r) \/ BackOff(r) \/ NoWriter(r) \/ First(r)
                    \/ EnterRead(r) \/ UnlockCount(r)

(* rwlock_release_readlock                                                 *)
RelockCount(r) == WaitCount(r, "release", "leave")

LeaveRead(r) == /\ Goto(r, "leave", "last") /\ readers' = readers - 1
                /\ UNCHANGED <<files, lock>>

Last(r) == /\ Goto(r, "last", "unpost")
           /\ IF readers = 0 THEN SemPost(write_lock) ELSE UNCHANGED write_lock
           /\ UNCHANGED <<readers, files, reader_count_lock, writers_waiting>>

FinishRead(r) == PostCount(r, "unpost", "done")

ReleaseRead(r) == RelockCount(r) \/ LeaveRead(r) \/ Last(r) \/ FinishRead(r)

-----------------------------------------------------------------------------
(* rwlock_acquire_writelock: register as waiting, take write_lock, and     *)
(* only then unregister, each time under the count lock.                   *)
Count(w, from, to, n) == /\ Goto(w, from, to) /\ writers_waiting' = n
                         /\ UNCHANGED <<readers, files, write_lock, reader_count_lock>>

Register(w) == \/ WaitCount(w, "start", "register")
               \/ Count(w, "register", "regpost", writers_waiting + 1)
               \/ PostCount(w, "regpost", "acquire")

TakeWrite(w) == /\ Goto(w, "acquire", "unwait") /\ SemWait(write_lock)
                /\ UNCHANGED <<readers, files, reader_count_lock, writers_waiting>>

Unregister_NotCounted(w) == \/ WaitCount(w, "unwait", "deregister")
                            \/ Count(w, "deregister", "deregpost", writers_waiting)
                            \/ PostCount(w, "deregpost", "log")

Unregister(w) == \/ WaitCount(w, "unwait", "deregister")
                 \/ Count(w, "deregister", "deregpost", writers_waiting - 1)
                 \/ PostCount(w, "deregpost", "log")

AcquireWrite(w) == Register(w) \/ TakeWrite(w) \/ Unregister(w)

ReleaseWrite(w) == /\ Goto(w, "release", "done") /\ SemPost(write_lock)
                   /\ UNCHANGED <<readers, files, reader_count_lock, writers_waiting>>

Reader(r) == AcquireRead(r) \/ (ReaderBody(r) /\ UNCHANGED lock) \/ ReleaseRead(r)

Writer(w) == AcquireWrite(w) \/ (WriterBody(w) /\ UNCHANGED lock) \/ ReleaseWrite(w)

-----------------------------------------------------------------------------
Init == /\ ThreadsInit
        /\ write_lock = 1 /\ reader_count_lock = 1 /\ writers_waiting = 0

Next == \/ \E r \in Readers : Reader(r)
        \/ \E w \in Writers : Writer(w)
        \/ AllDone /\ UNCHANGED vars

(* Every thread keeps running. A polling reader takes the count lock over  *)
(* and over, but leaves it free for 100 microseconds each time: those it   *)
(* polls for, a reader that leaves and a writer that unregisters, get the  *)
(* lock in the end (strong fairness of their waits on it).                 *)
Fairness == /\ \A r \in Readers : WF_vars(Reader(r)) /\ SF_vars(RelockCount(r))
            /\ \A w \in Writers :
                  WF_vars(Writer(w)) /\ SF_vars(WaitCount(w, "unwait", "deregister"))

Spec == Init /\ [][Next]_vars /\ Fairness

-----------------------------------------------------------------------------
ReaderLabels == {"start", "check", "sleep", "first", "enter", "last", "unpost", "done"}
                  \cup ReadLabels
WriterLabels == {"start", "register", "regpost", "acquire", "done"} \cup WriteLabels

TypeOK == /\ pc \in [Threads -> ReaderLabels \cup WriterLabels]
          /\ \A r \in Readers : pc[r] \in ReaderLabels
          /\ \A w \in Writers : pc[w] \in WriterLabels
          /\ readers \in Nat /\ lines \in Nat /\ writers_waiting \in Nat
          /\ write_lock \in {0, 1} /\ reader_count_lock \in {0, 1}
          /\ logged \in [Threads -> Int] /\ seen \in [Readers -> Nat]

(* Writers between ++ and -- of writers_waiting: they wait for write_lock, *)
(* or have it and have not said so yet.                                    *)
Registered == {w \in Writers : pc[w] \in {"regpost", "acquire", "unwait", "deregister"}}

WaitingExact == writers_waiting = Cardinality(Registered)

(* Once a writer is registered as waiting no reader acquires the read      *)
(* lock, not even one that had passed the test before.                     *)
WritersFirst ==
    [][\A r \in Readers : r \notin Reading /\ r \in Reading' => Registered = {}]_vars

(* The count lock and write_lock are taken in both orders, by a first      *)
(* reader and by a writer that unregisters; yet they never block each      *)
(* other: no reader waits for write_lock, holding the count lock, while    *)
(* the writer that owns write_lock waits for the count lock.               *)
NoCircularWait == \A r \in Readers, w \in Writers :
    ~ (pc[r] = "first" /\ readers = 0 /\ pc[w] \in {"unwait", "deregister", "deregpost"})

(* The lock and what it protects agree: a writer is alone, both counters   *)
(* are the numbers of threads they stand for, the numbers in the log are   *)
(* true, and the file does not change under a reader.                      *)
Inv == /\ TypeOK /\ MutualExclusion /\ CountExact /\ WaitingExact
       /\ LogTruthful /\ StableRead
=============================================================================
