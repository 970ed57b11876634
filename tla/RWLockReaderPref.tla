-------------------------- MODULE RWLockReaderPref --------------------------
(***************************************************************************)
(* Assignment-04-locks/rwlock-reader-pref.c: readers that find another     *)
(* reader inside enter without asking for write_lock.                      *)
(***************************************************************************)
EXTENDS RWThreads

VARIABLES write_lock, reader_lock     \* semaphores of rwlock

sems == <<write_lock, reader_lock>>
vars == <<pc, readers, files, sems>>

-----------------------------------------------------------------------------
(* rwlock_acquire_readlock                                                 *)
LockCount(r) == /\ Goto(r, "start", "first") /\ SemWait(reader_lock)
                /\ UNCHANGED <<readers, files, write_lock>>

First_EveryReader(r) == /\ Goto(r, "first", "enter") /\ SemWait(write_lock)
                        /\ UNCHANGED <<readers, files, reader_lock>>

First_Skipped(r) == /\ Goto(r, "first", "enter")
                    /\ UNCHANGED <<readers, files, sems>>

(* The first reader takes write_lock on behalf of all of them.             *)
First(r) == /\ Goto(r, "first", "enter")
            /\ IF readers = 0 THEN SemWait(write_lock) ELSE UNCHANGED write_lock
            /\ UNCHANGED <<readers, files, reader_lock>>

EnterRead(r) == /\ Goto(r, "enter", "post") /\ readers' = readers + 1
                /\ UNCHANGED <<files, sems>>

UnlockCount(r) == /\ Goto(r, "post", "log") /\ SemPost(reader_lock)
                  /\ UNCHANGED <<readers, files, write_lock>>

AcquireRead(r) == LockCount(r) \/ First(r) \/ EnterRead(r) \/ UnlockCount(r)

(* rwlock_release_readlock                                                 *)
RelockCount(r) == /\ Goto(r, "release", "leave") /\ SemWait(reader_lock)
                  /\ UNCHANGED <<readers, files, write_lock>>

LeaveRead(r) == /\ Goto(r, "leave", "last") /\ readers' = readers - 1
                /\ UNCHANGED <<files, sems>>

Last_OffByOne(r) ==
    /\ Goto(r, "last", "unpost")
    /\ IF readers = 1 THEN SemPost(write_lock) ELSE UNCHANGED write_lock
    /\ UNCHANGED <<readers, files, reader_lock>>

(* The last reader gives write_lock back.                                  *)
Last(r) == /\ Goto(r, "last", "unpost")
           /\ IF readers = 0 THEN SemPost(write_lock) ELSE UNCHANGED write_lock
           /\ UNCHANGED <<readers, files, reader_lock>>

FinishRead_NoPost(r) == /\ Goto(r, "unpost", "done")
                        /\ UNCHANGED <<readers, files, sems>>

FinishRead(r) == /\ Goto(r, "unpost", "done") /\ SemPost(reader_lock)
                 /\ UNCHANGED <<readers, files, write_lock>>

ReleaseRead(r) == RelockCount(r) \/ LeaveRead(r) \/ Last(r) \/ FinishRead(r)

AcquireWrite(w) == /\ Goto(w, "start", "log") /\ SemWait(write_lock)
                   /\ UNCHANGED <<readers, files, reader_lock>>

ReleaseWrite(w) == /\ Goto(w, "release", "done") /\ SemPost(write_lock)
                   /\ UNCHANGED <<readers, files, reader_lock>>

Reader(r) == AcquireRead(r) \/ (ReaderBody(r) /\ UNCHANGED sems) \/ ReleaseRead(r)

Writer(w) == AcquireWrite(w) \/ (WriterBody(w) /\ UNCHANGED sems) \/ ReleaseWrite(w)

-----------------------------------------------------------------------------
Init == ThreadsInit /\ write_lock = 1 /\ reader_lock = 1

Next == \/ \E r \in Readers : Reader(r)
        \/ \E w \in Writers : Writer(w)
        \/ AllDone /\ UNCHANGED vars

(* The steps of the lock and those of the writers are sure to be taken;    *)
(* how long a reader reads is left open. As each thread passes a semaphore *)
(* at most twice, no assumption about which waiter a post lets through is  *)
(* needed.                                                                 *)
Fairness == /\ \A r \in Readers : WF_vars(AcquireRead(r) \/ ReleaseRead(r))
            /\ \A w \in Writers : WF_vars(Writer(w))

Spec == Init /\ [][Next]_vars /\ Fairness

-----------------------------------------------------------------------------
ReaderLabels == {"start", "first", "enter", "last", "unpost", "done"} \cup ReadLabels
WriterLabels == {"start", "log", "write", "release", "done"}

TypeOK == /\ pc \in [Threads -> ReaderLabels \cup WriterLabels]
          /\ \A r \in Readers : pc[r] \in ReaderLabels
          /\ \A w \in Writers : pc[w] \in WriterLabels
          /\ readers \in Nat /\ lines \in Nat
          /\ write_lock \in {0, 1} /\ reader_lock \in {0, 1}
          /\ logged \in [Threads -> Int] /\ seen \in [Readers -> Nat]

(* Readers are preferred: as long as some reader stays inside, every       *)
(* reader that asks for the lock gets it, whoever else is waiting.         *)
ReadersNotDelayed ==
    \A q \in Readers : <>[](pc[q] = "read")
        => [](\A r \in Readers : pc[r] = "start" => <>(pc[r] = "log"))

(* If nobody reads for ever every thread gets the lock and gives it back:  *)
(* main's joins return, whatever writers wait behind whatever readers.     *)
TerminatesIfReadingEnds ==
    (\A r \in Readers : WF_vars(ReaderBody(r) /\ UNCHANGED sems)) => Terminates

(* The lock and what it protects agree: a writer is alone, the counter is  *)
(* the number of readers inside, the numbers in the log are true, and the  *)
(* file does not change under a reader.                                    *)
Inv == TypeOK /\ MutualExclusion /\ CountExact /\ LogTruthful /\ StableRead
=============================================================================
