----------------------- MODULE RWLockWriterPrefProofs -----------------------
(***************************************************************************)
(* Proofs about the writer-preference lock for any finite sets of threads. *)
(***************************************************************************)
EXTENDS RWLockWriterPref, FiniteSetTheorems, TLAPS

(***************************************************************************)
(* The part about RWThreads, which RWLockReaderPrefProofs has as well:     *)
(* how the sets of threads inside change with a step of one thread, what   *)
(* the steps a thread takes while it holds the lock preserve, and which    *)
(* abstract step each one is.                                              *)
(***************************************************************************)

(* Nothing reported before the log statement, and from then on the truth.  *)
AfterLog == {"open", "read", "write", "release", "leave", "last", "unpost", "done"}

ReportedOnce == \A t \in Threads : logged[t] # -1 => pc[t] \in AfterLog

(* A step of one thread that neither logs nor crosses a section boundary   *)
(* of the other kind; the frame of all steps of the lock functions.        *)
LockMove(t, from, to) == /\ Goto(t, from, to)
                         /\ from # "log" /\ (from \in AfterLog => to \in AfterLog)
                         /\ to # "read"
                         /\ UNCHANGED files

-----------------------------------------------------------------------------
(* The readers inside are finitely many, and none exactly when they are 0. *)
LEMMA ReadersFinite == /\ IsFiniteSet(Reading) /\ Cardinality(Reading) \in Nat
                       /\ Cardinality(Reading) <= Cardinality(Readers)
                       /\ Cardinality(Readers) \in Nat
                       /\ (Cardinality(Reading) = 0 <=> Reading = {})
BY ThreadsAssumption, FS_Subset, FS_CardinalityType, FS_EmptySet DEF Reading

(* A step of a thread that does not carry a reader over the boundary of    *)
(* its section leaves the set of readers inside as it is.                  *)
LEMMA ReadingSame ==
    ASSUME NEW t \in Threads, NEW from, NEW to, NEW Labels,
           pc \in [Threads -> Labels], Goto(t, from, to),
           t \in Readers => (from \in ReadLabels <=> to \in ReadLabels)
    PROVE  Reading' = Reading
BY DEF Goto, Reading, Threads

(* The same of the writers.                                                *)
LEMMA WritingSame ==
    ASSUME NEW t \in Threads, NEW from, NEW to, NEW Labels,
           pc \in [Threads -> Labels], Goto(t, from, to),
           t \in Writers => (from \in WriteLabels <=> to \in WriteLabels)
    PROVE  Writing' = Writing
BY DEF Goto, Writing, Threads

(* readers++ adds one reader to those inside.                              *)
LEMMA ReadingEntered ==
    ASSUME NEW r \in Readers, NEW Labels,
           pc \in [Threads -> Labels], Goto(r, "enter", "post")
    PROVE  /\ Reading' = Reading \cup {r} /\ r \notin Reading
           /\ Cardinality(Reading') = Cardinality(Reading) + 1
<1>1. Reading' = Reading \cup {r} /\ r \notin Reading
  BY DEF Goto, Reading, ReadLabels, Threads
<1>. QED  BY <1>1, ReadersFinite, FS_AddElement

(* readers-- removes one reader from those inside.                         *)
LEMMA ReadingLeft ==
    ASSUME NEW r \in Readers, NEW Labels,
           pc \in [Threads -> Labels], Goto(r, "leave", "last")
    PROVE  /\ Reading' = Reading \ {r} /\ r \in Reading
           /\ Cardinality(Reading') = Cardinality(Reading) - 1
<1>1. Reading' = Reading \ {r} /\ r \in Reading
  BY DEF Goto, Reading, ReadLabels, Threads
<1>. QED  BY <1>1, ReadersFinite, FS_RemoveElement

-----------------------------------------------------------------------------
(* What is written to the log and what a reader sees, as an invariant of   *)
(* the threads' common part.                                               *)
BodyInv == LogTruthful /\ StableRead /\ ReportedOnce

(* The steps of the lock functions touch neither log nor shared file.      *)
LEMMA BodyInvKept ==
    ASSUME BodyInv, NEW t \in Threads, NEW from, NEW to, NEW Labels,
           pc \in [Threads -> Labels], LockMove(t, from, to)
    PROVE  BodyInv'
BY DEF BodyInv, LogTruthful, StableRead, ReportedOnce, LockMove, Goto, AfterLog, files, Threads

(* A reader's steps between acquire and release keep the log truthful and  *)
(* every read stable.                                                      *)
LEMMA ReaderBodyInv ==
    ASSUME BodyInv, CountExact, NEW r \in Readers, ReaderBody(r), NEW Labels,
           pc \in [Threads -> Labels], logged \in [Threads -> Int],
           seen \in [Readers -> Nat]
    PROVE  BodyInv'
<1>. USE ThreadsAssumption DEF BodyInv, LogTruthful, StableRead, ReportedOnce, Goto, AfterLog, Threads
<1>1. CASE Log(r, "open")
  <2>1. r \in Reading
    BY <1>1 DEF Log, Reading, ReadLabels
  <2>2. readers \in 1 .. Cardinality(Readers)
    BY <2>1, ReadersFinite DEF CountExact
  <2>. QED  BY <1>1, <2>2 DEF Log
<1>2. CASE OpenShared(r)
  BY <1>2 DEF OpenShared
<1>3. CASE ReadShared(r)
  BY <1>3 DEF ReadShared, files
<1>. QED  BY <1>1, <1>2, <1>3 DEF ReaderBody

(* So do a writer's, because no reader is inside with it.                  *)
LEMMA WriterBodyInv ==
    ASSUME BodyInv, CountExact, MutualExclusion, NEW w \in Writers, WriterBody(w),
           NEW Labels, pc \in [Threads -> Labels], logged \in [Threads -> Int],
           seen \in [Readers -> Nat]
    PROVE  BodyInv'
<1>. USE ThreadsAssumption DEF BodyInv, LogTruthful, StableRead, ReportedOnce, Goto, AfterLog, Threads
<1>0. w \in Writing
  BY DEF WriterBody, Log, WriteShared, Writing, WriteLabels
<1>1. Reading = {}
  BY <1>0 DEF MutualExclusion
<1>2. CASE Log(w, "write")
  <2>1. readers = 0
    BY <1>1, ReadersFinite DEF CountExact
  <2>. QED  BY <1>2, <2>1 DEF Log
<1>3. CASE WriteShared(w)
  BY <1>1, <1>3 DEF WriteShared, Reading, ReadLabels
<1>. QED  BY <1>2, <1>3 DEF WriterBody

-----------------------------------------------------------------------------
(* The threads that have left, in the abstract specification's terms.      *)
Gone == {t \in Readers : pc[t] \in {"last", "unpost", "done"}}
          \cup {t \in Writers : pc[t] = "done"}

(* A step that leaves the sets and the log alone is an abstract stutter.   *)
LEMMA AbstractStutter ==
    ASSUME Reading' = Reading, Writing' = Writing, Gone' = Gone, logged' = logged
    PROVE  UNCHANGED Abstract!vars
BY DEF Abstract!vars, Gone

(* The abstract specification counts with the same Cardinality.            *)
LEMMA AbstractCardinality == \A S : Abstract!Cardinality(S) = Cardinality(S)
BY DEF Abstract!Cardinality, Cardinality

(* Logging the count from inside is the abstract report.                   *)
LEMMA AbstractReport ==
    ASSUME ReportedOnce, CountExact, NEW t \in Reading \cup Writing, NEW to, Log(t, to),
           Reading' = Reading, Writing' = Writing, Gone' = Gone
    PROVE  [Abstract!Next]_(Abstract!vars)
<1>1. t \in Threads /\ logged[t] = -1
  BY DEF ReportedOnce, Log, Goto, AfterLog, Reading, Writing, Threads
<1>2. (Reading \cup Writing) \cap Readers = Reading
  BY ThreadsAssumption DEF Reading, Writing
<1>3. CASE logged' = [logged EXCEPT ![t] = readers]
  <2>1. Abstract!Report(t)
    BY <1>1, <1>2, <1>3, AbstractCardinality DEF Abstract!Report, CountExact, Gone
  <2>. QED  BY <1>1, <2>1 DEF Abstract!Next, Threads, Abstract!Threads
<1>4. CASE logged' = logged
  BY <1>4, AbstractStutter
<1>. QED  BY <1>3, <1>4 DEF Log

-----------------------------------------------------------------------------
(***************************************************************************)
(* The lock.                                                               *)
(***************************************************************************)

(* Who holds reader_count_lock: readers while they test, enter and leave,  *)
(* writers while they register and unregister.                             *)
HoldLabels == {"check", "first", "enter", "post", "leave", "last", "unpost",
               "register", "regpost", "deregister", "deregpost"}
Holding == {t \in Threads : pc[t] \in HoldLabels}

(* The readers together own write_lock, as in the other lock.              *)
GroupOwns == \/ Reading # {}
             \/ \E r \in Readers : pc[r] \in {"enter", "last"}

CountLockInv == /\ \A t \in Holding : reader_count_lock = 0
                /\ \A t, u \in Holding : t = u

WriteLockInv == /\ GroupOwns \/ Writing # {} => write_lock = 0
                /\ GroupOwns => Writing = {}
                /\ \A v, w \in Writing : v = w

(* The test of writers_waiting is still true when the reader acts on it,   *)
(* because it has not let go of the count lock since.                      *)
PassedTest == \A r \in Readers : pc[r] \in {"first", "enter"} => writers_waiting = 0

LockInv == /\ TypeOK /\ CountLockInv /\ CountExact /\ WriteLockInv
           /\ WaitingExact /\ PassedTest

Labels == ReaderLabels \cup WriterLabels

-----------------------------------------------------------------------------
(* The writers registered are finitely many, none exactly when they are 0. *)
LEMMA RegisteredFinite == /\ IsFiniteSet(Registered) /\ Cardinality(Registered) \in Nat
                          /\ (Cardinality(Registered) = 0 <=> Registered = {})
BY ThreadsAssumption, FS_Subset, FS_CardinalityType, FS_EmptySet DEF Registered

RegisteredLabels == {"regpost", "acquire", "unwait", "deregister"}

(* Only writers_waiting++ and writers_waiting-- change who is registered.  *)
LEMMA RegisteredSame ==
    ASSUME NEW t \in Threads, NEW from, NEW to, TypeOK, Goto(t, from, to),
           t \in Writers => (from \in RegisteredLabels <=> to \in RegisteredLabels)
    PROVE  Registered' = Registered
BY DEF TypeOK, Goto, Registered, RegisteredLabels, Threads

(* The initial states satisfy the invariant.                               *)
LEMMA LockInit == Init => LockInv
<1>. SUFFICES ASSUME Init PROVE LockInv
  OBVIOUS
<1>1. Reading = {} /\ Writing = {} /\ Holding = {} /\ ~GroupOwns /\ Registered = {}
  BY DEF Init, ThreadsInit, Reading, Writing, Holding, GroupOwns, HoldLabels, Registered,
         ReadLabels, WriteLabels, Threads
<1>2. TypeOK
  BY ThreadsAssumption DEF Init, ThreadsInit, TypeOK, ReaderLabels, WriterLabels, Threads
<1>3. PassedTest
  BY DEF Init, ThreadsInit, PassedTest
<1>. QED
  BY <1>1, <1>2, <1>3, FS_EmptySet
     DEF LockInv, CountLockInv, WriteLockInv, CountExact, WaitingExact, Init, ThreadsInit

-----------------------------------------------------------------------------
(* A reader's steps in the lock functions keep the invariant.              *)
LEMMA ReaderLockStep ==
    ASSUME LockInv, NEW r \in Readers, AcquireRead(r) \/ ReleaseRead(r)
    PROVE  LockInv'
<1>0. pc \in [Threads -> Labels] /\ TypeOK
  BY DEF LockInv, TypeOK, Labels
<1>. USE ThreadsAssumption, ReadersFinite
     DEF LockInv, CountLockInv, CountExact, WriteLockInv, GroupOwns, WaitingExact, PassedTest,
         Holding, HoldLabels, Threads
<1>1. CASE \/ LockCount(r) \/ BackOff(r) \/ UnlockCount(r) \/ RelockCount(r)
           \/ FinishRead(r) \/ NoWriter(r)
  <2>. USE DEF LockCount, BackOff, UnlockCount, RelockCount, FinishRead, NoWriter,
               WaitCount, PostCount, SemWait, SemPost, lock, files
  <2>1. Reading' = Reading /\ Writing' = Writing /\ Registered' = Registered
    BY <1>0, <1>1, ReadingSame, WritingSame, RegisteredSame
       DEF ReadLabels, WriteLabels, RegisteredLabels
  <2>2. TypeOK'
    BY <1>1 DEF TypeOK, Goto, ReaderLabels, WriterLabels, ReadLabels, WriteLabels
  <2>. QED  BY <1>1, <2>1, <2>2 DEF Goto, TypeOK
<1>2. CASE First(r) \/ Last(r)
  <2>. USE DEF First, Last, SemWait, SemPost, files
  <2>1. Reading' = Reading /\ Writing' = Writing /\ Registered' = Registered
    BY <1>0, <1>2, ReadingSame, WritingSame, RegisteredSame
       DEF ReadLabels, WriteLabels, RegisteredLabels
  <2>2. TypeOK'
    BY <1>2 DEF TypeOK, Goto, ReaderLabels, WriterLabels, ReadLabels, WriteLabels
  <2>. QED  BY <1>2, <2>1, <2>2 DEF Goto, TypeOK
<1>3. CASE EnterRead(r)
  <2>. USE DEF EnterRead, lock, files
  <2>1. Writing' = Writing /\ Registered' = Registered
    BY <1>0, <1>3, WritingSame, RegisteredSame DEF WriteLabels, RegisteredLabels
  <2>2. Reading' = Reading \cup {r} /\ Cardinality(Reading') = Cardinality(Reading) + 1
    BY <1>0, <1>3, ReadingEntered
  <2>3. TypeOK'
    BY <1>3 DEF TypeOK, Goto, ReaderLabels, WriterLabels, ReadLabels
  <2>. QED  BY <1>3, <2>1, <2>2, <2>3 DEF Goto, TypeOK
<1>4. CASE LeaveRead(r)
  <2>. USE DEF LeaveRead, lock, files
  <2>1. Writing' = Writing /\ Registered' = Registered
    BY <1>0, <1>4, WritingSame, RegisteredSame DEF WriteLabels, RegisteredLabels
  <2>2. Reading' = Reading \ {r} /\ r \in Reading
          /\ Cardinality(Reading') = Cardinality(Reading) - 1
    BY <1>0, <1>4, ReadingLeft
  <2>3. TypeOK'
    BY <1>4, <2>2 DEF TypeOK, Goto, ReaderLabels, WriterLabels, ReadLabels
  <2>. QED  BY <1>4, <2>1, <2>2, <2>3 DEF Goto, TypeOK
<1>. QED  BY <1>1, <1>2, <1>3, <1>4 DEF AcquireRead, ReleaseRead

(* So do a writer's, which alone change writers_waiting.                   *)
LEMMA WriterLockStep ==
    ASSUME LockInv, NEW w \in Writers, AcquireWrite(w) \/ ReleaseWrite(w)
    PROVE  LockInv'
<1>0. pc \in [Threads -> Labels] /\ TypeOK
  BY DEF LockInv, TypeOK, Labels
<1>. USE ThreadsAssumption, ReadersFinite, RegisteredFinite
     DEF LockInv, CountLockInv, CountExact, WriteLockInv, GroupOwns, WaitingExact, PassedTest,
         Holding, HoldLabels, Threads
<1>1. CASE \/ WaitCount(w, "start", "register") \/ PostCount(w, "regpost", "acquire")
           \/ WaitCount(w, "unwait", "deregister") \/ PostCount(w, "deregpost", "log")
  <2>. USE DEF WaitCount, PostCount, SemWait, SemPost, files
  <2>1. Reading' = Reading /\ Writing' = Writing /\ Registered' = Registered
    BY <1>0, <1>1, ReadingSame, WritingSame, RegisteredSame
       DEF WriteLabels, RegisteredLabels
  <2>2. TypeOK'
    BY <1>1 DEF TypeOK, Goto, ReaderLabels, WriterLabels, WriteLabels
  <2>. QED  BY <1>1, <2>1, <2>2 DEF Goto, TypeOK
<1>2. CASE Count(w, "register", "regpost", writers_waiting + 1)
  <2>. USE DEF Count, files
  <2>1. Reading' = Reading /\ Writing' = Writing
    BY <1>0, <1>2, ReadingSame, WritingSame DEF WriteLabels
  <2>2. Registered' = Registered \cup {w} /\ w \notin Registered
    BY <1>0, <1>2 DEF Goto, Registered
  <2>3. Cardinality(Registered') = Cardinality(Registered) + 1
    BY <2>2, FS_AddElement
  <2>4. TypeOK'
    BY <1>2 DEF TypeOK, Goto, ReaderLabels, WriterLabels, WriteLabels
  <2>. QED  BY <1>2, <2>1, <2>3, <2>4 DEF Goto, TypeOK
<1>3. CASE Count(w, "deregister", "deregpost", writers_waiting - 1)
  <2>. USE DEF Count, files
  <2>1. Reading' = Reading /\ Writing' = Writing
    BY <1>0, <1>3, ReadingSame, WritingSame DEF WriteLabels
  <2>2. Registered' = Registered \ {w} /\ w \in Registered
    BY <1>0, <1>3 DEF Goto, Registered
  <2>3. Cardinality(Registered') = Cardinality(Registered) - 1 /\ Cardinality(Registered) # 0
    BY <2>2, FS_RemoveElement
  <2>4. TypeOK'
    BY <1>3, <2>3 DEF TypeOK, Goto, ReaderLabels, WriterLabels, WriteLabels
  <2>. QED  BY <1>3, <2>1, <2>3, <2>4 DEF Goto, TypeOK
<1>4. CASE TakeWrite(w)
  <2>. USE DEF TakeWrite, SemWait, files
  <2>1. Reading' = Reading /\ Registered' = Registered
    BY <1>0, <1>4, ReadingSame, RegisteredSame DEF RegisteredLabels
  <2>2. Writing' = Writing \cup {w}
    BY <1>0, <1>4 DEF Goto, Writing, WriteLabels
  <2>3. TypeOK'
    BY <1>4 DEF TypeOK, Goto, ReaderLabels, WriterLabels, WriteLabels
  <2>. QED  BY <1>4, <2>1, <2>2, <2>3 DEF Goto, TypeOK
<1>5. CASE ReleaseWrite(w)
  <2>. USE DEF ReleaseWrite, SemPost, files
  <2>1. Reading' = Reading /\ Registered' = Registered
    BY <1>0, <1>5, ReadingSame, RegisteredSame DEF RegisteredLabels
  <2>2. Writing' = Writing \ {w} /\ w \in Writing
    BY <1>0, <1>5 DEF Goto, Writing, WriteLabels
  <2>3. TypeOK'
    BY <1>5, <2>2 DEF TypeOK, Goto, ReaderLabels, WriterLabels, WriteLabels
  <2>. QED  BY <1>5, <2>1, <2>2, <2>3 DEF Goto, TypeOK
<1>. QED
  BY <1>1, <1>2, <1>3, <1>4, <1>5 DEF AcquireWrite, Register, Unregister

(* What threads do between acquire and release keeps it too.               *)
LEMMA BodyLockStep ==
    ASSUME LockInv, NEW t \in Threads, UNCHANGED lock,
           \/ t \in Readers /\ ReaderBody(t)
           \/ t \in Writers /\ WriterBody(t)
    PROVE  LockInv'
<1>0. pc \in [Threads -> Labels] /\ TypeOK
  BY DEF LockInv, TypeOK, Labels
<1>. USE ThreadsAssumption
     DEF ReaderBody, WriterBody, Log, OpenShared, ReadShared, WriteShared, files, lock
<1>1. Reading' = Reading /\ Writing' = Writing /\ Registered' = Registered
  BY <1>0, ReadingSame, WritingSame, RegisteredSame
     DEF ReadLabels, WriteLabels, RegisteredLabels, Threads
<1>2. TypeOK'
  BY DEF LockInv, TypeOK, Goto, ReaderLabels, WriterLabels, ReadLabels, WriteLabels, Threads
<1>. QED
  BY <1>1, <1>2
     DEF LockInv, CountLockInv, CountExact, WriteLockInv, GroupOwns, WaitingExact, PassedTest,
         Holding, HoldLabels, Threads, Goto, TypeOK

(* Every step keeps the invariant.                                         *)
LEMMA LockStep == LockInv /\ [Next]_vars => LockInv'
<1>. SUFFICES ASSUME LockInv, [Next]_vars PROVE LockInv'
  OBVIOUS
<1>1. ASSUME NEW r \in Readers, Reader(r) PROVE LockInv'
  BY <1>1, ReaderLockStep, BodyLockStep DEF Reader, Threads
<1>2. ASSUME NEW w \in Writers, Writer(w) PROVE LockInv'
  BY <1>2, WriterLockStep, BodyLockStep DEF Writer, Threads
<1>3. CASE UNCHANGED vars
  BY <1>3 DEF vars, files, lock, TypeOK, Reading, Writing, Registered, Holding, GroupOwns,
     LockInv, CountLockInv, CountExact, WriteLockInv, WaitingExact, PassedTest
<1>. QED  BY <1>1, <1>2, <1>3 DEF Next

-----------------------------------------------------------------------------
(* Mutual exclusion is what the owners of write_lock amount to.            *)
LEMMA LockExcludes == LockInv => MutualExclusion
BY DEF LockInv, WriteLockInv, GroupOwns, MutualExclusion, Writing

(* A first reader holds the count lock and has seen no writer waiting, so  *)
(* the owner of write_lock cannot be waiting for the count lock.           *)
LEMMA LockOrder == LockInv => NoCircularWait
<1>. SUFFICES ASSUME LockInv, NEW r \in Readers, NEW w \in Writers, pc[r] = "first",
                     pc[w] \in {"unwait", "deregister", "deregpost"}
              PROVE  FALSE
  BY DEF NoCircularWait
<1>1. Registered = {}
  BY RegisteredFinite DEF LockInv, PassedTest, WaitingExact
<1>2. pc[w] = "deregpost"
  BY <1>1 DEF Registered
<1>3. r = w
  BY <1>2 DEF LockInv, CountLockInv, Holding, HoldLabels, Threads
<1>. QED  BY <1>3, ThreadsAssumption

(* A reader enters only while no writer is registered.                     *)
LEMMA EnterStep ==
    LockInv /\ [Next]_vars =>
       [\A r \in Readers : r \notin Reading /\ r \in Reading' => Registered = {}]_vars
<1>. SUFFICES ASSUME LockInv, [Next]_vars, NEW r \in Readers, r \notin Reading, r \in Reading'
              PROVE  Registered = {}
  OBVIOUS
<1>0. pc \in [Threads -> Labels]
  BY DEF LockInv, TypeOK, Labels
<1>. USE ThreadsAssumption DEF Goto, Reading, Threads
<1>1. ASSUME NEW w \in Writers, Writer(w) PROVE FALSE
  <2>1. PICK from, to : Goto(w, from, to)
    BY <1>1 DEF Writer, AcquireWrite, WriterBody, ReleaseWrite, Register, TakeWrite, Unregister,
                Count, WaitCount, PostCount, Log, WriteShared
  <2>. QED  BY <1>0, <2>1
<1>2. ASSUME NEW q \in Readers, Reader(q), ~ EnterRead(q) PROVE FALSE
  <2>1. PICK from, to : Goto(q, from, to) /\ (to \in ReadLabels => from \in ReadLabels)
    BY <1>2 DEF Reader, AcquireRead, ReleaseRead, ReaderBody, LockCount, BackOff, NoWriter,
                First, UnlockCount, RelockCount, LeaveRead, Last, FinishRead, WaitCount,
                PostCount, Log, OpenShared, ReadShared, ReadLabels
  <2>. QED  BY <1>0, <2>1
<1>3. ASSUME NEW q \in Readers, EnterRead(q) PROVE Registered = {}
  BY <1>3, RegisteredFinite DEF EnterRead, LockInv, PassedTest, WaitingExact
<1>4. ~ UNCHANGED vars
  BY DEF vars
<1>. QED  BY <1>1, <1>2, <1>3, <1>4 DEF Next

(* The log and the shared file, in the states the lock allows.             *)
LEMMA BodyInit == Init => BodyInv
BY ThreadsAssumption
   DEF Init, ThreadsInit, BodyInv, LogTruthful, StableRead, ReportedOnce, Threads

(* Every step keeps them.                                                  *)
LEMMA BodyStep == LockInv /\ BodyInv /\ [Next]_vars => BodyInv'
<1>. SUFFICES ASSUME LockInv, BodyInv, [Next]_vars PROVE BodyInv'
  OBVIOUS
<1>0. pc \in [Threads -> Labels] /\ logged \in [Threads -> Int] /\ seen \in [Readers -> Nat]
  BY DEF LockInv, TypeOK, Labels
<1>1. CountExact /\ MutualExclusion
  BY LockExcludes DEF LockInv
<1>2. ASSUME NEW r \in Readers, Reader(r) PROVE BodyInv'
  <2>1. CASE ReaderBody(r)
    BY <1>0, <1>1, <2>1, ReaderBodyInv
  <2>2. CASE AcquireRead(r) \/ ReleaseRead(r)
    <3>1. PICK from, to : LockMove(r, from, to)
      BY <2>2 DEF AcquireRead, ReleaseRead, LockCount, BackOff, NoWriter, First, EnterRead,
                  UnlockCount, RelockCount, LeaveRead, Last, FinishRead, WaitCount, PostCount,
                  LockMove, AfterLog
    <3>. QED  BY <1>0, <3>1, BodyInvKept DEF Threads
  <2>. QED  BY <1>2, <2>1, <2>2 DEF Reader
<1>3. ASSUME NEW w \in Writers, Writer(w) PROVE BodyInv'
  <2>1. CASE WriterBody(w)
    BY <1>0, <1>1, <2>1, WriterBodyInv
  <2>2. CASE AcquireWrite(w) \/ ReleaseWrite(w)
    <3>1. PICK from, to : LockMove(w, from, to)
      BY <2>2 DEF AcquireWrite, ReleaseWrite, Register, TakeWrite, Unregister, Count,
                  WaitCount, PostCount, LockMove, AfterLog
    <3>. QED  BY <1>0, <3>1, BodyInvKept DEF Threads
  <2>. QED  BY <1>3, <2>1, <2>2 DEF Writer
<1>4. CASE UNCHANGED vars
  BY <1>4 DEF vars, files, BodyInv, LogTruthful, StableRead, ReportedOnce
<1>. QED  BY <1>2, <1>3, <1>4 DEF Next

-----------------------------------------------------------------------------
(* The lock invariant and the log invariant hold in every reachable state, *)
(* however many readers and writers there are.                             *)
THEOREM WriterPrefInvariant == Spec => [](LockInv /\ BodyInv)
<1>1. Init => LockInv /\ BodyInv
  BY LockInit, BodyInit
<1>2. LockInv /\ BodyInv /\ [Next]_vars => (LockInv /\ BodyInv)'
  BY LockStep, BodyStep
<1>. QED  BY <1>1, <1>2, PTL DEF Spec

(* Type correctness: both semaphores stay binary.                          *)
THEOREM WriterPrefTypeOK == Spec => []TypeOK
<1>1. LockInv => TypeOK
  BY DEF LockInv
<1>. QED  BY <1>1, WriterPrefInvariant, PTL

(* A writer is never inside with anybody else.                             *)
THEOREM WriterPrefMutualExclusion == Spec => []MutualExclusion
BY LockExcludes, WriterPrefInvariant, PTL

(* rwlock.readers counts the readers that are inside, at every moment.     *)
THEOREM WriterPrefCountExact == Spec => []CountExact
<1>1. LockInv => CountExact
  BY DEF LockInv
<1>. QED  BY <1>1, WriterPrefInvariant, PTL

(* writers_waiting counts the writers between ++ and --.                   *)
THEOREM WriterPrefWaitingExact == Spec => []WaitingExact
<1>1. LockInv => WaitingExact
  BY DEF LockInv
<1>. QED  BY <1>1, WriterPrefInvariant, PTL

(* The unprotected read of rwlock.readers for the log line still reports   *)
(* a number that is true of the thread that reports it.                    *)
THEOREM WriterPrefLogTruthful == Spec => []LogTruthful
<1>1. BodyInv => LogTruthful
  BY DEF BodyInv
<1>. QED  BY <1>1, WriterPrefInvariant, PTL

(* No writer appends to the file while a reader goes through it.           *)
THEOREM WriterPrefStableRead == Spec => []StableRead
<1>1. BodyInv => StableRead
  BY DEF BodyInv
<1>. QED  BY <1>1, WriterPrefInvariant, PTL

(* The lock and what it protects agree: all of the above together.         *)
THEOREM WriterPrefSound == Spec => []Inv
BY WriterPrefTypeOK, WriterPrefMutualExclusion, WriterPrefCountExact,
   WriterPrefWaitingExact, WriterPrefLogTruthful, WriterPrefStableRead, PTL DEF Inv

(* The two semaphores, taken in both orders, never block each other.       *)
THEOREM WriterPrefNoCircularWait == Spec => []NoCircularWait
BY LockOrder, WriterPrefInvariant, PTL

(* No reader enters while a writer is registered as waiting.               *)
THEOREM WriterPrefWritersFirst == Spec => WritersFirst
BY EnterStep, WriterPrefInvariant, PTL DEF Spec, WritersFirst

-----------------------------------------------------------------------------
(* Each step of the lock is a step of the abstract readers-writers problem *)
(* or leaves its variables unchanged.                                      *)
LEMMA AbstractStep ==
    LockInv /\ BodyInv /\ [Next]_vars => [Abstract!Next]_(Abstract!vars)
<1>. SUFFICES ASSUME LockInv, BodyInv, [Next]_vars
              PROVE  [Abstract!Next]_(Abstract!vars)
  OBVIOUS
<1>0. pc \in [Threads -> Labels]
  BY DEF LockInv, TypeOK, Labels
<1>1. ASSUME NEW r \in Readers, EnterRead(r) PROVE Abstract!StartRead(r)
  <2>1. Reading' = Reading \cup {r} /\ r \notin Reading
    BY <1>0, <1>1, ReadingEntered DEF EnterRead
  <2>2. Writing = {} /\ Writing' = Writing
    BY <1>0, <1>1, WritingSame
       DEF EnterRead, Goto, LockInv, WriteLockInv, GroupOwns, WriteLabels, Threads
  <2>3. Gone' = Gone /\ r \notin Gone
    BY <1>0, <1>1, ThreadsAssumption DEF EnterRead, Goto, Gone, Threads
  <2>. QED
    BY <1>1, <2>1, <2>2, <2>3, ThreadsAssumption
       DEF Abstract!StartRead, Abstract!Enter, EnterRead, files, Gone, Reading
<1>2. ASSUME NEW r \in Readers, LeaveRead(r) PROVE Abstract!Leave(r)
  <2>1. Reading' = Reading \ {r} /\ r \in Reading
    BY <1>0, <1>2, ReadingLeft DEF LeaveRead
  <2>2. Writing' = Writing /\ r \notin Writing
    BY <1>0, <1>2, WritingSame, ThreadsAssumption DEF LeaveRead, Writing, Threads
  <2>3. Gone' = Gone \cup {r}
    BY <1>0, <1>2, ThreadsAssumption DEF LeaveRead, Goto, Gone, Threads
  <2>. QED
    BY <1>2, <2>1, <2>2, <2>3 DEF Abstract!Leave, LeaveRead, files, Gone
<1>3. ASSUME NEW w \in Writers, TakeWrite(w) PROVE Abstract!StartWrite(w)
  <2>1. Reading = {} /\ Writing = {}
    BY <1>3 DEF TakeWrite, SemWait, LockInv, WriteLockInv, GroupOwns, TypeOK
  <2>2. Reading' = Reading /\ Writing' = {w}
    BY <1>0, <1>3, <2>1, ReadingSame, ThreadsAssumption
       DEF TakeWrite, Goto, Writing, WriteLabels, Threads
  <2>3. Gone' = Gone /\ w \notin Gone
    BY <1>0, <1>3, ThreadsAssumption DEF TakeWrite, Goto, Gone, Threads
  <2>. QED
    BY <1>3, <2>1, <2>2, <2>3 DEF Abstract!StartWrite, Abstract!Enter, TakeWrite, files, Gone
<1>4. ASSUME NEW w \in Writers, ReleaseWrite(w) PROVE Abstract!Leave(w)
  <2>1. Reading' = Reading /\ Writing' = Writing \ {w} /\ w \in Writing /\ w \notin Reading
    BY <1>0, <1>4, ReadingSame, ThreadsAssumption
       DEF ReleaseWrite, Goto, Reading, Writing, WriteLabels, Threads
  <2>2. Gone' = Gone \cup {w}
    BY <1>0, <1>4, ThreadsAssumption DEF ReleaseWrite, Goto, Gone, Threads
  <2>. QED
    BY <1>4, <2>1, <2>2 DEF Abstract!Leave, ReleaseWrite, files, Gone
<1>5. ASSUME NEW t \in Threads,
             \/ /\ t \in Readers
                /\ \/ LockCount(t) \/ BackOff(t) \/ NoWriter(t) \/ First(t)
                   \/ UnlockCount(t) \/ RelockCount(t) \/ Last(t) \/ FinishRead(t)
             \/ t \in Writers /\ (Register(t) \/ Unregister(t))
      PROVE  UNCHANGED Abstract!vars
  <2>. USE <1>0, <1>5, ThreadsAssumption
       DEF LockCount, BackOff, NoWriter, First, UnlockCount, RelockCount, Last, FinishRead,
           Register, Unregister, WaitCount, PostCount, Count, files
  <2>1. Reading' = Reading /\ Writing' = Writing
    BY ReadingSame, WritingSame DEF ReadLabels, WriteLabels
  <2>2. Gone' = Gone
    BY DEF Goto, Gone, Threads
  <2>. QED
    BY <2>1, <2>2, AbstractStutter
<1>6. ASSUME NEW t \in Threads,
             \/ t \in Readers /\ ReaderBody(t)
             \/ t \in Writers /\ WriterBody(t)
      PROVE  [Abstract!Next]_(Abstract!vars)
  <2>1. Reading' = Reading /\ Writing' = Writing
    BY <1>0, <1>6, ReadingSame, WritingSame, ThreadsAssumption
       DEF ReaderBody, WriterBody, Log, OpenShared, ReadShared, WriteShared,
           ReadLabels, WriteLabels
  <2>2. Gone' = Gone
    BY <1>0, <1>6, ThreadsAssumption
       DEF ReaderBody, WriterBody, Log, OpenShared, ReadShared, WriteShared, Goto, Gone, Threads
  <2>3. CASE Log(t, "open") \/ Log(t, "write")
    <3>1. t \in Reading \cup Writing
      BY <2>3 DEF Log, Goto, Reading, Writing, ReadLabels, WriteLabels, Threads
    <3>. QED
      BY <2>1, <2>2, <2>3, <3>1, AbstractReport DEF LockInv, BodyInv
  <2>4. CASE OpenShared(t) \/ ReadShared(t) \/ WriteShared(t)
    BY <2>1, <2>2, <2>4, AbstractStutter DEF OpenShared, ReadShared, WriteShared, files
  <2>. QED  BY <1>6, <2>3, <2>4 DEF ReaderBody, WriterBody
<1>7. CASE UNCHANGED vars
  BY <1>7, AbstractStutter DEF vars, files, Reading, Writing, Gone
<1>. QED
  BY <1>1, <1>2, <1>3, <1>4, <1>5, <1>6, <1>7
     DEF Next, Reader, Writer, AcquireRead, ReleaseRead, AcquireWrite, Threads,
         Abstract!Next, Abstract!Threads

(* Whatever the number of threads, the writer-preference lock implements   *)
(* the safety part of the abstract readers-writers problem.                *)
THEOREM WriterPrefImplementsRW == Spec => StepsOfRW
<1>1. Init => Abstract!Init
  BY DEF Init, ThreadsInit, Abstract!Init, Abstract!Threads, Reading, Writing,
         ReadLabels, WriteLabels, Threads
<1>. QED  BY <1>1, WriterPrefInvariant, AbstractStep, PTL DEF Spec, StepsOfRW
=============================================================================
