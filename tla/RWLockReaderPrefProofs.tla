----------------------- MODULE RWLockReaderPrefProofs -----------------------
(***************************************************************************)
(* Proofs about the reader-preference lock for any finite sets of threads. *)
(***************************************************************************)
EXTENDS RWLockReaderPref, FiniteSetTheorems, TLAPS

(***************************************************************************)
(* The part about RWThreads, which RWLockWriterPrefProofs has as well:     *)
(* how the sets of threads inside change with a step of one thread, what   *)
(* the steps a thread takes while it holds the lock preserve, and which    *)
(* abstract step each one is.                                              *)
(***************************************************************************)

(* Nothing reported before the log statement, and from then on the truth.  *)
AfterLog == {"open", "read", "write", "release", "leave", "last", "unpost", "done"}

ReportedOnce == \A t \in Threads : logged[t] # -1 => pc[t] \in AfterLog

(* A step of one thread that neither logs nor crosses a section boundary   *)
(* of the other kind; the frame of all steps of the lock functions.        *)
LockMove(t, from, to) == /\ Goto(t, from, to)
                         /\ from # "log" /\ (from \in AfterLog => to \in AfterLog)
                         /\ to # "read"
                         /\ UNCHANGED files

-----------------------------------------------------------------------------
(* The readers inside are finitely many, and none exactly when they are 0. *)
LEMMA ReadersFinite == /\ IsFiniteSet(Reading) /\ Cardinality(Reading) \in Nat
                       /\ Cardinality(Reading) <= Cardinality(Readers)
                       /\ Cardinality(Readers) \in Nat
                       /\ (Cardinality(Reading) = 0 <=> Reading = {})
BY ThreadsAssumption, FS_Subset, FS_CardinalityType, FS_EmptySet DEF Reading

(* A step of a thread that does not carry a reader over the boundary of    *)
(* its section leaves the set of readers inside as it is.                  *)
LEMMA ReadingSame ==
    ASSUME NEW t \in Threads, NEW from, NEW to, NEW Labels,
           pc \in [Threads -> Labels], Goto(t, from, to),
           t \in Readers => (from \in ReadLabels <=> to \in ReadLabels)
    PROVE  Reading' = Reading
BY DEF Goto, Reading, Threads

(* The same of the writers.                                                *)
LEMMA WritingSame ==
    ASSUME NEW t \in Threads, NEW from, NEW to, NEW Labels,
           pc \in [Threads -> Labels], Goto(t, from, to),
           t \in Writers => (from \in WriteLabels <=> to \in WriteLabels)
    PROVE  Writing' = Writing
BY DEF Goto, Writing, Threads

(* readers++ adds one reader to those inside.                              *)
LEMMA ReadingEntered ==
    ASSUME NEW r \in Readers, NEW Labels,
           pc \in [Threads -> Labels], Goto(r, "enter", "post")
    PROVE  /\ Reading' = Reading \cup {r} /\ r \notin Reading
           /\ Cardinality(Reading') = Cardinality(Reading) + 1
<1>1. Reading' = Reading \cup {r} /\ r \notin Reading
  BY DEF Goto, Reading, ReadLabels, Threads
<1>. QED  BY <1>1, ReadersFinite, FS_AddElement

(* readers-- removes one reader from those inside.                         *)
LEMMA ReadingLeft ==
    ASSUME NEW r \in Readers, NEW Labels,
           pc \in [Threads -> Labels], Goto(r, "leave", "last")
    PROVE  /\ Reading' = Reading \ {r} /\ r \in Reading
           /\ Cardinality(Reading') = Cardinality(Reading) - 1
<1>1. Reading' = Reading \ {r} /\ r \in Reading
  BY DEF Goto, Reading, ReadLabels, Threads
<1>. QED  BY <1>1, ReadersFinite, FS_RemoveElement

-----------------------------------------------------------------------------
(* What is written to the log and what a reader sees, as an invariant of   *)
(* the threads' common part.                                               *)
BodyInv == LogTruthful /\ StableRead /\ ReportedOnce

(* The steps of the lock functions touch neither log nor shared file.      *)
LEMMA BodyInvKept ==
    ASSUME BodyInv, NEW t \in Threads, NEW from, NEW to, NEW Labels,
           pc \in [Threads -> Labels], LockMove(t, from, to)
    PROVE  BodyInv'
BY DEF BodyInv, LogTruthful, StableRead, ReportedOnce, LockMove, Goto, AfterLog, files, Threads

(* A reader's steps between acquire and release keep the log truthful and  *)
(* every read stable.                                                      *)
LEMMA ReaderBodyInv ==
    ASSUME BodyInv, CountExact, NEW r \in Readers, ReaderBody(r), NEW Labels,
           pc \in [Threads -> Labels], logged \in [Threads -> Int],
           seen \in [Readers -> Nat]
    PROVE  BodyInv'
<1>. USE ThreadsAssumption DEF BodyInv, LogTruthful, StableRead, ReportedOnce, Goto, AfterLog, Threads
<1>1. CASE Log(r, "open")
  <2>1. r \in Reading
    BY <1>1 DEF Log, Reading, ReadLabels
  <2>2. readers \in 1 .. Cardinality(Readers)
    BY <2>1, ReadersFinite DEF CountExact
  <2>. QED  BY <1>1, <2>2 DEF Log
<1>2. CASE OpenShared(r)
  BY <1>2 DEF OpenShared
<1>3. CASE ReadShared(r)
  BY <1>3 DEF ReadShared, files
<1>. QED  BY <1>1, <1>2, <1>3 DEF ReaderBody

(* So do a writer's, because no reader is inside with it.                  *)
LEMMA WriterBodyInv ==
    ASSUME BodyInv, CountExact, MutualExclusion, NEW w \in Writers, WriterBody(w),
           NEW Labels, pc \in [Threads -> Labels], logged \in [Threads -> Int],
           seen \in [Readers -> Nat]
    PROVE  BodyInv'
<1>. USE ThreadsAssumption DEF BodyInv, LogTruthful, StableRead, ReportedOnce, Goto, AfterLog, Threads
<1>0. w \in Writing
  BY DEF WriterBody, Log, WriteShared, Writing, WriteLabels
<1>1. Reading = {}
  BY <1>0 DEF MutualExclusion
<1>2. CASE Log(w, "write")
  <2>1. readers = 0
    BY <1>1, ReadersFinite DEF CountExact
  <2>. QED  BY <1>2, <2>1 DEF Log
<1>3. CASE WriteShared(w)
  BY <1>1, <1>3 DEF WriteShared, Reading, ReadLabels
<1>. QED  BY <1>2, <1>3 DEF WriterBody

-----------------------------------------------------------------------------
(* The threads that have left, in the abstract specification's terms.      *)
Gone == {t \in Readers : pc[t] \in {"last", "unpost", "done"}}
          \cup {t \in Writers : pc[t] = "done"}

(* A step that leaves the sets and the log alone is an abstract stutter.   *)
LEMMA AbstractStutter ==
    ASSUME Reading' = Reading, Writing' = Writing, Gone' = Gone, logged' = logged
    PROVE  UNCHANGED Abstract!vars
BY DEF Abstract!vars, Gone

(* The abstract specification counts with the same Cardinality.            *)
LEMMA AbstractCardinality == \A S : Abstract!Cardinality(S) = Cardinality(S)
BY DEF Abstract!Cardinality, Cardinality

(* Logging the count from inside is the abstract report.                   *)
LEMMA AbstractReport ==
    ASSUME ReportedOnce, CountExact, NEW t \in Reading \cup Writing, NEW to, Log(t, to),
           Reading' = Reading, Writing' = Writing, Gone' = Gone
    PROVE  [Abstract!Next]_(Abstract!vars)
<1>1. t \in Threads /\ logged[t] = -1
  BY DEF ReportedOnce, Log, Goto, AfterLog, Reading, Writing, Threads
<1>2. (Reading \cup Writing) \cap Readers = Reading
  BY ThreadsAssumption DEF Reading, Writing
<1>3. CASE logged' = [logged EXCEPT ![t] = readers]
  <2>1. Abstract!Report(t)
    BY <1>1, <1>2, <1>3, AbstractCardinality DEF Abstract!Report, CountExact, Gone
  <2>. QED  BY <1>1, <2>1 DEF Abstract!Next, Threads, Abstract!Threads
<1>4. CASE logged' = logged
  BY <1>4, AbstractStutter
<1>. QED  BY <1>3, <1>4 DEF Log

-----------------------------------------------------------------------------
(***************************************************************************)
(* The lock.                                                               *)
(***************************************************************************)

(* A reader holds reader_lock from the wait that takes it to the post.     *)
HoldLabels == {"first", "enter", "post", "leave", "last", "unpost"}
Holding == {r \in Readers : pc[r] \in HoldLabels}

(* The readers together own write_lock: one of them is inside, about to    *)
(* enter after the first has taken it, or the last has not yet posted it.  *)
GroupOwns == \/ Reading # {}
             \/ \E r \in Readers : pc[r] \in {"enter", "last"}

CountLockInv == /\ \A r \in Holding : reader_lock = 0
                /\ \A r, q \in Holding : r = q

WriteLockInv == /\ GroupOwns \/ Writing # {} => write_lock = 0
                /\ GroupOwns => Writing = {}
                /\ \A v, w \in Writing : v = w

LockInv == TypeOK /\ CountLockInv /\ CountExact /\ WriteLockInv

Labels == ReaderLabels \cup WriterLabels

-----------------------------------------------------------------------------
(* The initial states satisfy the invariant.                               *)
LEMMA LockInit == Init => LockInv
<1>. SUFFICES ASSUME Init PROVE LockInv
  OBVIOUS
<1>1. Reading = {} /\ Writing = {} /\ Holding = {} /\ ~GroupOwns
  BY DEF Init, ThreadsInit, Reading, Writing, Holding, GroupOwns, HoldLabels,
         ReadLabels, WriteLabels, Threads
<1>2. TypeOK
  BY ThreadsAssumption DEF Init, ThreadsInit, TypeOK, ReaderLabels, WriterLabels, Threads
<1>. QED
  BY <1>1, <1>2, FS_EmptySet
     DEF LockInv, CountLockInv, WriteLockInv, CountExact, Init, ThreadsInit

(* Every step keeps it.                                                     *)
LEMMA LockStep == LockInv /\ [Next]_vars => LockInv'
<1>. SUFFICES ASSUME LockInv, [Next]_vars PROVE LockInv'
  OBVIOUS
<1>0. pc \in [Threads -> Labels]
  BY DEF LockInv, TypeOK, Labels
<1>. USE ThreadsAssumption, ReadersFinite
     DEF LockInv, CountLockInv, CountExact, WriteLockInv, GroupOwns
<1>. USE DEF Holding, HoldLabels, Threads
<1>1. ASSUME NEW r \in Readers, LockCount(r) PROVE LockInv'
  <2>1. Reading' = Reading /\ Writing' = Writing
    BY <1>0, <1>1, ReadingSame, WritingSame DEF LockCount, ReadLabels, WriteLabels
  <2>2. TypeOK'
    BY <1>1 DEF LockCount, TypeOK, Goto, SemWait, SemPost, ReaderLabels, WriterLabels, ReadLabels, WriteLabels, files, sems
  <2>. QED
    BY <1>1, <2>1, <2>2 DEF LockCount, Goto, SemWait, SemPost, TypeOK, files, sems
<1>2. ASSUME NEW r \in Readers, First(r) PROVE LockInv'
  <2>1. Reading' = Reading /\ Writing' = Writing
    BY <1>0, <1>2, ReadingSame, WritingSame DEF First, ReadLabels, WriteLabels
  <2>2. TypeOK'
    BY <1>2 DEF First, TypeOK, Goto, SemWait, SemPost, ReaderLabels, WriterLabels, ReadLabels, WriteLabels, files, sems
  <2>. QED
    BY <1>2, <2>1, <2>2 DEF First, Goto, SemWait, SemPost, TypeOK, files, sems
<1>3. ASSUME NEW r \in Readers, EnterRead(r) PROVE LockInv'
  <2>1. Writing' = Writing
    BY <1>0, <1>3, WritingSame DEF EnterRead, WriteLabels
  <2>2. Reading' = Reading \cup {r} /\ Cardinality(Reading') = Cardinality(Reading) + 1
    BY <1>0, <1>3, ReadingEntered DEF EnterRead
  <2>3. TypeOK'
    BY <1>3 DEF EnterRead, TypeOK, Goto, ReaderLabels, WriterLabels, ReadLabels, files, sems
  <2>. QED
    BY <1>3, <2>1, <2>2, <2>3 DEF EnterRead, Goto, TypeOK, files, sems
<1>4. ASSUME NEW r \in Readers, UnlockCount(r) PROVE LockInv'
  <2>1. Reading' = Reading /\ Writing' = Writing
    BY <1>0, <1>4, ReadingSame, WritingSame DEF UnlockCount, ReadLabels, WriteLabels
  <2>2. TypeOK'
    BY <1>4 DEF UnlockCount, TypeOK, Goto, SemWait, SemPost, ReaderLabels, WriterLabels, ReadLabels, WriteLabels, files, sems
  <2>. QED
    BY <1>4, <2>1, <2>2 DEF UnlockCount, Goto, SemWait, SemPost, TypeOK, files, sems
<1>5. ASSUME NEW r \in Readers, RelockCount(r) PROVE LockInv'
  <2>1. Reading' = Reading /\ Writing' = Writing
    BY <1>0, <1>5, ReadingSame, WritingSame DEF RelockCount, ReadLabels, WriteLabels
  <2>2. TypeOK'
    BY <1>5 DEF RelockCount, TypeOK, Goto, SemWait, SemPost, ReaderLabels, WriterLabels, ReadLabels, WriteLabels, files, sems
  <2>. QED
    BY <1>5, <2>1, <2>2 DEF RelockCount, Goto, SemWait, SemPost, TypeOK, files, sems
<1>6. ASSUME NEW r \in Readers, LeaveRead(r) PROVE LockInv'
  <2>1. Writing' = Writing
    BY <1>0, <1>6, WritingSame DEF LeaveRead, WriteLabels
  <2>2. Reading' = Reading \ {r} /\ r \in Reading
          /\ Cardinality(Reading') = Cardinality(Reading) - 1
    BY <1>0, <1>6, ReadingLeft DEF LeaveRead
  <2>3. TypeOK'
    BY <1>6, <2>2 DEF LeaveRead, TypeOK, Goto, ReaderLabels, WriterLabels, ReadLabels, files, sems
  <2>. QED
    BY <1>6, <2>1, <2>2, <2>3 DEF LeaveRead, Goto, TypeOK, files, sems
<1>7. ASSUME NEW r \in Readers, Last(r) PROVE LockInv'
  <2>1. Reading' = Reading /\ Writing' = Writing
    BY <1>0, <1>7, ReadingSame, WritingSame DEF Last, ReadLabels, WriteLabels
  <2>2. TypeOK'
    BY <1>7 DEF Last, TypeOK, Goto, SemWait, SemPost, ReaderLabels, WriterLabels, ReadLabels, WriteLabels, files, sems
  <2>. QED
    BY <1>7, <2>1, <2>2 DEF Last, Goto, SemWait, SemPost, TypeOK, files, sems
<1>8. ASSUME NEW r \in Readers, FinishRead(r) PROVE LockInv'
  <2>1. Reading' = Reading /\ Writing' = Writing
    BY <1>0, <1>8, ReadingSame, WritingSame DEF FinishRead, ReadLabels, WriteLabels
  <2>2. TypeOK'
    BY <1>8 DEF FinishRead, TypeOK, Goto, SemWait, SemPost, ReaderLabels, WriterLabels, ReadLabels, WriteLabels, files, sems
  <2>. QED
    BY <1>8, <2>1, <2>2 DEF FinishRead, Goto, SemWait, SemPost, TypeOK, files, sems
<1>9. ASSUME NEW r \in Readers, ReaderBody(r), UNCHANGED sems PROVE LockInv'
  <2>1. Reading' = Reading /\ Writing' = Writing
    BY <1>0, <1>9, ReadingSame, WritingSame
       DEF ReaderBody, Log, OpenShared, ReadShared, ReadLabels, WriteLabels
  <2>2. TypeOK'
    BY <1>9 DEF ReaderBody, Log, OpenShared, ReadShared, TypeOK, Goto,
                ReaderLabels, WriterLabels, ReadLabels, WriteLabels, files, sems
  <2>. QED
    BY <1>9, <2>1, <2>2
       DEF ReaderBody, Log, OpenShared, ReadShared, Goto, TypeOK, files, sems
<1>10. ASSUME NEW w \in Writers, AcquireWrite(w) PROVE LockInv'
  <2>1. Reading' = Reading
    BY <1>0, <1>10, ReadingSame DEF AcquireWrite
  <2>2. Writing' = Writing \cup {w}
    BY <1>10 DEF AcquireWrite, Goto, Writing, WriteLabels, TypeOK
  <2>3. TypeOK'
    BY <1>10 DEF AcquireWrite, TypeOK, Goto, SemWait, ReaderLabels, WriterLabels, files
  <2>. QED
    BY <1>10, <2>1, <2>2, <2>3 DEF AcquireWrite, Goto, SemWait, TypeOK, files
<1>11. ASSUME NEW w \in Writers, WriterBody(w), UNCHANGED sems PROVE LockInv'
  <2>1. Reading' = Reading /\ Writing' = Writing
    BY <1>0, <1>11, ReadingSame, WritingSame DEF WriterBody, Log, WriteShared, WriteLabels
  <2>2. TypeOK'
    BY <1>11 DEF WriterBody, Log, WriteShared, TypeOK, Goto, ReaderLabels, WriterLabels,
                 files, sems
  <2>. QED
    BY <1>11, <2>1, <2>2 DEF WriterBody, Log, WriteShared, Goto, TypeOK, files, sems
<1>12. ASSUME NEW w \in Writers, ReleaseWrite(w) PROVE LockInv'
  <2>1. Reading' = Reading
    BY <1>0, <1>12, ReadingSame DEF ReleaseWrite
  <2>2. Writing' = Writing \ {w} /\ w \in Writing
    BY <1>12 DEF ReleaseWrite, Goto, Writing, WriteLabels, TypeOK
  <2>3. TypeOK'
    BY <1>12, <2>2 DEF ReleaseWrite, TypeOK, Goto, SemPost, ReaderLabels, WriterLabels, files
  <2>. QED
    BY <1>12, <2>1, <2>2, <2>3 DEF ReleaseWrite, Goto, SemPost, TypeOK, files
<1>13. CASE UNCHANGED vars
  BY <1>13 DEF vars, files, sems, TypeOK, Reading, Writing
<1>. QED
  BY <1>1, <1>2, <1>3, <1>4, <1>5, <1>6, <1>7, <1>8, <1>9, <1>10, <1>11, <1>12, <1>13
     DEF Next, Reader, Writer, AcquireRead, ReleaseRead

-----------------------------------------------------------------------------
(* Mutual exclusion is what the owners of write_lock amount to.            *)
LEMMA LockExcludes == LockInv => MutualExclusion
BY DEF LockInv, WriteLockInv, GroupOwns, MutualExclusion, Writing

(* The log and the shared file, in the states the lock allows.             *)
LEMMA BodyInit == Init => BodyInv
BY ThreadsAssumption
   DEF Init, ThreadsInit, BodyInv, LogTruthful, StableRead, ReportedOnce, Threads

(* Every step keeps them.                                                  *)
LEMMA BodyStep == LockInv /\ BodyInv /\ [Next]_vars => BodyInv'
<1>. SUFFICES ASSUME LockInv, BodyInv, [Next]_vars PROVE BodyInv'
  OBVIOUS
<1>0. pc \in [Threads -> Labels] /\ logged \in [Threads -> Int] /\ seen \in [Readers -> Nat]
  BY DEF LockInv, TypeOK, Labels
<1>1. CountExact /\ MutualExclusion
  BY LockExcludes DEF LockInv
<1>2. ASSUME NEW r \in Readers, Reader(r) PROVE BodyInv'
  <2>1. CASE ReaderBody(r)
    BY <1>0, <1>1, <2>1, ReaderBodyInv
  <2>2. CASE AcquireRead(r) \/ ReleaseRead(r)
    <3>1. PICK from, to : LockMove(r, from, to)
      BY <2>2 DEF AcquireRead, ReleaseRead, LockCount, First, EnterRead, UnlockCount,
                  RelockCount, LeaveRead, Last, FinishRead, LockMove, AfterLog
    <3>. QED  BY <1>0, <3>1, BodyInvKept DEF Threads
  <2>. QED  BY <1>2, <2>1, <2>2 DEF Reader
<1>3. ASSUME NEW w \in Writers, Writer(w) PROVE BodyInv'
  <2>1. CASE WriterBody(w)
    BY <1>0, <1>1, <2>1, WriterBodyInv
  <2>2. CASE AcquireWrite(w) \/ ReleaseWrite(w)
    <3>1. PICK from, to : LockMove(w, from, to)
      BY <2>2 DEF AcquireWrite, ReleaseWrite, LockMove, AfterLog
    <3>. QED  BY <1>0, <3>1, BodyInvKept DEF Threads
  <2>. QED  BY <1>3, <2>1, <2>2 DEF Writer
<1>4. CASE UNCHANGED vars
  BY <1>4 DEF vars, files, BodyInv, LogTruthful, StableRead, ReportedOnce
<1>. QED  BY <1>2, <1>3, <1>4 DEF Next

(* The lock invariant and the log invariant hold in every reachable state, *)
(* however many readers and writers there are.                             *)
THEOREM ReaderPrefInvariant == Spec => [](LockInv /\ BodyInv)
<1>1. Init => LockInv /\ BodyInv
  BY LockInit, BodyInit
<1>2. LockInv /\ BodyInv /\ [Next]_vars => (LockInv /\ BodyInv)'
  BY LockStep, BodyStep
<1>. QED  BY <1>1, <1>2, PTL DEF Spec

(* Type correctness: both semaphores stay binary.                          *)
THEOREM ReaderPrefTypeOK == Spec => []TypeOK
<1>1. LockInv => TypeOK
  BY DEF LockInv
<1>. QED  BY <1>1, ReaderPrefInvariant, PTL

(* A writer is never inside with anybody else.                             *)
THEOREM ReaderPrefMutualExclusion == Spec => []MutualExclusion
BY LockExcludes, ReaderPrefInvariant, PTL

(* rwlock.readers counts the readers that are inside, at every moment.     *)
THEOREM ReaderPrefCountExact == Spec => []CountExact
<1>1. LockInv => CountExact
  BY DEF LockInv
<1>. QED  BY <1>1, ReaderPrefInvariant, PTL

(* The unprotected read of rwlock.readers for the log line still reports   *)
(* a number that is true of the thread that reports it.                    *)
THEOREM ReaderPrefLogTruthful == Spec => []LogTruthful
<1>1. BodyInv => LogTruthful
  BY DEF BodyInv
<1>. QED  BY <1>1, ReaderPrefInvariant, PTL

(* No writer appends to the file while a reader goes through it.           *)
THEOREM ReaderPrefStableRead == Spec => []StableRead
<1>1. BodyInv => StableRead
  BY DEF BodyInv
<1>. QED  BY <1>1, ReaderPrefInvariant, PTL

(* The lock and what it protects agree: all of the above together.         *)
THEOREM ReaderPrefSound == Spec => []Inv
BY ReaderPrefTypeOK, ReaderPrefMutualExclusion, ReaderPrefCountExact,
   ReaderPrefLogTruthful, ReaderPrefStableRead, PTL DEF Inv

-----------------------------------------------------------------------------
(* Each step of the lock is a step of the abstract readers-writers problem *)
(* or leaves its variables unchanged.                                      *)
LEMMA AbstractStep ==
    LockInv /\ BodyInv /\ [Next]_vars => [Abstract!Next]_(Abstract!vars)
<1>. SUFFICES ASSUME LockInv, BodyInv, [Next]_vars
              PROVE  [Abstract!Next]_(Abstract!vars)
  OBVIOUS
<1>0. pc \in [Threads -> Labels]
  BY DEF LockInv, TypeOK, Labels
<1>1. ASSUME NEW r \in Readers, EnterRead(r) PROVE Abstract!StartRead(r)
  <2>1. Reading' = Reading \cup {r} /\ r \notin Reading
    BY <1>0, <1>1, ReadingEntered DEF EnterRead
  <2>2. Writing = {} /\ Writing' = Writing
    BY <1>0, <1>1, WritingSame
       DEF EnterRead, Goto, LockInv, WriteLockInv, GroupOwns, WriteLabels, Threads
  <2>3. Gone' = Gone /\ r \notin Gone
    BY <1>0, <1>1, ThreadsAssumption DEF EnterRead, Goto, Gone, Threads
  <2>. QED
    BY <1>1, <2>1, <2>2, <2>3, ThreadsAssumption
       DEF Abstract!StartRead, Abstract!Enter, EnterRead, files, Gone, Reading
<1>2. ASSUME NEW r \in Readers, LeaveRead(r) PROVE Abstract!Leave(r)
  <2>1. Reading' = Reading \ {r} /\ r \in Reading
    BY <1>0, <1>2, ReadingLeft DEF LeaveRead
  <2>2. Writing' = Writing /\ r \notin Writing
    BY <1>0, <1>2, WritingSame, ThreadsAssumption DEF LeaveRead, Writing, Threads
  <2>3. Gone' = Gone \cup {r}
    BY <1>0, <1>2, ThreadsAssumption DEF LeaveRead, Goto, Gone, Threads
  <2>. QED
    BY <1>2, <2>1, <2>2, <2>3 DEF Abstract!Leave, LeaveRead, files, Gone
<1>3. ASSUME NEW w \in Writers, AcquireWrite(w) PROVE Abstract!StartWrite(w)
  <2>1. Reading = {} /\ Writing = {}
    BY <1>3 DEF AcquireWrite, SemWait, LockInv, WriteLockInv, GroupOwns, TypeOK
  <2>2. Reading' = Reading /\ Writing' = {w}
    BY <1>0, <1>3, <2>1, ReadingSame, ThreadsAssumption
       DEF AcquireWrite, Goto, Writing, WriteLabels, Threads
  <2>3. Gone' = Gone /\ w \notin Gone
    BY <1>0, <1>3, ThreadsAssumption DEF AcquireWrite, Goto, Gone, Threads
  <2>. QED
    BY <1>3, <2>1, <2>2, <2>3 DEF Abstract!StartWrite, Abstract!Enter, AcquireWrite, files, Gone
<1>4. ASSUME NEW w \in Writers, ReleaseWrite(w) PROVE Abstract!Leave(w)
  <2>1. Reading' = Reading /\ Writing' = Writing \ {w} /\ w \in Writing /\ w \notin Reading
    BY <1>0, <1>4, ReadingSame, ThreadsAssumption
       DEF ReleaseWrite, Goto, Reading, Writing, WriteLabels, Threads
  <2>2. Gone' = Gone \cup {w}
    BY <1>0, <1>4, ThreadsAssumption DEF ReleaseWrite, Goto, Gone, Threads
  <2>. QED
    BY <1>4, <2>1, <2>2 DEF Abstract!Leave, ReleaseWrite, files, Gone
<1>5. ASSUME NEW r \in Readers,
             LockCount(r) \/ First(r) \/ UnlockCount(r) \/ RelockCount(r) \/ Last(r)
               \/ FinishRead(r)
      PROVE  UNCHANGED Abstract!vars
  <2>1. Reading' = Reading /\ Writing' = Writing
    BY <1>0, <1>5, ReadingSame, WritingSame, ThreadsAssumption
       DEF LockCount, First, UnlockCount, RelockCount, Last, FinishRead, ReadLabels, Threads
  <2>2. Gone' = Gone
    BY <1>0, <1>5, ThreadsAssumption
       DEF LockCount, First, UnlockCount, RelockCount, Last, FinishRead, Goto, Gone, Threads
  <2>. QED
    BY <1>5, <2>1, <2>2, AbstractStutter
       DEF LockCount, First, UnlockCount, RelockCount, Last, FinishRead, files
<1>6. ASSUME NEW t \in Threads,
             \/ t \in Readers /\ ReaderBody(t)
             \/ t \in Writers /\ WriterBody(t)
      PROVE  [Abstract!Next]_(Abstract!vars)
  <2>1. Reading' = Reading /\ Writing' = Writing
    BY <1>0, <1>6, ReadingSame, WritingSame, ThreadsAssumption
       DEF ReaderBody, WriterBody, Log, OpenShared, ReadShared, WriteShared,
           ReadLabels, WriteLabels
  <2>2. Gone' = Gone
    BY <1>0, <1>6, ThreadsAssumption
       DEF ReaderBody, WriterBody, Log, OpenShared, ReadShared, WriteShared, Goto, Gone, Threads
  <2>3. CASE Log(t, "open") \/ Log(t, "write")
    <3>1. t \in Reading \cup Writing
      BY <2>3 DEF Log, Goto, Reading, Writing, ReadLabels, WriteLabels, Threads
    <3>. QED
      BY <2>1, <2>2, <2>3, <3>1, AbstractReport DEF LockInv, BodyInv
  <2>4. CASE OpenShared(t) \/ ReadShared(t) \/ WriteShared(t)
    BY <2>1, <2>2, <2>4, AbstractStutter DEF OpenShared, ReadShared, WriteShared, files
  <2>. QED  BY <1>6, <2>3, <2>4 DEF ReaderBody, WriterBody
<1>7. CASE UNCHANGED vars
  BY <1>7, AbstractStutter DEF vars, files, Reading, Writing, Gone
<1>. QED
  BY <1>1, <1>2, <1>3, <1>4, <1>5, <1>6, <1>7
     DEF Next, Reader, Writer, AcquireRead, ReleaseRead, Threads, Abstract!Next, Abstract!Threads

(* Whatever the number of threads, the reader-preference lock implements   *)
(* the safety part of the abstract readers-writers problem.                *)
THEOREM ReaderPrefImplementsRW == Spec => StepsOfRW
<1>1. Init => Abstract!Init
  BY DEF Init, ThreadsInit, Abstract!Init, Abstract!Threads, Reading, Writing,
         ReadLabels, WriteLabels, Threads
<1>. QED  BY <1>1, ReaderPrefInvariant, AbstractStep, PTL DEF Spec, StepsOfRW
=============================================================================
