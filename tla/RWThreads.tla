------------------------------ MODULE RWThreads ------------------------------
(***************************************************************************)
(* What rwlock-reader-pref.c and rwlock-writer-pref.c have in common: the  *)
(* reader and writer threads, what they do while they hold the lock, and   *)
(* what the lock owes them. main creates one thread per element of Readers *)
(* and Writers; each goes through its function once.                       *)
(***************************************************************************)
EXTENDS Integers, FiniteSets, Semaphores

CONSTANTS Readers, Writers

ASSUME ThreadsAssumption == /\ IsFiniteSet(Readers) /\ IsFiniteSet(Writers)
                            /\ Readers \cap Writers = {}

VARIABLES pc,        \* the next statement of each thread
          readers,   \* rwlock.readers, "the number of active readers"
          logged,    \* the number each thread has written to the log, or -1
          lines,     \* lines in shared-file.txt
          seen       \* lines in it when the reader opened it

files == <<logged, lines, seen>>

Threads == Readers \cup Writers

Goto(t, from, to) == pc[t] = from /\ pc' = [pc EXCEPT ![t] = to]

ThreadsInit == /\ pc = [t \in Threads |-> "start"]
               /\ readers = 0
               /\ logged = [t \in Threads |-> -1]
               /\ lines = 0 /\ seen = [r \in Readers |-> 0]

(* The log line prints rwlock.readers, read without holding the semaphore  *)
(* that protects it. A file that cannot be opened is skipped silently.     *)
Log(t, to) == /\ Goto(t, "log", to)
              /\ \/ logged' = [logged EXCEPT ![t] = readers]
                 \/ UNCHANGED logged
              /\ UNCHANGED <<readers, lines, seen>>

(* A reader goes through the shared file between two steps of its own.     *)
OpenShared(r) == /\ Goto(r, "open", "read")
                 /\ seen' = [seen EXCEPT ![r] = lines]
                 /\ UNCHANGED <<readers, logged, lines>>

ReadShared(r) == Goto(r, "read", "release") /\ UNCHANGED <<readers, files>>

WriteShared(w) == /\ Goto(w, "write", "release")
                  /\ lines' \in {lines, lines + 1}
                  /\ UNCHANGED <<readers, logged, seen>>

ReaderBody(r) == Log(r, "open") \/ OpenShared(r) \/ ReadShared(r)

WriterBody(w) == Log(w, "write") \/ WriteShared(w)

-----------------------------------------------------------------------------
(* A reader is inside from readers++ to readers--, a writer as long as it  *)
(* holds write_lock.                                                       *)
ReadLabels == {"post", "log", "open", "read", "release", "leave"}
WriteLabels == {"unwait", "deregister", "deregpost", "log", "write", "release"}

Reading == {r \in Readers : pc[r] \in ReadLabels}
Writing == {w \in Writers : pc[w] \in WriteLabels}

AllDone == \A t \in Threads : pc[t] = "done"

(* A writer has the shared file for itself: no other writer and no reader  *)
(* is inside with it.                                                      *)
MutualExclusion == \A w \in Writing : Writing = {w} /\ Reading = {}

(* The number in the log is true: a writer reports that no reader is       *)
(* present, and a reader counts itself and nobody who is not there.        *)
LogTruthful == /\ \A w \in Writers : logged[w] \in {-1, 0}
               /\ \A r \in Readers : logged[r] \in {-1} \cup 1 .. Cardinality(Readers)

(* The file does not grow under a reader that is going through it.         *)
StableRead == \A r \in Readers : pc[r] = "read" => seen[r] = lines

(* rwlock.readers is the number of readers that are inside.                *)
CountExact == readers = Cardinality(Reading)

(* Every thread gets the lock and gives it back: main's joins return.      *)
Terminates == <>AllDone

Abstract == INSTANCE ReadersWriters WITH
    inside <- Reading \cup Writing,
    gone <- {t \in Readers : pc[t] \in {"last", "unpost", "done"}}
              \cup {t \in Writers : pc[t] = "done"},
    reported <- logged

(* The lock takes only the steps of the readers-writers problem.           *)
StepsOfRW == Abstract!Init /\ [][Abstract!Next]_(Abstract!vars)

(* The lock implements the abstract readers-writers problem, its fairness  *)
(* included.                                                               *)
ImplementsRW == Abstract!Spec
=============================================================================
