------------------------------ MODULE ProdCons ------------------------------
(***************************************************************************)
(* Assignment-04-locks/prod-cons.c: one producer thread reads integers     *)
(* from a file into a circular buffer, one consumer thread takes them out  *)
(* and logs them; a mutex and two condition variables synchronise them.    *)
(* A label of pc is the statement the thread executes next.                *)
(***************************************************************************)
EXTENDS Integers, Sequences

CONSTANTS BUFFER_SIZE,
          Inputs         \* possible contents of input-part1.txt; 0 ends the data

ASSUME BufferAssumption == BUFFER_SIZE \in Nat \ {0}
ASSUME InputsAssumption == Inputs \subseteq Seq(Nat)

VARIABLES buffer, count, in, out, terminate,  \* the globals of prod-cons.c
          mutex,                              \* its owner, or "free"
          pc,
          p_item, c_item,                     \* the local item of each thread
          input, pos,                         \* input file, tokens read so far
          output,                             \* lines of output-part1.txt
          exited                              \* exit(1) was called

ring == <<buffer, count, in, out>>
files == <<input, pos, output>>
vars == <<ring, terminate, mutex, pc, p_item, c_item, files, exited>>

P == "producer"
C == "consumer"
Threads == {P, C}
Index == 0 .. BUFFER_SIZE - 1

(* The n oldest elements of the ring that starts at index o.               *)
Window(o, n) == [i \in 1 .. n |-> buffer[(o + i - 1) % BUFFER_SIZE]]

Goto(t, from, to) == /\ ~exited /\ pc[t] = from
                     /\ pc' = [pc EXCEPT ![t] = to]

Lock(t, from, to) == /\ Goto(t, from, to)
                     /\ mutex = "free" /\ mutex' = t
                     /\ UNCHANGED <<ring, terminate, p_item, c_item, files, exited>>

Unlock(t, from, to) == /\ Goto(t, from, to)
                       /\ mutex' = "free"
                       /\ UNCHANGED <<ring, terminate, p_item, c_item, files, exited>>

(* pthread_cond_wait releases the mutex and blocks in one step; when it    *)
(* returns, woken by a signal or spuriously, it has locked it again. Each  *)
(* condition variable has one possible waiter: the other thread.           *)
CondWait(t, from) == Unlock(t, from, "wait")

Signal(t, from, to) ==
    /\ ~exited /\ pc[t] = from
    /\ pc' = [u \in Threads |-> IF u = t THEN to
                                ELSE IF pc[u] = "wait" THEN "relock" ELSE pc[u]]
    /\ UNCHANGED <<ring, terminate, mutex, p_item, c_item, files, exited>>

SpuriousWakeup(t) ==
    /\ Goto(t, "wait", "relock")
    /\ UNCHANGED <<ring, terminate, mutex, p_item, c_item, files, exited>>

Test(t, from, to) ==
    /\ Goto(t, from, to)
    /\ UNCHANGED <<ring, terminate, mutex, p_item, c_item, files, exited>>

(* Both threads first open their file; failure ends the whole process.     *)
Open(t) == Test(t, "open", IF t = P THEN "read" ELSE "lock")

OpenFails(t) == /\ ~exited /\ pc[t] = "open"
                /\ exited' = TRUE
                /\ UNCHANGED <<ring, terminate, mutex, pc, p_item, c_item, files>>

-----------------------------------------------------------------------------
(* fscanf: the next token, or EOF, which counts as one more read.          *)
Read == /\ pos' = pos + 1
        /\ \/ /\ pos < Len(input)
              /\ Goto(P, "read", "lock")
              /\ p_item' = input[pos + 1]
           \/ /\ pos = Len(input)
              /\ Goto(P, "read", "lockEOF")
              /\ UNCHANGED p_item
        /\ UNCHANGED <<ring, terminate, mutex, c_item, input, output, exited>>

Store == /\ Goto(P, "store", "advance")
         /\ buffer' = [buffer EXCEPT ![in] = p_item]
         /\ UNCHANGED <<count, in, out, terminate, mutex, p_item, c_item, files, exited>>

Advance == /\ Goto(P, "advance", "signal")
           /\ in' = (in + 1) % BUFFER_SIZE
           /\ count' = count + 1
           /\ UNCHANGED <<buffer, out, terminate, mutex, p_item, c_item, files, exited>>

Close == /\ Goto(P, "close", "signalEnd")
         /\ terminate' = TRUE
         /\ UNCHANGED <<ring, mutex, p_item, c_item, files, exited>>

PLock_IfNotWhile == \/ Lock(P, "lock", "test")
                    \/ Lock(P, "lockEOF", "close")
                    \/ Lock(P, "relock", "store")

PLock == \/ Lock(P, "lock", "test")
         \/ Lock(P, "lockEOF", "close")
         \/ Lock(P, "relock", "full")

PTest == \/ Test(P, "test", IF p_item = 0 THEN "close" ELSE "full")
         \/ count # BUFFER_SIZE /\ Test(P, "full", "store")

PWait == count = BUFFER_SIZE /\ CondWait(P, "full")

PSignal_NotAtEnd == \/ Signal(P, "signal", "unlock")
                    \/ Test(P, "signalEnd", "unlockEnd")

PSignal == \/ Signal(P, "signal", "unlock")
           \/ Signal(P, "signalEnd", "unlockEnd")

PUnlock == \/ Unlock(P, "unlock", "read")
           \/ Unlock(P, "unlockEnd", "returned")

Producer == Open(P) \/ Read \/ PLock \/ PTest \/ PWait
              \/ Store \/ Advance \/ Close \/ PSignal \/ PUnlock

-----------------------------------------------------------------------------
CTest_IgnoresItems == \E l \in {"test", "woken"} :
                         Test(C, l, IF terminate THEN "unlockEnd" ELSE "empty")

(* The exit test before the wait loop and after each return of the wait.   *)
CTest == \E l \in {"test", "woken"} :
            Test(C, l, IF count = 0 /\ terminate THEN "unlockEnd" ELSE "empty")

CEmpty == count # 0 /\ Test(C, "empty", "take")

CWait == count = 0 /\ CondWait(C, "empty")

Take == /\ Goto(C, "take", "write")
        /\ c_item' = buffer[out]
        /\ out' = (out + 1) % BUFFER_SIZE
        /\ count' = count - 1
        /\ UNCHANGED <<buffer, in, terminate, mutex, p_item, files, exited>>

Write_FromSlotZero ==
    /\ Goto(C, "write", "signal")
    /\ output' = Append(output, [item |-> c_item, rest |-> Window(0, count)])
    /\ UNCHANGED <<ring, terminate, mutex, p_item, c_item, input, pos, exited>>

(* One line: the item and the elements of the buffer in their order.       *)
Write == /\ Goto(C, "write", "signal")
         /\ output' = Append(output, [item |-> c_item, rest |-> Window(out, count)])
         /\ UNCHANGED <<ring, terminate, mutex, p_item, c_item, input, pos, exited>>

CLock == \/ Lock(C, "lock", "test")
         \/ Lock(C, "relock", "woken")

CSignal_Dropped == Test(C, "signal", "unlock")

CSignal == Signal(C, "signal", "unlock")

CUnlock == \/ Unlock(C, "unlock", "lock")
           \/ Unlock(C, "unlockEnd", "returned")

Consumer == Open(C) \/ CLock \/ CTest \/ CEmpty \/ CWait
              \/ Take \/ Write \/ CSignal \/ CUnlock

-----------------------------------------------------------------------------
Init == /\ buffer = [i \in Index |-> 0] /\ count = 0 /\ in = 0 /\ out = 0
        /\ terminate = FALSE /\ mutex = "free" /\ exited = FALSE
        /\ pc = [t \in Threads |-> "open"]
        /\ p_item = 0 /\ c_item = 0
        /\ input \in Inputs /\ pos = 0 /\ output = <<>>

(* main has joined both threads, or the process is gone.                   *)
Over == exited \/ \A t \in Threads : pc[t] = "returned"

Next == \/ Producer \/ Consumer
        \/ \E t \in Threads : OpenFails(t) \/ SpuriousWakeup(t)
        \/ Over /\ UNCHANGED vars

(* Each thread keeps running. A thread blocked on the mutex gets it if it  *)
(* is released again and again, which matters only when the other thread   *)
(* is woken spuriously for ever. Spurious wakeups themselves are not fair. *)
Fairness == /\ WF_vars(Producer) /\ SF_vars(PLock)
            /\ WF_vars(Consumer) /\ SF_vars(CLock)

Spec == Init /\ [][Next]_vars /\ Fairness
-----------------------------------------------------------------------------
(* The data in a token sequence: what precedes the first 0.                *)
DataOf(s) == SubSeq(s, 1, CHOOSE n \in 0 .. Len(s) :
                            /\ \A i \in 1 .. n : s[i] # 0
                            /\ n = Len(s) \/ s[n + 1] = 0)

(* Items taken out of the ring: one of them may not be logged yet.         *)
Taken == IF pc[C] = "write" THEN Len(output) + 1 ELSE Len(output)

InHand == pc[P] \notin {"open", "read", "signal", "unlock"}

PLabels == {"open", "read", "lock", "lockEOF", "test", "full", "wait", "relock",
            "store", "advance", "signal", "unlock",
            "close", "signalEnd", "unlockEnd", "returned"}

CLabels == {"open", "lock", "test", "empty", "wait", "relock", "woken",
            "take", "write", "signal", "unlock", "unlockEnd", "returned"}

TypeOK == /\ buffer \in [Index -> Nat] /\ count \in 0 .. BUFFER_SIZE
          /\ in \in Index /\ out \in Index
          /\ terminate \in BOOLEAN /\ exited \in BOOLEAN
          /\ mutex \in Threads \cup {"free"}
          /\ pc \in [Threads -> PLabels \cup CLabels]
          /\ pc[P] \in PLabels /\ pc[C] \in CLabels
          /\ p_item \in Nat /\ c_item \in Nat
          /\ input \in Inputs /\ pos \in 0 .. Len(input) + 1
          /\ output \in Seq([item : Nat, rest : Seq(Nat)])

(* A thread is between pthread_mutex_lock and the release of the mutex,    *)
(* by unlock or by cond_wait, exactly when it owns the mutex. As only one  *)
(* thread owns it, the shared variables are never accessed concurrently.   *)
Critical(t) == IF t = P
               THEN pc[P] \in {"test", "full", "store", "advance", "signal", "unlock",
                               "close", "signalEnd", "unlockEnd"}
               ELSE pc[C] \in {"test", "empty", "woken", "take", "write", "signal",
                               "unlock", "unlockEnd"}

MutexHeld == \A t \in Threads : Critical(t) <=> mutex = t

(* No wakeup is lost: a consumer sleeps in cond_wait only while there is   *)
(* nothing to do for it, or the producer has yet to signal not_empty; a    *)
(* producer sleeps only while the buffer is full, or the consumer has yet  *)
(* to signal not_full. In particular both never sleep at once.             *)
NoLostWakeup ==
    /\ pc[C] = "wait" => \/ count = 0 /\ ~terminate
                         \/ pc[P] \in {"signal", "signalEnd"}
    /\ pc[P] = "wait" => \/ count = BUFFER_SIZE
                         \/ pc[C] \in {"write", "signal"}

(* Order and content: the logged items, the item taken but not yet logged  *)
(* and the occupied part of the ring are, in this order, the beginning of  *)
(* the input; and what a line of the log shows as the state of the buffer  *)
(* is the stretch of the input that follows the item of that line.         *)
Fifo == /\ \A k \in 1 .. Len(output) :
               /\ output[k].item = input[k]
               /\ output[k].rest = SubSeq(input, k + 1, k + Len(output[k].rest))
        /\ pc[C] = "write" => c_item = input[Taken]
        /\ Window(out, count) = SubSeq(input, Taken + 1, Taken + count)

(* When the consumer returns, the log holds all the data of the file: the  *)
(* terminate flag never makes it leave items behind in the buffer.         *)
NothingLeftBehind ==
    pc[C] = "returned" => [k \in 1 .. Len(output) |-> output[k].item] = DataOf(input)

(* What makes the two threads work together at every moment: the shared    *)
(* variables belong to the owner of the mutex, the indices stay in the     *)
(* ring, and nobody sleeps while there is something to do for it.          *)
Inv == TypeOK /\ MutexHeld /\ NoLostWakeup

(* Unless a file cannot be opened, both threads return: the joins in main  *)
(* return and the program ends.                                            *)
Terminates == <>Over

(* The program implements the bounded queue, its liveness included.        *)
Unput == DataOf(SubSeq(input, IF InHand THEN pos ELSE pos + 1, Len(input)))

Queue == INSTANCE BoundedFifo WITH
    Capacity <- BUFFER_SIZE,
    Streams <- {DataOf(s) : s \in Inputs},
    todo <- Unput,
    queue <- Window(out, count),
    log <- IF pc[C] = "write"
           THEN Append(output, [item |-> c_item, rest |-> Window(out, count)])
           ELSE output,
    closed <- terminate,
    over <- IF exited THEN "aborted"
            ELSE IF pc[C] \in {"unlockEnd", "returned"} THEN "finished" ELSE "no"

ImplementsQueue == Queue!Spec
=============================================================================
