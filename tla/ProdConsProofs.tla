--------------------------- MODULE ProdConsProofs ---------------------------
(***************************************************************************)
(* Proofs about the producer-consumer program for a ring of any size and   *)
(* for input files of any length.                                          *)
(***************************************************************************)
EXTENDS ProdCons, SequenceTheorems, WellFoundedInduction, TLAPS

(* x % BUFFER_SIZE for the indices that occur, without the division.       *)
Wrap(x) == IF x < BUFFER_SIZE THEN x ELSE x - BUFFER_SIZE

(* The loop tests still hold when their thread acts on them.               *)
SafeInv == /\ TypeOK /\ MutexHeld
           /\ pc[P] \in {"store", "advance"} => count < BUFFER_SIZE
           /\ pc[C] = "take" => count > 0

(* A consumer about to wait has seen that the producer has not finished.   *)
WakeInv == /\ NoLostWakeup
           /\ pc[C] = "empty" /\ count = 0 => ~terminate

(* Items that have been put into the ring so far.                          *)
Passed == Taken + count

(* The producer has read a token that it has not yet put, or rejected.     *)
HasToken == pc[P] \in {"lock", "test", "full", "wait", "relock", "store", "advance"}

(* The ring holds the stretch of the input between what was taken and what *)
(* was put; the token in the producer's hands follows it.                  *)
RingInv == /\ in = Wrap(out + count)
           /\ \A i \in 0 .. count - 1 : buffer[Wrap(out + i)] = input[Taken + 1 + i]
           /\ Passed = (IF InHand THEN pos - 1 ELSE pos) /\ Passed <= Len(input)
           /\ HasToken => pos <= Len(input) /\ p_item = input[pos]
           /\ pc[P] = "advance" => buffer[in] = p_item

LogInv == /\ \A k \in 1 .. Len(output) :
                /\ output[k].item = input[k]
                /\ output[k].rest = SubSeq(input, k + 1, k + Len(output[k].rest))
          /\ pc[C] = "write" => c_item = input[Taken]

(* The data put so far holds no end mark; the producer closes the buffer   *)
(* where the data ends, and the consumer returns when there is none left.  *)
EndInv == /\ \A i \in 1 .. Passed : input[i] # 0
          /\ HasToken /\ pc[P] \notin {"lock", "test"} => p_item # 0
          /\ terminate \/ pc[P] \in {"lockEOF", "close"} =>
                /\ pc[P] \in {"lockEOF", "close", "signalEnd", "unlockEnd", "returned"}
                /\ Passed = Len(input) \/ input[Passed + 1] = 0
          /\ terminate => pc[P] \in {"signalEnd", "unlockEnd", "returned"}
          /\ pc[C] \in {"unlockEnd", "returned"} => count = 0 /\ terminate

-----------------------------------------------------------------------------
(* The modulus of the ring is one conditional subtraction.                 *)
LEMMA ModWrap == ASSUME NEW x \in 0 .. 2 * BUFFER_SIZE - 1
                 PROVE  x % BUFFER_SIZE = Wrap(x)
<1>1. BUFFER_SIZE \in Nat /\ BUFFER_SIZE > 0
  BY BufferAssumption
<1>2. CASE x < BUFFER_SIZE
  BY <1>1, <1>2 DEF Wrap
<1>3. CASE x >= BUFFER_SIZE
  BY <1>1, <1>3 DEF Wrap
<1>. QED  BY <1>1, <1>2, <1>3

(* The index that follows an index of the ring.                            *)
LEMMA NextIndex == ASSUME NEW x \in Index
                   PROVE  (x + 1) % BUFFER_SIZE = Wrap(x + 1)
<1>1. x + 1 \in 0 .. 2 * BUFFER_SIZE - 1
  BY BufferAssumption DEF Index
<1>. QED  BY <1>1, ModWrap

(* The window is a sequence of the numbers in the ring.                    *)
LEMMA WindowType == ASSUME TypeOK
                    PROVE  Window(out, count) \in Seq(Nat) /\ Len(Window(out, count)) = count
<1>1. \A i \in 1 .. count : (out + i - 1) % BUFFER_SIZE \in Index
  BY BufferAssumption, ModWrap DEF TypeOK, Index, Wrap
<1>2. count \in Nat
  BY BufferAssumption DEF TypeOK
<1>. QED  BY <1>1, <1>2 DEF TypeOK, Window

-----------------------------------------------------------------------------
(* The initial states satisfy both invariants.                             *)
LEMMA SafeInit == Init => SafeInv /\ WakeInv
<1>. SUFFICES ASSUME Init PROVE SafeInv /\ WakeInv
  OBVIOUS
<1>1. TypeOK
  <2>1. Len(input) \in Nat
    BY InputsAssumption DEF Init
  <2>2. <<>> \in Seq([item : Nat, rest : Seq(Nat)])
    OBVIOUS
  <2>. QED
    BY <2>1, <2>2, BufferAssumption DEF Init, TypeOK, Index, Threads, P, C, PLabels, CLabels
<1>2. pc[P] = "open" /\ pc[C] = "open" /\ mutex = "free"
  BY DEF Init, Threads
<1>. QED
  BY <1>1, <1>2 DEF SafeInv, WakeInv, MutexHeld, NoLostWakeup, Critical, Threads, P, C

(* Every step keeps the first, which needs nothing of the second.          *)
LEMMA SafeStep == SafeInv /\ [Next]_vars => SafeInv'
<1>. SUFFICES ASSUME SafeInv, [Next]_vars PROVE SafeInv'
  OBVIOUS
<1>0. Len(input) \in Nat /\ input \in Seq(Nat) /\ BUFFER_SIZE \in Nat /\ BUFFER_SIZE > 0
  BY InputsAssumption, BufferAssumption DEF SafeInv, TypeOK
<1>. USE <1>0 DEF SafeInv, MutexHeld, Critical, Threads, P, C, ring, files
<1>1. ASSUME NEW t \in Threads, Open(t) \/ SpuriousWakeup(t) PROVE SafeInv'
  BY <1>1, SMTT(30) DEF Open, SpuriousWakeup, Test, Goto, TypeOK, PLabels, CLabels
<1>2. ASSUME NEW t \in Threads, OpenFails(t) PROVE SafeInv'
  BY <1>2 DEF OpenFails, TypeOK
<1>3. CASE Read
  BY <1>3, SMTT(30) DEF Read, Goto, TypeOK, PLabels, CLabels
<1>4. CASE PLock
  BY <1>4, SMTT(30) DEF PLock, Lock, Goto, TypeOK, PLabels, CLabels
<1>5. CASE PTest
  BY <1>5, SMTT(30) DEF PTest, Test, Goto, TypeOK, PLabels, CLabels
<1>6. CASE PWait
  BY <1>6 DEF PWait, CondWait, Unlock, Goto, TypeOK, PLabels, CLabels
<1>7. CASE Store
  BY <1>7 DEF Store, Goto, TypeOK, PLabels, CLabels
<1>8. CASE Advance
  <2>1. (in + 1) % BUFFER_SIZE \in Index
    BY DEF Index, TypeOK
  <2>2. count + 1 \in 0 .. BUFFER_SIZE
    BY <1>8 DEF Advance, Goto, TypeOK
  <2>. QED  BY <1>8, <2>1, <2>2 DEF Advance, Goto, TypeOK, PLabels, CLabels
<1>9. CASE Close
  BY <1>9 DEF Close, Goto, TypeOK, PLabels, CLabels
<1>10. CASE PSignal
  BY <1>10, SMTT(30) DEF PSignal, Signal, TypeOK, PLabels, CLabels
<1>11. CASE PUnlock
  BY <1>11, SMTT(30) DEF PUnlock, Unlock, Goto, TypeOK, PLabels, CLabels
<1>12. CASE CLock
  BY <1>12, SMTT(30) DEF CLock, Lock, Goto, TypeOK, PLabels, CLabels
<1>13. CASE CTest
  BY <1>13 DEF CTest, Test, Goto, TypeOK, PLabels, CLabels
<1>14. CASE CEmpty
  BY <1>14 DEF CEmpty, Test, Goto, TypeOK, PLabels, CLabels
<1>15. CASE CWait
  BY <1>15 DEF CWait, CondWait, Unlock, Goto, TypeOK, PLabels, CLabels
<1>16. CASE Take
  <2>1. (out + 1) % BUFFER_SIZE \in Index
    BY DEF Index, TypeOK
  <2>2. count - 1 \in 0 .. BUFFER_SIZE /\ buffer[out] \in Nat
    BY <1>16 DEF Take, Goto, TypeOK
  <2>. QED  BY <1>16, <2>1, <2>2 DEF Take, Goto, TypeOK, PLabels, CLabels
<1>17. CASE Write
  <2>1. output' \in Seq([item : Nat, rest : Seq(Nat)])
    BY <1>17, WindowType DEF Write, TypeOK
  <2>. QED  BY <1>17, <2>1 DEF Write, Goto, TypeOK, PLabels, CLabels
<1>18. CASE CSignal
  BY <1>18 DEF CSignal, Signal, TypeOK, PLabels, CLabels
<1>19. CASE CUnlock
  BY <1>19, SMTT(30) DEF CUnlock, Unlock, Goto, TypeOK, PLabels, CLabels
<1>20. CASE UNCHANGED vars
  BY <1>20 DEF vars, TypeOK
<1>. QED
  BY <1>1, <1>2, <1>3, <1>4, <1>5, <1>6, <1>7, <1>8, <1>9, <1>10, <1>11, <1>12, <1>13,
     <1>14, <1>15, <1>16, <1>17, <1>18, <1>19, <1>20
     DEF Next, Producer, Consumer

(* A waiting thread is always about to be signalled, or right to wait.     *)
LEMMA WakeStep == SafeInv /\ WakeInv /\ [Next]_vars => WakeInv'
<1>. SUFFICES ASSUME SafeInv, WakeInv, [Next]_vars PROVE WakeInv'
  OBVIOUS
<1>. USE DEF SafeInv, MutexHeld, Critical, WakeInv, NoLostWakeup, Threads, P, C, ring, files
<1>1. ASSUME NEW t \in Threads, Open(t) \/ SpuriousWakeup(t) PROVE WakeInv'
  BY <1>1 DEF Open, SpuriousWakeup, Test, Goto, TypeOK
<1>2. ASSUME NEW t \in Threads, OpenFails(t) PROVE WakeInv'
  BY <1>2 DEF OpenFails
<1>3. CASE Read \/ Store \/ Close \/ Write
  BY <1>3 DEF Read, Store, Close, Write, Goto, TypeOK
<1>4. CASE PLock \/ CLock
  BY <1>4 DEF PLock, CLock, Lock, Goto, TypeOK
<1>5. CASE PTest \/ CTest \/ CEmpty
  BY <1>5 DEF PTest, CTest, CEmpty, Test, Goto, TypeOK
<1>6. CASE PWait \/ CWait \/ PUnlock \/ CUnlock
  BY <1>6 DEF PWait, CWait, CondWait, PUnlock, CUnlock, Unlock, Goto, TypeOK
<1>7. CASE Advance
  BY <1>7 DEF Advance, Goto, TypeOK
<1>8. CASE Take
  BY <1>8 DEF Take, Goto, TypeOK
<1>9. CASE PSignal \/ CSignal
  BY <1>9 DEF PSignal, CSignal, Signal, TypeOK
<1>10. CASE UNCHANGED vars
  BY <1>10 DEF vars
<1>. QED
  BY <1>1, <1>2, <1>3, <1>4, <1>5, <1>6, <1>7, <1>8, <1>9, <1>10
     DEF Next, Producer, Consumer

-----------------------------------------------------------------------------
(* The initial states satisfy the invariants about the data.               *)
LEMMA DataInit == Init => RingInv /\ LogInv /\ EndInv
<1>. SUFFICES ASSUME Init PROVE RingInv /\ LogInv /\ EndInv
  OBVIOUS
<1>1. pc[P] = "open" /\ pc[C] = "open" /\ Taken = 0 /\ count = 0 /\ out = 0 /\ in = 0
        /\ pos = 0 /\ Len(output) = 0 /\ ~terminate
  BY DEF Init, Threads, P, C, Taken
<1>. QED
  BY <1>1, BufferAssumption DEF RingInv, LogInv, EndInv, Passed, HasToken, InHand, Wrap

(* Every step keeps the ring in line with the input.                       *)
LEMMA RingStep == SafeInv /\ RingInv /\ [Next]_vars => RingInv'
<1>. SUFFICES ASSUME SafeInv, RingInv, [Next]_vars PROVE RingInv'
  OBVIOUS
<1>0. /\ Len(input) \in Nat /\ BUFFER_SIZE \in Nat /\ BUFFER_SIZE > 0
      /\ Len(output) \in Nat /\ Taken \in Nat /\ count \in Nat /\ pos \in Nat
  BY InputsAssumption, BufferAssumption DEF SafeInv, TypeOK, Taken
<1>. USE <1>0 DEF Threads, P, C, ring, files, RingInv, Passed, HasToken, InHand
<1>1. ASSUME NEW t \in Threads, Open(t) \/ SpuriousWakeup(t) PROVE RingInv'
  BY <1>1, ZenonT(30) DEF Open, SpuriousWakeup, Test, Goto, SafeInv, TypeOK, CLabels, Wrap, Taken
<1>2. ASSUME NEW t \in Threads, OpenFails(t) PROVE RingInv'
  BY <1>2 DEF OpenFails, Wrap, Taken
<1>3. CASE Read
  <2>1. UNCHANGED <<buffer, count, in, out, output, input>> /\ Taken' = Taken /\ pos' = pos + 1
    BY <1>3 DEF Read, Goto, SafeInv, TypeOK, Taken
  <2>2. pc[P] = "read" /\ pc'[P] \in {"lock", "lockEOF"}
          /\ (pc'[P] = "lock" => pos < Len(input) /\ p_item' = input[pos + 1])
    BY <1>3 DEF Read, Goto, SafeInv, TypeOK, Taken
  <2>. QED  BY <2>1, <2>2 DEF Wrap
<1>4. CASE PLock \/ CLock
  BY <1>4, ZenonT(30) DEF PLock, CLock, Lock, Goto, SafeInv, TypeOK, Wrap, Taken
<1>5. CASE PTest \/ CTest \/ CEmpty
  BY <1>5, ZenonT(30) DEF PTest, CTest, CEmpty, Test, Goto, SafeInv, TypeOK, Wrap, Taken
<1>6. CASE PWait \/ CWait \/ PUnlock \/ CUnlock
  BY <1>6, ZenonT(30)
     DEF PWait, CWait, CondWait, PUnlock, CUnlock, Unlock, Goto, SafeInv, TypeOK, Wrap, Taken
<1>7. CASE Store
  <2>1. count < BUFFER_SIZE /\ in \in Index /\ out \in Index
    BY <1>7 DEF Store, Goto, SafeInv, TypeOK
  <2>2. \A i \in 0 .. count - 1 : Wrap(out + i) # in /\ Wrap(out + i) \in Index
    BY <2>1 DEF Wrap, Index
  <2>. QED  BY <1>7, <2>1, <2>2 DEF Store, Goto, SafeInv, TypeOK, Wrap, Taken
<1>8. CASE Advance
  <2>1. count < BUFFER_SIZE /\ in \in Index /\ out \in Index
    BY <1>8 DEF Advance, Goto, SafeInv, TypeOK, Taken
  <2>2. in' = Wrap(in + 1)
    BY <1>8, <2>1, NextIndex DEF Advance
  <2>3. in' = Wrap(out' + count')
    BY <1>8, <2>1, <2>2 DEF Advance, Wrap, Index
  <2>4. /\ Taken' = Taken /\ pc[P] = "advance" /\ pc'[P] = "signal" /\ count' = count + 1
        /\ UNCHANGED <<buffer, out, input, pos>>
    BY <1>8 DEF Advance, Goto, SafeInv, TypeOK, Taken
  <2>5. buffer[Wrap(out + count)] = input[Taken + 1 + count]
    BY <2>4
  <2>6. \A i \in 0 .. count' - 1 : buffer'[Wrap(out' + i)] = input'[Taken' + 1 + i]
    <3>1. \A i \in 0 .. count' - 1 : i \in 0 .. count - 1 \/ i = count
      BY <2>4
    <3>. QED  BY <2>4, <2>5, <3>1
  <2>7. Passed' = pos'
    BY <2>4
  <2>. QED  BY <2>3, <2>4, <2>6, <2>7
<1>9. CASE Close
  BY <1>9 DEF Close, Goto, SafeInv, TypeOK, Wrap, Taken
<1>10. CASE PSignal \/ CSignal
  BY <1>10, ZenonT(30) DEF PSignal, CSignal, Signal, SafeInv, TypeOK, Wrap, Taken
<1>11. CASE Take
  <2>1. count > 0 /\ count <= BUFFER_SIZE /\ out \in Index
    BY <1>11 DEF Take, Goto, SafeInv, TypeOK, Taken
  <2>2. out' = Wrap(out + 1)
    BY <1>11, <2>1, NextIndex DEF Take
  <2>3. in' = Wrap(out' + count')
    BY <1>11, <2>1, <2>2 DEF Take, Wrap, Index
  <2>4. Taken' = Taken + 1 /\ pc'[P] = pc[P]
    BY <1>11 DEF Take, Goto, SafeInv, TypeOK, Taken
  <2>5. \A i \in 0 .. count' - 1 : Wrap(out' + i) = Wrap(out + (i + 1))
    BY <1>11, <2>1, <2>2 DEF Take, Wrap, Index
  <2>6. \A i \in 0 .. count' - 1 : buffer'[Wrap(out' + i)] = input'[Taken' + 1 + i]
    BY <1>11, <2>1, <2>4, <2>5, SMTT(30) DEF Take
  <2>. QED  BY <1>11, <2>1, <2>3, <2>4, <2>6 DEF Take
<1>12. CASE Write
  <2>1. Taken' = Taken /\ pc'[P] = pc[P]
    BY <1>12 DEF Write, Goto, SafeInv, TypeOK, Taken
  <2>. QED  BY <1>12, <2>1 DEF Write, Wrap
<1>13. CASE UNCHANGED vars
  BY <1>13 DEF vars, Wrap, Taken
<1>. QED
  BY <1>1, <1>2, <1>3, <1>4, <1>5, <1>6, <1>7, <1>8, <1>9, <1>10, <1>11, <1>12, <1>13
     DEF Next, Producer, Consumer

(* What is in the ring is a stretch of the input.                          *)
LEMMA FifoWindow ==
    ASSUME SafeInv, RingInv
    PROVE  Window(out, count) = SubSeq(input, Taken + 1, Taken + count)
<1>1. /\ Len(input) \in Nat /\ Taken \in Nat /\ count \in Nat /\ pos \in Nat
      /\ input \in Seq(Nat) /\ out \in Index /\ count <= BUFFER_SIZE /\ BUFFER_SIZE \in Nat
  BY InputsAssumption, BufferAssumption DEF SafeInv, TypeOK, Taken
<1>2. Taken + count <= Len(input)
  BY DEF RingInv, Passed
<1>3. \A i \in 1 .. count : buffer[(out + i - 1) % BUFFER_SIZE] = input[Taken + i]
  <2>1. ASSUME NEW i \in 1 .. count
        PROVE  buffer[(out + i - 1) % BUFFER_SIZE] = input[Taken + i]
    <3>1. (out + i - 1) % BUFFER_SIZE = Wrap(out + (i - 1))
      BY <1>1, ModWrap DEF Index
    <3>. QED  BY <1>1, <3>1 DEF RingInv
  <2>. QED  BY <2>1
<1>4. \A i \in Taken + 1 .. Taken + count : input[i] \in Nat
  BY <1>1, <1>2
<1>5. /\ SubSeq(input, Taken + 1, Taken + count) \in Seq(Nat)
      /\ Len(SubSeq(input, Taken + 1, Taken + count)) = count
      /\ \A i \in 1 .. count : SubSeq(input, Taken + 1, Taken + count)[i] = input[Taken + i]
  <2>1. Taken + 1 \in Int /\ Taken + count \in Int
    BY <1>1
  <2>2. /\ Taken + count - (Taken + 1) + 1 = count
        /\ Taken + 1 <= Taken + count <=> count # 0
        /\ \A i \in Int : Taken + 1 + i - 1 = Taken + i
    BY <1>1
  <2>. QED  BY <1>1, <1>4, <2>1, <2>2, SubSeqProperties
<1>6. \A i \in 1 .. count : Window(out, count)[i] = input[Taken + i]
  BY <1>1, <1>3 DEF Window
<1>. QED  BY <1>5, <1>6, WindowType, SeqEqual DEF SafeInv

(* Every step keeps the log in line with the input.                        *)
LEMMA LogStep == SafeInv /\ RingInv /\ LogInv /\ [Next]_vars => LogInv'
<1>. SUFFICES ASSUME SafeInv, RingInv, LogInv, [Next]_vars PROVE LogInv'
  OBVIOUS
<1>0. /\ Len(input) \in Nat /\ BUFFER_SIZE \in Nat /\ BUFFER_SIZE > 0
      /\ Len(output) \in Nat /\ Taken \in Nat /\ count \in Nat
  BY InputsAssumption, BufferAssumption DEF SafeInv, TypeOK, Taken
<1>. USE DEF LogInv, Threads, P, C, ring, files
<1>1. ASSUME UNCHANGED <<input, output, c_item>>, pc'[C] = "write" <=> pc[C] = "write"
      PROVE  LogInv'
  BY <1>1 DEF Taken
<1>2. ASSUME NEW t \in Threads, Open(t) \/ SpuriousWakeup(t) PROVE LogInv'
  BY <1>1, <1>2 DEF Open, SpuriousWakeup, Test, Goto, SafeInv, TypeOK
<1>3. ASSUME NEW t \in Threads, OpenFails(t) PROVE LogInv'
  BY <1>1, <1>3 DEF OpenFails
<1>4. CASE Read \/ Store \/ Advance \/ Close
  BY <1>1, <1>4 DEF Read, Store, Advance, Close, Goto, SafeInv, TypeOK
<1>5. CASE PLock \/ CLock \/ PTest \/ CTest \/ CEmpty
  BY <1>1, <1>5 DEF PLock, CLock, Lock, PTest, CTest, CEmpty, Test, Goto, SafeInv, TypeOK
<1>6. CASE PWait \/ CWait \/ PUnlock \/ CUnlock
  BY <1>1, <1>6
     DEF PWait, CWait, CondWait, PUnlock, CUnlock, Unlock, Goto, SafeInv, TypeOK
<1>7. CASE PSignal \/ CSignal
  BY <1>1, <1>7 DEF PSignal, CSignal, Signal, SafeInv, TypeOK
<1>8. CASE Take
  <2>1. Wrap(out) = out /\ count > 0
    BY <1>0, <1>8 DEF Take, Goto, SafeInv, TypeOK, Index, Wrap
  <2>2. c_item' = input[Taken + 1]
    <3>1. 0 \in 0 .. count - 1 /\ out + 0 = out /\ Taken + 1 + 0 = Taken + 1
      BY <1>0, <2>1 DEF SafeInv, TypeOK, Index
    <3>2. buffer[Wrap(out + 0)] = input[Taken + 1 + 0]
      BY <3>1 DEF RingInv
    <3>. QED  BY <1>8, <2>1, <3>1, <3>2 DEF Take
  <2>3. Taken' = Taken + 1 /\ UNCHANGED <<input, output>>
    BY <1>8 DEF Take, Goto, SafeInv, TypeOK, Taken
  <2>. QED  BY <2>2, <2>3
<1>9. CASE Write
  <2>1. Window(out, count) = SubSeq(input, Taken + 1, Taken + count)
    BY FifoWindow
  <2>2. pc[C] = "write" /\ pc'[C] = "signal" /\ UNCHANGED input /\ Taken = Len(output) + 1
    BY <1>9 DEF Write, Goto, SafeInv, TypeOK, Taken
  <2>. DEFINE line == [item |-> c_item, rest |-> Window(out, count)]
  <2>3. line \in [item : Nat, rest : Seq(Nat)] /\ Len(line.rest) = count
    BY WindowType DEF SafeInv, TypeOK
  <2>4. /\ line.item = input[Taken]
        /\ line.rest = SubSeq(input, Taken + 1, Taken + Len(line.rest))
    BY <2>1, <2>2, <2>3
  <2>. HIDE DEF line
  <2>5. output' = Append(output, line)
    BY <1>9 DEF Write, line
  <2>6. /\ Len(output') = Taken /\ output'[Taken] = line
        /\ \A k \in 1 .. Len(output) : output'[k] = output[k]
    BY <2>2, <2>3, <2>5, AppendProperties DEF SafeInv, TypeOK
  <2>7. \A k \in 1 .. Len(output') : k \in 1 .. Len(output) \/ k = Taken
    BY <1>0, <2>2, <2>6
  <2>. QED  BY <2>2, <2>4, <2>6, <2>7
<1>10. CASE UNCHANGED vars
  BY <1>1, <1>10 DEF vars
<1>. QED
  BY <1>2, <1>3, <1>4, <1>5, <1>6, <1>7, <1>8, <1>9, <1>10 DEF Next, Producer, Consumer

(* Every step keeps what is known about the end of the data.               *)
LEMMA EndStep == SafeInv /\ RingInv /\ EndInv /\ [Next]_vars => EndInv'
<1>. SUFFICES ASSUME SafeInv, RingInv, EndInv, [Next]_vars PROVE EndInv'
  OBVIOUS
<1>0. /\ Len(input) \in Nat /\ BUFFER_SIZE \in Nat /\ Len(output) \in Nat
      /\ Taken \in Nat /\ count \in Nat /\ pos \in Nat /\ Passed \in Nat
  BY InputsAssumption, BufferAssumption DEF SafeInv, TypeOK, Taken, Passed
<1>. USE <1>0 DEF EndInv, HasToken, Threads, P, C, ring, files
<1>1. ASSUME NEW t \in Threads, Open(t) \/ SpuriousWakeup(t) PROVE EndInv'
  BY <1>1, SMTT(30) DEF Open, SpuriousWakeup, Test, Goto, SafeInv, TypeOK, PLabels, Passed, Taken
<1>2. ASSUME NEW t \in Threads, OpenFails(t) PROVE EndInv'
  BY <1>2 DEF OpenFails, Passed, Taken
<1>3. CASE Read
  <2>1. /\ Passed' = Passed /\ UNCHANGED <<input, terminate, count>> /\ pc'[C] = pc[C]
        /\ pc[P] = "read" /\ pc'[P] \in {"lock", "lockEOF"}
        /\ pc'[P] = "lockEOF" => pos = Len(input)
    BY <1>3 DEF Read, Goto, SafeInv, TypeOK, Passed, Taken
  <2>2. Passed = pos
    BY <2>1 DEF RingInv, InHand
  <2>. QED  BY <2>1, <2>2
<1>4. CASE PLock \/ CLock
  <2>1. Passed' = Passed /\ input' = input
    BY <1>4 DEF PLock, CLock, Lock, Goto, SafeInv, TypeOK, Passed, Taken
  <2>. QED  BY <1>4, <2>1, SMTT(30) DEF PLock, CLock, Lock, Goto, SafeInv, TypeOK
<1>5. CASE PTest
  <2>1. Passed' = Passed /\ UNCHANGED <<input, terminate, count, p_item>> /\ pc'[C] = pc[C]
    BY <1>5 DEF PTest, Test, Goto, SafeInv, TypeOK, Passed, Taken
  <2>2. \/ pc[P] = "test" /\ pc'[P] = (IF p_item = 0 THEN "close" ELSE "full")
        \/ pc[P] = "full" /\ pc'[P] = "store"
    BY <1>5 DEF PTest, Test, Goto, SafeInv, TypeOK
  <2>3. pc[P] = "test" => Passed + 1 = pos /\ p_item = input[pos]
    BY DEF RingInv, InHand
  <2>. QED  BY <2>1, <2>2, <2>3
<1>6. CASE CTest \/ CEmpty
  <2>1. Passed' = Passed /\ input' = input
    BY <1>6 DEF CTest, CEmpty, Test, Goto, SafeInv, TypeOK, Passed, Taken
  <2>. QED  BY <1>6, <2>1 DEF CTest, CEmpty, Test, Goto, SafeInv, TypeOK
<1>7. CASE PWait \/ CWait \/ PUnlock \/ CUnlock
  <2>1. Passed' = Passed /\ input' = input
    BY <1>7 DEF PWait, CWait, CondWait, PUnlock, CUnlock, Unlock, Goto, SafeInv, TypeOK, Passed, Taken
  <2>. QED
    BY <1>7, <2>1, SMTT(30)
       DEF PWait, CWait, CondWait, PUnlock, CUnlock, Unlock, Goto, SafeInv, TypeOK
<1>8. CASE Store \/ Close
  <2>1. Passed' = Passed /\ input' = input
    BY <1>8 DEF Store, Close, Goto, SafeInv, TypeOK, Passed, Taken
  <2>. QED  BY <1>8, <2>1 DEF Store, Close, Goto, SafeInv, TypeOK
<1>9. CASE Advance
  <2>0. Taken' = Taken
    BY <1>9 DEF Advance, Goto, SafeInv, TypeOK, Taken
  <2>1. /\ Passed' = Passed + 1 /\ UNCHANGED <<input, terminate>> /\ pc'[C] = pc[C]
        /\ pc[P] = "advance" /\ pc'[P] = "signal"
    BY <1>9, <2>0 DEF Advance, Goto, SafeInv, TypeOK, Passed
  <2>2. input[Passed + 1] # 0
    BY <2>1 DEF RingInv, InHand
  <2>3. \A i \in 1 .. Passed' : i \in 1 .. Passed \/ i = Passed + 1
    BY <2>1
  <2>. QED  BY <2>1, <2>2, <2>3
<1>10. CASE PSignal \/ CSignal
  <2>1. Passed' = Passed /\ input' = input
    BY <1>10 DEF PSignal, CSignal, Signal, SafeInv, TypeOK, Passed, Taken
  <2>. QED  BY <1>10, <2>1, SMTT(30) DEF PSignal, CSignal, Signal, SafeInv, TypeOK
<1>11. CASE Take
  <2>1. /\ Passed' = Passed /\ UNCHANGED <<input, terminate, p_item>> /\ pc'[P] = pc[P]
        /\ pc'[C] = "write"
    BY <1>11 DEF Take, Goto, SafeInv, TypeOK, Passed, Taken
  <2>. QED  BY <2>1
<1>12. CASE Write
  <2>1. Len(output') = Len(output) + 1
    BY <1>12, WindowType, AppendProperties DEF Write, SafeInv, TypeOK
  <2>2. /\ Passed' = Passed /\ UNCHANGED <<input, terminate, p_item, count>> /\ pc'[P] = pc[P]
        /\ pc'[C] = "signal"
    BY <1>12, <2>1 DEF Write, Goto, SafeInv, TypeOK, Passed, Taken
  <2>. QED  BY <2>2
<1>13. CASE UNCHANGED vars
  BY <1>13 DEF vars, Passed, Taken
<1>. QED
  BY <1>1, <1>2, <1>3, <1>4, <1>5, <1>6, <1>7, <1>8, <1>9, <1>10, <1>11, <1>12, <1>13
     DEF Next, Producer, Consumer

-----------------------------------------------------------------------------
ProdConsInv == SafeInv /\ WakeInv /\ RingInv /\ LogInv /\ EndInv

(* The data of a file is as long as the items put, once the producer has   *)
(* met its end.                                                            *)
LEMMA DataLength ==
    ASSUME NEW s \in Seq(Nat), NEW n \in 0 .. Len(s), \A i \in 1 .. n : s[i] # 0,
           n = Len(s) \/ s[n + 1] = 0
    PROVE  DataOf(s) = SubSeq(s, 1, n)
<1>. DEFINE Ends(m) == (\A i \in 1 .. m : s[i] # 0) /\ (m = Len(s) \/ s[m + 1] = 0)
<1>0. Len(s) \in Nat
  OBVIOUS
<1>1. \A m \in 0 .. Len(s) : Ends(m) => m = n
  <2>1. SUFFICES ASSUME NEW m \in 0 .. Len(s), Ends(m), m # n PROVE FALSE
    OBVIOUS
  <2>2. CASE m < n
    BY <1>0, <2>1, <2>2
  <2>3. CASE n < m
    BY <1>0, <2>1, <2>3
  <2>. QED  BY <1>0, <2>1, <2>2, <2>3
<1>2. Ends(n)
  OBVIOUS
<1>. HIDE DEF Ends
<1>3. (CHOOSE m \in 0 .. Len(s) : Ends(m)) = n
  BY <1>1, <1>2
<1>. QED  BY <1>3 DEF DataOf, Ends

(* When the consumer has returned, what it logged is the data of the file. *)
LEMMA EndOfData == ProdConsInv => NothingLeftBehind
<1>. SUFFICES ASSUME ProdConsInv, pc[C] = "returned"
              PROVE  [k \in 1 .. Len(output) |-> output[k].item] = DataOf(input)
  BY DEF NothingLeftBehind
<1>. DEFINE n == Len(output)
<1>1. input \in Seq(Nat) /\ Len(input) \in Nat /\ n \in Nat
  BY InputsAssumption DEF ProdConsInv, SafeInv, TypeOK
<1>2. Taken = n /\ count = 0 /\ terminate
  BY DEF ProdConsInv, EndInv, Taken
<1>3. Passed = n /\ n <= Len(input)
  BY <1>1, <1>2 DEF ProdConsInv, RingInv, Passed
<1>4. (\A i \in 1 .. n : input[i] # 0) /\ (n = Len(input) \/ input[n + 1] = 0)
  BY <1>2, <1>3 DEF ProdConsInv, EndInv
<1>5. DataOf(input) = SubSeq(input, 1, n)
  BY <1>1, <1>3, <1>4, DataLength
<1>6. /\ SubSeq(input, 1, n) \in Seq(Nat) /\ Len(SubSeq(input, 1, n)) = n
      /\ \A i \in 1 .. n : SubSeq(input, 1, n)[i] = input[i]
  <2>1. \A i \in 1 .. n : input[i] \in Nat
    BY <1>1, <1>3
  <2>2. n - 1 + 1 = n /\ (1 <= n <=> n # 0) /\ \A i \in 1 .. n : 1 + i - 1 = i
    BY <1>1
  <2>. QED  BY <1>1, <2>1, <2>2, SubSeqProperties
<1>7. \A k \in 1 .. n : output[k].item = input[k]
  BY DEF ProdConsInv, LogInv
<1>. DEFINE logged == [k \in 1 .. n |-> output[k].item]
<1>8. logged \in Seq(Nat) /\ Len(logged) = n /\ \A k \in 1 .. n : logged[k] = input[k]
  <2>1. \A k \in 1 .. n : output[k].item \in Nat
    BY <1>1, <1>3, <1>7
  <2>. QED  BY <1>1, <1>7, <2>1
<1>. HIDE DEF logged
<1>9. logged = SubSeq(input, 1, n)
  BY <1>6, <1>8, SeqEqual
<1>. QED  BY <1>5, <1>9 DEF logged

-----------------------------------------------------------------------------
(* A set of natural numbers has a least element: the principle behind      *)
(* every argument about the first 0 of a sequence.                         *)
LEMMA LeastNatural == ASSUME NEW S \in SUBSET Nat, S # {}
                      PROVE  \E m \in S : \A k \in S : m <= k
<1>1. PICK m \in S : \A k \in S : ~(<<k, m>> \in OpToRel(<, Nat))
  BY WFMin, NatLessThanWellFounded, Zenon
<1>2. \A k \in S : ~(k < m)
  BY <1>1, Zenon DEF OpToRel
<1>. QED  BY <1>2

(* Every sequence of numbers has a data part.                              *)
LEMMA DataEnds == ASSUME NEW s \in Seq(Nat)
                  PROVE  \E n \in 0 .. Len(s) : /\ \A i \in 1 .. n : s[i] # 0
                                                /\ n = Len(s) \/ s[n + 1] = 0
<1>. DEFINE Stops == {n \in 0 .. Len(s) : n = Len(s) \/ s[n + 1] = 0}
<1>0. Len(s) \in Nat
  OBVIOUS
<1>1. Stops \in SUBSET Nat /\ Stops # {}
  BY <1>0
<1>2. PICK n \in Stops : \A k \in Stops : n <= k
  BY <1>1, LeastNatural
<1>3. n \in 0 .. Len(s) /\ (n = Len(s) \/ s[n + 1] = 0)
  OBVIOUS
<1>4. ASSUME NEW i \in 1 .. n, s[i] = 0 PROVE FALSE
  <2>1. i - 1 \in 0 .. Len(s) /\ (i - 1) + 1 = i /\ ~(n <= i - 1)
    BY <1>0, <1>3
  <2>2. i - 1 \in Stops
    BY <1>4, <2>1
  <2>. QED  BY <1>2, <2>1, <2>2
<1>. QED  BY <1>3, <1>4

(* The data of a sequence that begins with an item: the item, and the data *)
(* of what follows it.                                                     *)
LEMMA DataOfCons ==
    ASSUME NEW s \in Seq(Nat), NEW m \in 1 .. Len(s), s[m] # 0
    PROVE  /\ DataOf(SubSeq(s, m, Len(s))) # <<>>
           /\ Head(DataOf(SubSeq(s, m, Len(s)))) = s[m]
           /\ Tail(DataOf(SubSeq(s, m, Len(s)))) = DataOf(SubSeq(s, m + 1, Len(s)))
<1>. DEFINE a == SubSeq(s, m, Len(s))
            b == SubSeq(s, m + 1, Len(s))
<1>0. Len(s) \in Nat /\ m \in Nat /\ m >= 1 /\ m <= Len(s)
  OBVIOUS
<1>1. a \in Seq(Nat) /\ Len(a) = Len(s) - m + 1
  <2>1. \A i \in m .. Len(s) : s[i] \in Nat
    BY <1>0
  <2>2. m \in Int /\ Len(s) \in Int
    BY <1>0
  <2>. QED  BY <1>0, <2>1, <2>2, SubSeqProperties
<1>2. Head(a) = s[m] /\ Tail(a) = b
  BY <1>0, HeadTailOfSubSeq
<1>. HIDE DEF a, b
<1>3. /\ b \in Seq(Nat) /\ Len(b) = Len(a) - 1 /\ Len(a) \in Nat /\ Len(a) >= 1
      /\ \A i \in 1 .. Len(b) : b[i] = a[i + 1]
  <2>1. Len(a) \in Nat /\ Len(a) >= 1 /\ a # <<>>
    BY <1>0, <1>1
  <2>2. /\ Tail(a) \in Seq(Nat) /\ Len(Tail(a)) = Len(a) - 1
        /\ \A i \in 1 .. Len(Tail(a)) : Tail(a)[i] = a[i + 1]
    BY <1>1, <2>1, HeadTailProperties
  <2>3. /\ b \in Seq(Nat) /\ Len(b) = Len(a) - 1
        /\ \A i \in 1 .. Len(b) : b[i] = a[i + 1]
    BY <1>2, <2>2, Zenon
  <2>. QED  BY <2>1, <2>3, Zenon
<1>4. a[1] = s[m]
  BY <1>1, <1>2
<1>5. PICK n \in 0 .. Len(b) : (\A i \in 1 .. n : b[i] # 0) /\ (n = Len(b) \/ b[n + 1] = 0)
  BY <1>3, DataEnds
<1>6. DataOf(b) = SubSeq(b, 1, n)
  BY <1>3, <1>5, DataLength
<1>7. DataOf(a) = SubSeq(a, 1, n + 1)
  <2>1. n + 1 \in 0 .. Len(a)
    BY <1>3, SMTT(30)
  <2>2. ASSUME NEW i \in 1 .. n + 1 PROVE a[i] # 0
    <3>1. CASE i = 1
      BY <1>4, <3>1
    <3>2. CASE i # 1
      <4>1. i - 1 \in 1 .. n /\ i - 1 \in 1 .. Len(b) /\ (i - 1) + 1 = i
        BY <1>3, <3>2, SMTT(30)
      <4>. QED  BY <1>3, <1>5, <4>1
    <3>. QED  BY <3>1, <3>2
  <2>3. n + 1 = Len(a) \/ a[n + 1 + 1] = 0
    <3>1. CASE n = Len(b)
      BY <1>3, <3>1
    <3>2. CASE n # Len(b)
      <4>1. n + 1 \in 1 .. Len(b)
        BY <1>3, <3>2
      <4>. QED  BY <1>3, <1>5, <3>2, <4>1
    <3>. QED  BY <3>1, <3>2
  <2>. QED  BY <1>1, <2>1, <2>2, <2>3, DataLength
<1>8. 1 \in 1 .. Len(a) /\ n + 1 \in 1 .. Len(a) /\ \A i \in 1 .. n + 1 : a[i] \in Nat
  <2>1. 1 \in 1 .. Len(a) /\ n + 1 \in 1 .. Len(a) /\ \A i \in 1 .. n + 1 : i \in 1 .. Len(a)
    BY <1>3
  <2>2. \A i \in 1 .. Len(a) : a[i] \in Nat
    BY <1>1, ElementOfSeq
  <2>. QED  BY <2>1, <2>2, Zenon
<1>9. Head(SubSeq(a, 1, n + 1)) = a[1] /\ Tail(SubSeq(a, 1, n + 1)) = SubSeq(a, 2, n + 1)
  BY <1>1, <1>8, HeadTailOfSubSeq
<1>10. SubSeq(a, 1, n + 1) # <<>>
  <2>1. Len(SubSeq(a, 1, n + 1)) = n + 1
    BY <1>8, SubSeqProperties
  <2>2. n + 1 # 0
    OBVIOUS
  <2>. QED  BY <2>1, <2>2
<1>11. SubSeq(a, 2, n + 1) = SubSeq(b, 1, n)
  <2>1. /\ SubSeq(a, 2, n + 1) \in Seq(Nat) /\ Len(SubSeq(a, 2, n + 1)) = n
        /\ \A i \in 1 .. n : SubSeq(a, 2, n + 1)[i] = a[i + 1]
    <3>1. \A i \in 2 .. n + 1 : a[i] \in Nat
      BY <1>8
    <3>2. n + 1 - 2 + 1 = n /\ (2 <= n + 1 <=> n # 0) /\ \A i \in 1 .. n : 2 + i - 1 = i + 1
      BY <1>5
    <3>3. n \in Nat /\ 2 \in Int /\ n + 1 \in Int
      OBVIOUS
    <3>. QED  BY <3>1, <3>2, <3>3, SubSeqProperties
  <2>2. /\ SubSeq(b, 1, n) \in Seq(Nat) /\ Len(SubSeq(b, 1, n)) = n
        /\ \A i \in 1 .. n : SubSeq(b, 1, n)[i] = b[i]
    <3>1. \A i \in 1 .. n : b[i] \in Nat
      BY <1>3, SMTT(30)
    <3>2. n - 1 + 1 = n /\ (1 <= n <=> n # 0) /\ \A i \in 1 .. n : 1 + i - 1 = i
      BY <1>5
    <3>3. n \in Nat /\ 1 \in Int /\ n \in Int
      OBVIOUS
    <3>. QED  BY <3>1, <3>2, <3>3, SubSeqProperties
  <2>3. \A i \in 1 .. n : a[i + 1] = b[i]
    BY <1>3
  <2>. QED  BY <2>1, <2>2, <2>3, SeqEqual
<1>12. Head(DataOf(a)) = s[m] /\ Tail(DataOf(a)) = DataOf(b) /\ DataOf(a) # <<>>
  <2>1. Head(DataOf(a)) = s[m]
    BY <1>4, <1>7, <1>9, Zenon
  <2>2. Tail(DataOf(a)) = SubSeq(a, 2, n + 1)
    BY <1>7, <1>9, Zenon
  <2>. QED  BY <1>6, <1>7, <1>10, <1>11, <2>1, <2>2, Zenon
<1>. QED  BY <1>12 DEF a, b

(* There is no data where the input ends or holds its end mark.            *)
LEMMA DataOfEnd ==
    ASSUME NEW s \in Seq(Nat), NEW m \in 1 .. Len(s) + 1, m = Len(s) + 1 \/ s[m] = 0
    PROVE  DataOf(SubSeq(s, m, Len(s))) = <<>>
<1>. DEFINE a == SubSeq(s, m, Len(s))
<1>0. Len(s) \in Nat /\ m \in Nat /\ m >= 1 /\ m <= Len(s) + 1
  OBVIOUS
<1>1. /\ a \in Seq(Nat) /\ Len(a) = (IF m <= Len(s) THEN Len(s) - m + 1 ELSE 0)
      /\ \A i \in 1 .. Len(s) - m + 1 : a[i] = s[m + i - 1]
  <2>1. \A i \in m .. Len(s) : s[i] \in Nat
    BY <1>0
  <2>2. m \in Int /\ Len(s) \in Int
    BY <1>0
  <2>. QED  BY <2>1, <2>2, SubSeqProperties
<1>. HIDE DEF a
<1>2. 0 = Len(a) \/ a[0 + 1] = 0
  <2>1. CASE m = Len(s) + 1
    BY <1>0, <1>1, <2>1
  <2>2. CASE m <= Len(s)
    <3>1. 1 \in 1 .. Len(s) - m + 1 /\ m + 1 - 1 = m /\ 0 + 1 = 1 /\ m # Len(s) + 1
      BY <1>0, <2>2
    <3>. QED  BY <1>1, <3>1
  <2>. QED  BY <1>0, <2>1, <2>2
<1>3. 0 \in 0 .. Len(a) /\ \A i \in 1 .. 0 : a[i] # 0
  BY <1>1
<1>4. DataOf(a) = SubSeq(a, 1, 0)
  BY <1>1, <1>2, <1>3, DataLength
<1>5. SubSeq(a, 1, 0) = <<>>
  BY SubSeqEmpty
<1>. QED  BY <1>4, <1>5 DEF a

(* Putting makes the queue longer by the slot behind it.                   *)
LEMMA WindowGrows ==
    ASSUME TypeOK
    PROVE  Window(out, count + 1) =
               Append(Window(out, count), buffer[(out + count) % BUFFER_SIZE])
<1>. DEFINE grown == Append(Window(out, count), buffer[(out + count) % BUFFER_SIZE])
<1>0. count \in Nat /\ out \in Nat /\ BUFFER_SIZE \in Nat
  BY BufferAssumption DEF TypeOK, Index
<1>1. \A i \in 1 .. count + 1 : (out + i - 1) % BUFFER_SIZE \in Index
  BY BufferAssumption, ModWrap DEF TypeOK, Index, Wrap
<1>2. out + (count + 1) - 1 = out + count
  BY <1>0
<1>3. buffer[(out + count) % BUFFER_SIZE] \in Nat
  <2>1. count + 1 \in 1 .. count + 1
    BY <1>0
  <2>. QED  BY <1>1, <1>2, <2>1 DEF TypeOK
<1>4. /\ grown \in Seq(Nat) /\ Len(grown) = count + 1
      /\ \A i \in 1 .. count : grown[i] = Window(out, count)[i]
      /\ grown[count + 1] = buffer[(out + count) % BUFFER_SIZE]
  BY <1>3, WindowType, AppendProperties
<1>. HIDE DEF grown
<1>5. /\ Window(out, count + 1) \in Seq(Nat) /\ Len(Window(out, count + 1)) = count + 1
      /\ \A i \in 1 .. count + 1 :
             Window(out, count + 1)[i] = buffer[(out + i - 1) % BUFFER_SIZE]
  <2>1. \A i \in 1 .. count + 1 : buffer[(out + i - 1) % BUFFER_SIZE] \in Nat
    BY <1>1 DEF TypeOK
  <2>2. count + 1 \in Nat
    BY <1>0
  <2>. QED  BY <2>1, <2>2 DEF Window
<1>6. \A i \in 1 .. count : Window(out, count)[i] = buffer[(out + i - 1) % BUFFER_SIZE]
  BY DEF Window
<1>7. \A i \in 1 .. count + 1 : grown[i] = Window(out, count + 1)[i]
  <2>1. \A i \in 1 .. count + 1 : i \in 1 .. count \/ i = count + 1
    BY <1>0
  <2>. QED  BY <1>2, <1>4, <1>5, <1>6, <2>1
<1>8. grown = Window(out, count + 1)
  BY <1>4, <1>5, <1>7, SeqEqual
<1>. QED  BY <1>8 DEF grown

(* Taking removes the oldest item from the queue.                          *)
LEMMA WindowShrinks ==
    ASSUME TypeOK, count > 0
    PROVE  /\ Window(out, count) # <<>>
           /\ Head(Window(out, count)) = buffer[out]
           /\ Tail(Window(out, count)) = Window((out + 1) % BUFFER_SIZE, count - 1)
<1>. DEFINE w == Window(out, count)
            rest == Window((out + 1) % BUFFER_SIZE, count - 1)
<1>0. /\ count \in Nat /\ out \in Nat /\ out < BUFFER_SIZE /\ BUFFER_SIZE \in Nat
      /\ count <= BUFFER_SIZE
  BY BufferAssumption DEF TypeOK, Index
<1>1. w \in Seq(Nat) /\ Len(w) = count
  BY WindowType
<1>2. \A i \in 1 .. count : w[i] = buffer[(out + i - 1) % BUFFER_SIZE]
  BY DEF Window
<1>3. ASSUME NEW i \in 1 .. count - 1
      PROVE  /\ (((out + 1) % BUFFER_SIZE) + i - 1) % BUFFER_SIZE = (out + (i + 1) - 1) % BUFFER_SIZE
             /\ (((out + 1) % BUFFER_SIZE) + i - 1) % BUFFER_SIZE \in Index
  <2>1. (out + 1) % BUFFER_SIZE = Wrap(out + 1)
    BY NextIndex DEF TypeOK
  <2>2. /\ Wrap(out + 1) + i - 1 \in 0 .. 2 * BUFFER_SIZE - 1
        /\ out + (i + 1) - 1 \in 0 .. 2 * BUFFER_SIZE - 1
    BY <1>0 DEF Wrap
  <2>3. Wrap(Wrap(out + 1) + i - 1) = Wrap(out + (i + 1) - 1) /\ Wrap(out + (i + 1) - 1) \in Index
    BY <1>0 DEF Wrap, Index
  <2>. QED  BY <2>1, <2>2, <2>3, ModWrap
<1>4. /\ rest \in Seq(Nat) /\ Len(rest) = count - 1
      /\ \A i \in 1 .. count - 1 :
             rest[i] = buffer[(((out + 1) % BUFFER_SIZE) + i - 1) % BUFFER_SIZE]
  <2>1. \A i \in 1 .. count - 1 :
            buffer[(((out + 1) % BUFFER_SIZE) + i - 1) % BUFFER_SIZE] \in Nat
    BY <1>3 DEF TypeOK
  <2>2. count - 1 \in Nat
    BY <1>0
  <2>. QED  BY <2>1, <2>2 DEF Window
<1>5. w[1] = buffer[out]
  <2>1. 1 \in 1 .. count /\ out + 1 - 1 = out
    BY <1>0
  <2>2. out % BUFFER_SIZE = out
    BY <1>0
  <2>. QED  BY <1>2, <2>1, <2>2
<1>. HIDE DEF w, rest
<1>6. w # <<>>
  BY <1>0, <1>1
<1>7. Head(w) = w[1]
  BY <1>1, <1>6
<1>8. /\ Tail(w) \in Seq(Nat) /\ Len(Tail(w)) = count - 1
      /\ \A i \in 1 .. count - 1 : Tail(w)[i] = w[i + 1]
  BY <1>1, <1>6, HeadTailProperties
<1>9. \A i \in 1 .. count - 1 : Tail(w)[i] = rest[i]
  <2>1. \A i \in 1 .. count - 1 : i + 1 \in 1 .. count
    BY <1>0
  <2>. QED  BY <1>2, <1>3, <1>4, <1>8, <2>1
<1>10. Tail(w) = rest
  BY <1>4, <1>8, <1>9, SeqEqual
<1>. QED  BY <1>5, <1>6, <1>7, <1>10 DEF w, rest

(* The numbers of the state.                                               *)
LEMMA StateNumbers == ASSUME SafeInv
                      PROVE  /\ input \in Seq(Nat) /\ Len(input) \in Nat /\ Len(output) \in Nat
                             /\ Taken \in Nat /\ count \in Nat /\ pos \in Nat
BY InputsAssumption, BufferAssumption DEF SafeInv, TypeOK, Taken

(* What the producer has not put yet is the data after the items put.      *)
LEMMA UnputIs ==
    ASSUME ProdConsInv, ProdConsInv'
    PROVE  /\ Unput = DataOf(SubSeq(input, Passed + 1, Len(input)))
           /\ Unput' = DataOf(SubSeq(input', Passed' + 1, Len(input')))
<1>1. pos \in Nat /\ pos' \in Nat
  BY InputsAssumption DEF ProdConsInv, SafeInv, TypeOK
<1>2. /\ Passed = (IF InHand THEN pos - 1 ELSE pos)
      /\ Passed' = (IF InHand' THEN pos' - 1 ELSE pos')
  BY DEF ProdConsInv, RingInv
<1>3. (IF InHand THEN pos ELSE pos + 1) = Passed + 1
  BY <1>1, <1>2 DEF InHand
<1>4. (IF InHand' THEN pos' ELSE pos' + 1) = Passed' + 1
  <2>1. pos' - 1 + 1 = pos'
    <3>1. \A k \in Nat : k - 1 + 1 = k
      OBVIOUS
    <3>. QED  BY <1>1, <3>1, Zenon
  <2>2. CASE InHand'
    BY <1>2, <2>1, <2>2, Zenon
  <2>3. CASE ~InHand'
    BY <1>2, <2>3, Zenon
  <2>. QED  BY <2>2, <2>3, Zenon
<1>. QED  BY <1>3, <1>4 DEF Unput

(* The initial states are initial states of the queue.                     *)
LEMMA QueueInit == Init => Queue!Init
<1>. SUFFICES ASSUME Init PROVE Queue!Init
  OBVIOUS
<1>1. /\ input \in Inputs /\ pos = 0 /\ output = <<>> /\ terminate = FALSE /\ ~exited
      /\ pc[P] = "open" /\ pc[C] = "open" /\ count = 0
  BY DEF Init, Threads, P, C
<1>2. Unput = DataOf(input)
  <2>1. SubSeq(input, 1, Len(input)) = input
    BY <1>1, InputsAssumption, SubSeqFull
  <2>2. (IF InHand THEN pos ELSE pos + 1) = 1
    BY <1>1 DEF InHand
  <2>. QED  BY <2>1, <2>2 DEF Unput
<1>3. Window(out, count) = <<>>
  BY <1>1 DEF Window
<1>4. Unput \in {DataOf(s) : s \in Inputs}
  BY <1>1, <1>2
<1>. QED  BY <1>1, <1>3, <1>4 DEF Queue!Init

(* A step that neither passes an item on nor moves the consumer past its   *)
(* last test is invisible to the queue.                                    *)
LEMMA QueueStutters ==
    ASSUME ProdConsInv, ProdConsInv', UNCHANGED <<input, count, out, terminate, exited>>,
           Window(out, count)' = Window(out, count), Taken' = Taken,
           pc[C] = "write" <=> pc'[C] = "write", UNCHANGED <<c_item, output>>,
           pc[C] \in {"unlockEnd", "returned"} <=> pc'[C] \in {"unlockEnd", "returned"}
    PROVE  UNCHANGED Queue!vars
<1>1. Passed' = Passed
  BY DEF Passed
<1>2. Unput' = Unput
  BY <1>1, UnputIs
<1>. QED  BY <1>2 DEF Queue!vars

(* Advance puts the first item that is left at the end of the queue.       *)
LEMMA AdvancePuts == ASSUME ProdConsInv, ProdConsInv', Advance
                     PROVE  Queue!Put
<1>0. /\ input \in Seq(Nat) /\ Len(input) \in Nat /\ Taken \in Nat /\ count \in Nat
      /\ pos \in Nat
  BY StateNumbers DEF ProdConsInv
<1>1. /\ pc[P] = "advance" /\ pc'[C] = pc[C] /\ count' = count + 1 /\ ~exited
      /\ UNCHANGED <<buffer, out, input, output, c_item, terminate, exited>>
      /\ count < BUFFER_SIZE
  BY DEF Advance, Goto, ProdConsInv, SafeInv, TypeOK, Threads, P, C, files
<1>2. Taken' = Taken /\ Passed' = Passed + 1
  <2>1. Taken' = Taken
    BY <1>1, Zenon DEF Taken
  <2>2. Passed = Taken + count /\ Passed' = Taken + (count + 1)
    BY <1>1, <2>1, Zenon DEF Passed
  <2>. HIDE DEF Taken
  <2>3. \A a, b \in Nat : a + (b + 1) = (a + b) + 1
    OBVIOUS
  <2>. QED  BY <1>0, <2>1, <2>2, <2>3, Zenon
<1>3. Passed + 1 = pos /\ pos <= Len(input) /\ input[pos] # 0 /\ buffer[in] = input[pos]
  BY <1>0, <1>1 DEF ProdConsInv, RingInv, EndInv, InHand, HasToken
<1>4. Passed + 1 \in 1 .. Len(input) /\ input[Passed + 1] # 0
  BY <1>0, <1>3 DEF Passed
<1>5. Unput # <<>> /\ Head(Unput) = input[Passed + 1] /\ Tail(Unput) = Unput'
  <2>1. Unput' = DataOf(SubSeq(input, Passed + 1 + 1, Len(input)))
    BY <1>1, <1>2, UnputIs
  <2>2. Unput = DataOf(SubSeq(input, Passed + 1, Len(input)))
    BY UnputIs
  <2>. QED  BY <1>0, <1>4, <2>1, <2>2, DataOfCons
<1>6. Window(out, count)' = Append(Window(out, count), Head(Unput))
  <2>1. Window(out, count)' = Window(out, count + 1)
    BY <1>1 DEF Window
  <2>2. in = (out + count) % BUFFER_SIZE
    <3>1. out + count \in 0 .. 2 * BUFFER_SIZE - 1
      BY <1>0, <1>1, BufferAssumption DEF ProdConsInv, SafeInv, TypeOK, Index
    <3>. QED  BY <3>1, ModWrap DEF ProdConsInv, RingInv
  <2>. QED  BY <1>3, <1>5, <2>1, <2>2, WindowGrows DEF ProdConsInv, SafeInv
<1>7. pc[C] \notin {"unlockEnd", "returned"}
  BY <1>1 DEF ProdConsInv, EndInv
<1>8. Len(Window(out, count)) < BUFFER_SIZE
  BY <1>1, WindowType DEF ProdConsInv, SafeInv
<1>9. pc[C] # "write"
  BY <1>1 DEF ProdConsInv, SafeInv, MutexHeld, Critical, Threads, P, C
<1>. QED  BY <1>1, <1>5, <1>6, <1>7, <1>8, <1>9 DEF Queue!Put

(* The consumer's step out of the ring takes the first item of the queue.  *)
LEMMA TakeGets == ASSUME ProdConsInv, ProdConsInv', Take
                  PROVE  Queue!Get
<1>0. count \in Nat /\ Taken \in Nat /\ Len(output) \in Nat
  BY StateNumbers DEF ProdConsInv
<1>1. /\ pc[C] = "take" /\ pc'[C] = "write" /\ pc'[P] = pc[P] /\ count > 0 /\ ~exited
      /\ count' = count - 1 /\ out' = (out + 1) % BUFFER_SIZE /\ c_item' = buffer[out]
      /\ UNCHANGED <<buffer, input, output, terminate, exited>>
  BY DEF Take, Goto, ProdConsInv, SafeInv, TypeOK, Threads, P, C, files
<1>2. /\ Window(out, count) # <<>> /\ Head(Window(out, count)) = c_item'
      /\ Tail(Window(out, count)) = Window(out, count)'
  <2>1. Window(out, count)' = Window((out + 1) % BUFFER_SIZE, count - 1)
    BY <1>1 DEF Window
  <2>. QED  BY <1>1, <2>1, WindowShrinks DEF ProdConsInv, SafeInv
<1>3. Unput' = Unput
  <2>1. Taken' = Taken + 1
    BY <1>1, <1>0 DEF Taken, ProdConsInv, SafeInv, TypeOK
  <2>2. Passed' = Passed
    BY <1>0, <1>1, <2>1 DEF Passed
  <2>. QED  BY <1>1, <2>2, UnputIs
<1>. QED  BY <1>1, <1>2, <1>3 DEF Queue!Get

(* The producer sets the flag once, when nothing is left to put.           *)
LEMMA CloseCloses == ASSUME ProdConsInv, ProdConsInv', Close
                     PROVE  Queue!Close
<1>0. /\ input \in Seq(Nat) /\ Len(input) \in Nat /\ Taken \in Nat /\ count \in Nat
  BY StateNumbers DEF ProdConsInv
<1>1. /\ pc[P] = "close" /\ pc'[C] = pc[C] /\ ~exited /\ terminate' = TRUE
      /\ UNCHANGED <<buffer, count, out, input, output, c_item, exited>>
  BY DEF Close, Goto, ProdConsInv, SafeInv, TypeOK, Threads, P, C, ring, files
<1>2. ~terminate /\ pc[C] \notin {"unlockEnd", "returned"}
  BY <1>1 DEF ProdConsInv, EndInv
<1>3. /\ Passed + 1 \in 1 .. Len(input) + 1
      /\ Passed + 1 = Len(input) + 1 \/ input[Passed + 1] = 0
  BY <1>0, <1>1 DEF ProdConsInv, EndInv, RingInv, Passed
<1>4. Unput = <<>>
  <2>1. Unput = DataOf(SubSeq(input, Passed + 1, Len(input)))
    BY UnputIs
  <2>. QED  BY <1>0, <1>3, <2>1, DataOfEnd
<1>5. Unput' = Unput /\ Window(out, count)' = Window(out, count)
  <2>1. Passed' = Passed
    BY <1>1 DEF Passed, Taken
  <2>. QED  BY <1>1, <2>1, UnputIs DEF Window
<1>. QED  BY <1>1, <1>2, <1>4, <1>5 DEF Queue!Close

(* The consumer leaves its loop when the queue is closed and empty.        *)
LEMMA TestFinishes ==
    ASSUME ProdConsInv, ProdConsInv', CTest
    PROVE  Queue!Finish \/ UNCHANGED Queue!vars
<1>1. /\ pc[C] \in {"test", "woken"} /\ ~exited
      /\ pc'[C] = (IF count = 0 /\ terminate THEN "unlockEnd" ELSE "empty")
      /\ UNCHANGED <<buffer, count, in, out, input, output, c_item, terminate, exited>>
  BY DEF CTest, Test, Goto, ProdConsInv, SafeInv, TypeOK, Threads, P, C, ring, files
<1>2. Window(out, count)' = Window(out, count) /\ Taken' = Taken
  BY <1>1 DEF Window, Taken
<1>3. CASE count = 0 /\ terminate
  <2>1. Passed' = Passed
    BY <1>1, <1>2 DEF Passed
  <2>2. Unput' = Unput
    BY <1>1, <2>1, UnputIs
  <2>3. Window(out, count) = <<>>
    BY <1>3 DEF Window
  <2>. QED  BY <1>1, <1>2, <1>3, <2>2, <2>3 DEF Queue!Finish
<1>4. CASE ~(count = 0 /\ terminate)
  BY <1>1, <1>2, <1>4, QueueStutters
<1>. QED  BY <1>3, <1>4

(* Every other step of the two threads leaves the queue alone.             *)
LEMMA OthersStutter ==
    ASSUME ProdConsInv, ProdConsInv',
           \/ \E t \in Threads : Open(t) \/ SpuriousWakeup(t)
           \/ Read \/ PLock \/ PTest \/ PWait \/ PSignal \/ PUnlock
           \/ CLock \/ CEmpty \/ CWait \/ CSignal \/ CUnlock \/ Store \/ Write
           \/ UNCHANGED vars
    PROVE  UNCHANGED Queue!vars
<1>1. CASE Store
  <2>1. /\ pc[P] = "store" /\ pc'[C] = pc[C] /\ count < BUFFER_SIZE
        /\ buffer' = [buffer EXCEPT ![in] = p_item]
        /\ UNCHANGED <<count, out, input, output, c_item, terminate, exited>>
    BY <1>1 DEF Store, Goto, ProdConsInv, SafeInv, TypeOK, Threads, P, C, files
  <2>2. \A i \in 1 .. count : LET x == (out + i - 1) % BUFFER_SIZE
                               IN  buffer'[x] = buffer[x]
    <3>1. ASSUME NEW i \in 1 .. count
          PROVE  (out + i - 1) % BUFFER_SIZE \in Index /\ (out + i - 1) % BUFFER_SIZE # in
      <4>0. /\ out \in Nat /\ out < BUFFER_SIZE /\ BUFFER_SIZE \in Nat /\ count \in Nat
            /\ in = Wrap(out + count)
        BY BufferAssumption DEF ProdConsInv, SafeInv, TypeOK, Index, RingInv
      <4>1. out + i - 1 \in 0 .. 2 * BUFFER_SIZE - 1
        BY <2>1, <4>0
      <4>2. Wrap(out + i - 1) \in Index /\ Wrap(out + i - 1) # in
        BY <2>1, <4>0 DEF Wrap, Index
      <4>. QED  BY <4>1, <4>2, ModWrap
    <3>. QED  BY <2>1, <3>1 DEF ProdConsInv, SafeInv, TypeOK
  <2>3. Window(out, count)' = Window(out, count)
    BY <2>1, <2>2 DEF Window
  <2>. QED  BY <2>1, <2>3, QueueStutters DEF Taken
<1>2. CASE Write
  <2>1. /\ pc[C] = "write" /\ pc'[C] = "signal" /\ pc'[P] = pc[P]
        /\ output' = Append(output, [item |-> c_item, rest |-> Window(out, count)])
        /\ UNCHANGED <<buffer, count, out, input, terminate, exited>>
    BY <1>2 DEF Write, Goto, ProdConsInv, SafeInv, TypeOK, Threads, P, C, ring, files
  <2>2. Window(out, count)' = Window(out, count)
    BY <2>1 DEF Window
  <2>3. Passed' = Passed
    <3>1. Len(output') = Len(output) + 1
      BY <2>1, WindowType, AppendProperties DEF ProdConsInv, SafeInv, TypeOK
    <3>. QED  BY <2>1, <3>1 DEF Passed, Taken
  <2>4. Unput' = Unput
    BY <2>1, <2>3, UnputIs
  <2>. QED  BY <2>1, <2>2, <2>4 DEF Queue!vars
<1>3. ASSUME UNCHANGED <<buffer, count, out, input, output, c_item, terminate, exited>>,
             pc[C] = "write" <=> pc'[C] = "write",
             pc[C] \in {"unlockEnd", "returned"} <=> pc'[C] \in {"unlockEnd", "returned"}
      PROVE  UNCHANGED Queue!vars
  <2>1. Window(out, count)' = Window(out, count) /\ Taken' = Taken
    BY <1>3 DEF Window, Taken
  <2>. QED  BY <1>3, <2>1, QueueStutters
<1>. USE DEF ProdConsInv, SafeInv, TypeOK, Threads, P, C, ring, files
<1>4. CASE \E t \in Threads : Open(t) \/ SpuriousWakeup(t)
  BY <1>3, <1>4, SMTT(30) DEF Open, SpuriousWakeup, Test, Goto
<1>5. CASE Read \/ PLock \/ CLock
  BY <1>3, <1>5 DEF Read, PLock, CLock, Lock, Goto
<1>6. CASE PTest \/ CEmpty
  BY <1>3, <1>6 DEF PTest, CEmpty, Test, Goto
<1>7. CASE PWait \/ CWait \/ PUnlock \/ CUnlock
  BY <1>3, <1>7 DEF PWait, CWait, CondWait, PUnlock, CUnlock, Unlock, Goto
<1>8. CASE PSignal \/ CSignal
  BY <1>3, <1>8 DEF PSignal, CSignal, Signal
<1>9. CASE UNCHANGED vars
  BY <1>3, <1>9 DEF vars
<1>. QED  BY <1>1, <1>2, <1>4, <1>5, <1>6, <1>7, <1>8, <1>9, Zenon

(* A file that cannot be opened ends the process before anything has       *)
(* finished.                                                               *)
LEMMA OpenFailsAborts ==
    ASSUME ProdConsInv, ProdConsInv', NEW t \in Threads, OpenFails(t)
    PROVE  Queue!Abort
<1>1. /\ pc[t] = "open" /\ ~exited /\ exited' = TRUE
      /\ UNCHANGED <<buffer, count, out, input, output, c_item, terminate, pc>>
  BY DEF OpenFails, ring, files
<1>2. pc[C] \notin {"unlockEnd", "returned"}
  BY <1>1 DEF ProdConsInv, EndInv, Threads, P, C
<1>3. Window(out, count)' = Window(out, count) /\ Unput' = Unput
  <2>1. Passed' = Passed
    BY <1>1 DEF Passed, Taken
  <2>. QED  BY <1>1, <2>1, UnputIs DEF Window
<1>. QED  BY <1>1, <1>2, <1>3 DEF Queue!Abort

-----------------------------------------------------------------------------
(* The invariant holds in every reachable state, for a ring of any size    *)
(* and any input.                                                          *)
THEOREM ProdConsInvariant == Spec => []ProdConsInv
<1>1. Init => ProdConsInv
  BY SafeInit, DataInit DEF ProdConsInv
<1>2. ProdConsInv /\ [Next]_vars => ProdConsInv'
  BY SafeStep, WakeStep, RingStep, LogStep, EndStep DEF ProdConsInv
<1>. QED  BY <1>1, <1>2, PTL DEF Spec

(* Type correctness: the count and both indices stay within the ring.      *)
THEOREM ProdConsTypeOK == Spec => []TypeOK
<1>1. ProdConsInv => TypeOK
  BY DEF ProdConsInv, SafeInv
<1>. QED  BY <1>1, ProdConsInvariant, PTL

(* The shared variables are only accessed by the owner of the mutex.       *)
THEOREM ProdConsMutexHeld == Spec => []MutexHeld
<1>1. ProdConsInv => MutexHeld
  BY DEF ProdConsInv, SafeInv
<1>. QED  BY <1>1, ProdConsInvariant, PTL

(* No thread sleeps with work to do and no signal on its way.              *)
THEOREM ProdConsNoLostWakeup == Spec => []NoLostWakeup
<1>1. ProdConsInv => NoLostWakeup
  BY DEF ProdConsInv, WakeInv
<1>. QED  BY <1>1, ProdConsInvariant, PTL

(* All three together, as the model checker checks them.                   *)
THEOREM ProdConsSound == Spec => []Inv
BY ProdConsTypeOK, ProdConsMutexHeld, ProdConsNoLostWakeup, PTL DEF Inv

(* The log, the item in the consumer's hands and the ring are, in order,   *)
(* the beginning of the input.                                             *)
THEOREM ProdConsFifo == Spec => []Fifo
<1>1. ProdConsInv => Fifo
  BY FifoWindow DEF ProdConsInv, LogInv, Fifo
<1>. QED  BY <1>1, ProdConsInvariant, PTL

(* The consumer does not return before it has logged all the data.         *)
THEOREM ProdConsNothingLeftBehind == Spec => []NothingLeftBehind
BY EndOfData, ProdConsInvariant, PTL

(* The two threads implement the bounded queue: behind the ring, the mutex *)
(* and the two condition variables there is one sequence into which the    *)
(* data is put and from which it is taken, in single steps. That every run *)
(* also makes the progress the queue promises is left to the model checker.*)
THEOREM ProdConsTakesQueueSteps == Spec => Queue!Init /\ [][Queue!Next]_(Queue!vars)
<1>1. ProdConsInv /\ ProdConsInv' /\ [Next]_vars => [Queue!Next]_(Queue!vars)
  <2>. SUFFICES ASSUME ProdConsInv, ProdConsInv', [Next]_vars
                PROVE  Queue!Next \/ UNCHANGED Queue!vars
    OBVIOUS
  <2>1. CASE Advance
    BY <2>1, AdvancePuts, Zenon DEF Queue!Next
  <2>2. CASE Take
    BY <2>2, TakeGets, Zenon DEF Queue!Next
  <2>3. CASE Close
    BY <2>3, CloseCloses, Zenon DEF Queue!Next
  <2>4. CASE CTest
    BY <2>4, TestFinishes, Zenon DEF Queue!Next
  <2>5. CASE \E t \in Threads : OpenFails(t)
    BY <2>5, OpenFailsAborts, Zenon DEF Queue!Next
  <2>6. CASE \/ \E t \in Threads : Open(t) \/ SpuriousWakeup(t)
             \/ Read \/ PLock \/ PTest \/ PWait \/ PSignal \/ PUnlock
             \/ CLock \/ CEmpty \/ CWait \/ CSignal \/ CUnlock \/ Store \/ Write
             \/ UNCHANGED vars
    BY <2>6, OthersStutter
  <2>. QED
    BY <2>1, <2>2, <2>3, <2>4, <2>5, <2>6 DEF Next, Producer, Consumer, Threads
<1>. QED  BY <1>1, QueueInit, ProdConsInvariant, PTL DEF Spec
=============================================================================
