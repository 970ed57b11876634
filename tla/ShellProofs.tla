----------------------------- MODULE ShellProofs -----------------------------
(***************************************************************************)
(* Proofs about the shell: what it remembers of earlier lines is right,    *)
(* and it pays for the processes and pipes it makes, however many lines    *)
(* are typed, however the children run and whichever system calls fail.    *)
(***************************************************************************)
EXTENDS Shell, FiniteSetTheorems, SequenceTheorems, TLAPS

Calls == {"command", "pipe", "first", "second"}

(* The states in which the shell works on the pipe of its line.            *)
Piping == pc \in {"fork first", "fork second", "close"}

(* Children that the line at hand has still to be waited for.              *)
Due == IF pc \in {"wait any", "fork second", "wait second"} THEN 1
       ELSE IF pc \in {"close", "wait first"} THEN 2 ELSE 0

(* Ends of pipes that it has still to close.                               *)
Owned == IF Piping THEN 2 ELSE 0

(* Only the ends of a pipeline have a pipe, only the left one writes.      *)
ChildrenInv ==
    /\ role \in [Children -> {"none", "alone", "left", "right"}]
    /\ pipeOf \in [Children -> {0} \cup Pipes]
    /\ \A p \in Children : /\ role[p] \in {"left", "right"} => pipeOf[p] \in Pipes
                           /\ todo[p] > 0 => role[p] = "left"

(* The history, and that a line being performed has been stored.           *)
HistoryInv == /\ HistoryFits /\ history_capacity > 0
              /\ pc = "perform" \/ Piping => history_count > 0

(* The trail is the sequence of directories PrevIsPrevious speaks of.      *)
DirInv == trail \in Seq(Dirs) /\ Len(trail) > 0 /\ PrevIsPrevious

(* Every end the shell has open is of a pipe of an earlier line or of the  *)
(* line at hand; both ends of the latter are open while it works on it.    *)
EndsInv == /\ IsFiniteSet(fds[SHELL])
           /\ \A n \in Pipes, d \in {"read", "write"} : <<n, d>> \in fds[SHELL]
                 => n <= history_count /\ (pc = "perform" => n < history_count)
           /\ Piping => Ends(Pipe) \subseteq fds[SHELL]

(* The children not waited for and the open ends are those of pipelines    *)
(* whose forks have failed and those of the line at hand.                  *)
Account == /\ failures \in [Calls -> Nat]
           /\ Cardinality(Unreaped) = failures["second"] + Due
           /\ Cardinality(fds[SHELL]) = 2 * (failures["first"] + failures["second"]) + Owned

(* The children of the line at hand are children.                          *)
WaitedFor == /\ pc \in {"fork second", "close", "wait first"} => p1 \in Children
             /\ pc \in {"close", "wait first", "wait second"} => p2 \in Children

(* The inductive invariant of the shell.                                   *)
ShellInv == TypeOK /\ ChildrenInv /\ WaitedFor /\ HistoryInv /\ DirInv /\ EndsInv /\ Account

-----------------------------------------------------------------------------
(* The set of children not waited for is finite.                           *)
LEMMA UnreapedFinite == IsFiniteSet(Unreaped) /\ Cardinality(Unreaped) \in Nat
<1>1. IsFiniteSet(Children)
  <2>1. MaxLines \in Nat  BY ShellAssumption
  <2>2. 1 \in Int /\ 2 * MaxLines \in Int  BY <2>1
  <2>. QED  BY <2>2, FS_Interval DEF Children
<1>2. Unreaped \in SUBSET Children  BY DEF Unreaped
<1>. QED  BY <1>1, <1>2, FS_Subset, FS_CardinalityType

(* The shell itself is none of its children.                               *)
LEMMA ShellNoChild == SHELL \notin Children
<1>. QED  BY DEF SHELL, Children

(* A new child is one more to wait for, and gets the shell's ends.         *)
LEMMA Forked ==
    ASSUME TypeOK, ChildrenInv, NEW p \in Children, NEW r \in {"alone", "left", "right"},
           NEW n \in {0} \cup Pipes, r # "alone" => n \in Pipes, Fork(p, r, n)
    PROVE  /\ state' \in [Children -> {"none", "new", "running", "zombie", "reaped"}]
           /\ fds' \in [{SHELL} \cup Children -> SUBSET UNION {Ends(m) : m \in Pipes}]
           /\ todo' \in [Children -> 0 .. MaxWrites] /\ ChildrenInv'
           /\ fds'[SHELL] = fds[SHELL] /\ Cardinality(Unreaped') = Cardinality(Unreaped) + 1
<1>0. /\ state \in [Children -> {"none", "new", "running", "zombie", "reaped"}]
      /\ fds \in [{SHELL} \cup Children -> SUBSET UNION {Ends(m) : m \in Pipes}]
      /\ todo \in [Children -> 0 .. MaxWrites]
      /\ role \in [Children -> {"none", "alone", "left", "right"}]
      /\ pipeOf \in [Children -> {0} \cup Pipes] /\ MaxWrites \in Nat
  BY ShellAssumption DEF TypeOK, ChildrenInv
<1>1. /\ state[p] = "none" /\ state' = [state EXCEPT ![p] = "new"]
      /\ role' = [role EXCEPT ![p] = r] /\ pipeOf' = [pipeOf EXCEPT ![p] = n]
      /\ fds' = [fds EXCEPT ![p] = fds[SHELL]]
  BY DEF Fork
<1>2. PICK w \in 0 .. MaxWrites : todo' = [todo EXCEPT ![p] = w] /\ (w > 0 => r = "left")
  BY <1>0 DEF Fork
<1>3. \A q \in Children : /\ role'[q] \in {"left", "right"} => pipeOf'[q] \in Pipes
                          /\ todo'[q] > 0 => role'[q] = "left"
  <2>. SUFFICES ASSUME NEW q \in Children
                PROVE  /\ role'[q] \in {"left", "right"} => pipeOf'[q] \in Pipes
                       /\ todo'[q] > 0 => role'[q] = "left"
    OBVIOUS
  <2>1. CASE q = p  BY <1>0, <1>1, <1>2, <2>1
  <2>2. CASE q # p
    <3>1. role'[q] = role[q] /\ pipeOf'[q] = pipeOf[q] /\ todo'[q] = todo[q]
      BY <1>0, <1>1, <1>2, <2>2
    <3>. QED  BY <3>1 DEF ChildrenInv
  <2>. QED  BY <2>1, <2>2
<1>4. ChildrenInv'  BY <1>0, <1>1, <1>3 DEF ChildrenInv
<1>5. fds'[SHELL] = fds[SHELL]  BY <1>0, <1>1, ShellNoChild
<1>6. Cardinality(Unreaped') = Cardinality(Unreaped) + 1
  <2>1. Unreaped' = Unreaped \cup {p} /\ p \notin Unreaped
    BY <1>0, <1>1 DEF Unreaped
  <2>. QED  BY <2>1, UnreapedFinite, FS_AddElement
<1>. QED  BY <1>0, <1>1, <1>2, <1>4, <1>5, <1>6

(* A child that has been waited for is one less.                           *)
LEMMA Reaped ==
    ASSUME TypeOK, NEW p \in Children, Reap(p)
    PROVE  /\ state' \in [Children -> {"none", "new", "running", "zombie", "reaped"}]
           /\ Cardinality(Unreaped') = Cardinality(Unreaped) - 1
<1>0. state \in [Children -> {"none", "new", "running", "zombie", "reaped"}]  BY DEF TypeOK
<1>1. state[p] = "zombie" /\ state' = [state EXCEPT ![p] = "reaped"]  BY DEF Reap
<1>2. Unreaped' = Unreaped \ {p} /\ p \in Unreaped  BY <1>0, <1>1 DEF Unreaped
<1>. QED  BY <1>0, <1>1, <1>2, UnreapedFinite, FS_RemoveElement

(* What a child does is no concern of the shell's: its pipes stay as they  *)
(* are, and the child has still to be waited for.                          *)
LEMMA ChildMoves ==
    ASSUME TypeOK, ChildrenInv, NEW p \in Children, ChildStep(p) \/ LeaveEarly(p)
    PROVE  /\ state' \in [Children -> {"none", "new", "running", "zombie", "reaped"}]
           /\ fds' \in [{SHELL} \cup Children -> SUBSET UNION {Ends(m) : m \in Pipes}]
           /\ content' \in [Pipes -> 0 .. PipeSize] /\ todo' \in [Children -> 0 .. MaxWrites]
           /\ ChildrenInv' /\ fds'[SHELL] = fds[SHELL] /\ Unreaped' = Unreaped
           /\ UNCHANGED <<pc, line, p1, p2, historyVars, dirVars, failures>>
<1>0. /\ state \in [Children -> {"none", "new", "running", "zombie", "reaped"}]
      /\ fds \in [{SHELL} \cup Children -> SUBSET UNION {Ends(m) : m \in Pipes}]
      /\ content \in [Pipes -> 0 .. PipeSize] /\ todo \in [Children -> 0 .. MaxWrites]
      /\ MaxWrites \in Nat /\ PipeSize \in Nat
  BY ShellAssumption DEF TypeOK
<1>1. UNCHANGED <<pc, line, p1, p2, historyVars, dirVars, failures>>
  BY DEF ChildStep, LeaveEarly
<1>2. ASSUME NEW v \in {"running", "zombie"}, state[p] \in {"new", "running"},
             state' = [state EXCEPT ![p] = v],
             NEW S \in SUBSET fds[p], fds' = [fds EXCEPT ![p] = S],
             UNCHANGED <<role, pipeOf, todo, content>>
      PROVE  /\ state' \in [Children -> {"none", "new", "running", "zombie", "reaped"}]
             /\ fds' \in [{SHELL} \cup Children -> SUBSET UNION {Ends(m) : m \in Pipes}]
             /\ ChildrenInv' /\ fds'[SHELL] = fds[SHELL] /\ Unreaped' = Unreaped
  <2>1. state' \in [Children -> {"none", "new", "running", "zombie", "reaped"}]  BY <1>0, <1>2
  <2>2. fds' \in [{SHELL} \cup Children -> SUBSET UNION {Ends(m) : m \in Pipes}]
    <3>1. S \in SUBSET UNION {Ends(m) : m \in Pipes}  BY <1>0
    <3>. QED  BY <1>0, <1>2, <3>1
  <2>3. fds'[SHELL] = fds[SHELL]  BY <1>0, <1>2, ShellNoChild
  <2>4. Unreaped' = Unreaped  BY <1>0, <1>2 DEF Unreaped
  <2>5. ChildrenInv'  BY <1>2 DEF ChildrenInv
  <2>. QED  BY <2>1, <2>2, <2>3, <2>4, <2>5
<1>3. CASE SetUp(p)
  <2>1. /\ state[p] = "new" /\ state' = [state EXCEPT ![p] = "running"]
        /\ fds' = [fds EXCEPT ![p] = fds[p] \ Unneeded(p)]
        /\ UNCHANGED <<role, pipeOf, todo, content>>
    BY <1>3 DEF SetUp
  <2>2. (fds[p] \ Unneeded(p)) \in SUBSET fds[p]  OBVIOUS
  <2>. QED  BY <1>0, <1>1, <1>2, <2>1, <2>2
<1>4. CASE Exit(p)
  <2>1. /\ state[p] = "running" /\ state' = [state EXCEPT ![p] = "zombie"]
        /\ fds' = [fds EXCEPT ![p] = {}] /\ UNCHANGED <<role, pipeOf, todo, content>>
    BY <1>4 DEF Exit
  <2>2. {} \in SUBSET fds[p]  OBVIOUS
  <2>. QED  BY <1>0, <1>1, <1>2, <2>1, <2>2
<1>5. CASE Write(p)
  <2>1. /\ todo[p] > 0 /\ content[pipeOf[p]] < PipeSize /\ UNCHANGED <<state, role, pipeOf, fds>>
        /\ content' = [content EXCEPT ![pipeOf[p]] = @ + 1] /\ todo' = [todo EXCEPT ![p] = @ - 1]
    BY <1>5 DEF Write
  <2>2. pipeOf[p] \in Pipes  BY <2>1 DEF ChildrenInv
  <2>3. content' \in [Pipes -> 0 .. PipeSize]  BY <1>0, <2>1, <2>2
  <2>4. todo' \in [Children -> 0 .. MaxWrites]  BY <1>0, <2>1
  <2>5. \A q \in Children : todo'[q] > 0 => todo[q] > 0  BY <1>0, <2>1
  <2>6. ChildrenInv'  BY <2>1, <2>5 DEF ChildrenInv
  <2>7. Unreaped' = Unreaped  BY <2>1 DEF Unreaped
  <2>. QED  BY <1>0, <1>1, <2>1, <2>3, <2>4, <2>6, <2>7
<1>6. CASE Read(p)
  <2>1. /\ role[p] = "right" /\ content[pipeOf[p]] > 0 /\ UNCHANGED <<state, role, pipeOf, todo, fds>>
        /\ content' = [content EXCEPT ![pipeOf[p]] = @ - 1]
    BY <1>6 DEF Read, childVars
  <2>2. pipeOf[p] \in Pipes  BY <2>1 DEF ChildrenInv
  <2>3. content' \in [Pipes -> 0 .. PipeSize]  BY <1>0, <2>1, <2>2
  <2>4. ChildrenInv'  BY <2>1 DEF ChildrenInv
  <2>5. Unreaped' = Unreaped  BY <2>1 DEF Unreaped
  <2>. QED  BY <1>0, <1>1, <2>1, <2>3, <2>4, <2>5
<1>. QED  BY <1>3, <1>4, <1>5, <1>6 DEF ChildStep, LeaveEarly

-----------------------------------------------------------------------------
(* The parts of the invariant that a step of the shell can disturb, apart  *)
(* from those about its children and pipes.                                *)
LEMMA MemoryStep ==
    ASSUME ShellInv, [Next]_vars PROVE HistoryInv' /\ DirInv' /\ history_count' \in 0 .. MaxLines
                                       /\ history_capacity' \in Nat /\ cwd' \in Dirs
                                       /\ prev_dir' \in Dirs \cup {""}
<1>0. /\ history_count \in 0 .. MaxLines /\ history_capacity \in Nat /\ MaxLines \in Nat
      /\ INITIAL_CAPACITY \in Nat /\ cwd \in Dirs /\ prev_dir \in Dirs \cup {""} /\ HOME \in Dirs
      /\ trail \in Seq(Dirs) /\ line \in Lines /\ HistoryInv /\ DirInv
  BY ShellAssumption DEF ShellInv, TypeOK, DirInv
<1>1. CASE read_command
  <2>1. /\ UNCHANGED dirVars /\ history_count < MaxLines /\ history_count' = history_count + 1
        /\ history_capacity' = IF history_count = history_capacity
                               THEN 2 * history_capacity ELSE history_capacity
    BY <1>1 DEF read_command, add_to_history
  <2>2. /\ history_count <= history_capacity /\ history_capacity > 0
        /\ history_capacity <= INITIAL_CAPACITY \/ history_capacity < 2 * history_count
    BY <1>0 DEF HistoryInv, HistoryFits
  <2>3. /\ history_count' \in 0 .. MaxLines /\ history_count' > 0
        /\ history_capacity' \in Nat /\ history_capacity' > 0
        /\ history_count' <= history_capacity'
        /\ history_capacity' <= INITIAL_CAPACITY \/ history_capacity' < 2 * history_count'
    <3>1. PICK n \in Nat, c \in Nat, m \in Nat, i \in Nat :
             n = history_count /\ c = history_capacity /\ m = MaxLines /\ i = INITIAL_CAPACITY
      <4>1. history_count \in Nat
        <5>1. history_count \in 0 .. MaxLines /\ MaxLines \in Nat  BY Zenon, <1>0
        <5>. QED  BY <5>1
      <4>. QED  BY Zenon, <1>0, <4>1
    <3>2. n < m /\ n <= c /\ c > 0 /\ (c <= i \/ c < 2 * n)
      BY Zenon, <2>1, <2>2, <3>1
    <3>3. history_count' = n + 1 /\ history_capacity' = IF n = c THEN 2 * c ELSE c
      BY Zenon, <2>1, <3>1
    <3>. QED  BY <3>1, <3>2, <3>3
  <2>4. HistoryInv'  BY <2>3 DEF HistoryInv, HistoryFits
  <2>5. DirInv' /\ cwd' = cwd /\ prev_dir' = prev_dir
    BY <1>0, <2>1 DEF DirInv, PrevIsPrevious, dirVars
  <2>. QED  BY <1>0, <2>3, <2>4, <2>5
<1>2. CASE shell_cd
  <2>1. UNCHANGED historyVars /\ pc' = "prompt" /\ line \in Dirs \cup {"-"}
        /\ Moves(Target)
    BY <1>2 DEF shell_cd, Goto
  <2>2. HistoryInv'
    BY <1>0, <2>1 DEF HistoryInv, HistoryFits, historyVars, Piping
  <2>3. CASE UNCHANGED dirVars
    <3>1. DirInv'  BY <1>0, <2>3 DEF DirInv, PrevIsPrevious, dirVars
    <3>. QED  BY <1>0, <2>1, <2>2, <2>3, <3>1 DEF dirVars, historyVars
  <2>4. CASE cwd' = Target /\ prev_dir' = cwd /\ trail' = Append(trail, Target)
    <3>1. PICK d \in Dirs : d = Target  BY <1>0, <2>1 DEF Target
    <3>2. /\ trail' \in Seq(Dirs) /\ Len(trail') = Len(trail) + 1 /\ trail'[Len(trail) + 1] = d
          /\ \A k \in 1 .. Len(trail) : trail'[k] = trail[k]
      <4>1. trail' = Append(trail, d)  BY <2>4, <3>1
      <4>2. /\ Append(trail, d) \in Seq(Dirs) /\ Len(Append(trail, d)) = Len(trail) + 1
            /\ Append(trail, d)[Len(trail) + 1] = d
            /\ \A k \in 1 .. Len(trail) : Append(trail, d)[k] = trail[k]
        <5>1. trail \in Seq(Dirs) /\ d \in Dirs  BY <1>0
        <5>. QED  BY <5>1, AppendProperties
      <4>. QED  BY Zenon, <4>1, <4>2
    <3>3. Len(trail) \in Nat /\ Len(trail) > 0 /\ cwd = trail[Len(trail)]
      BY <1>0, LenProperties DEF DirInv, PrevIsPrevious, Last
    <3>4. /\ Len(trail') # 1 /\ Len(trail') - 1 = Len(trail) /\ Len(trail) \in 1 .. Len(trail)
      BY <3>2, <3>3
    <3>5. prev_dir' = trail'[Len(trail') - 1]  BY <2>4, <3>2, <3>3, <3>4
    <3>6. cwd' = Last(trail')  BY <2>4, <3>1, <3>2 DEF Last
    <3>7. DirInv'  BY <3>2, <3>3, <3>4, <3>5, <3>6 DEF DirInv, PrevIsPrevious
    <3>. QED  BY <1>0, <2>1, <2>2, <2>4, <3>1, <3>7 DEF historyVars
  <2>. QED  BY <2>1, <2>3, <2>4 DEF Moves
<1>3. ASSUME UNCHANGED <<historyVars, dirVars>>, pc' # "perform" \/ pc' = pc,
             pc' \in {"fork first", "fork second", "close"} => pc = "perform" \/ Piping
      PROVE  HistoryInv' /\ DirInv' /\ UNCHANGED <<history_count, history_capacity, cwd, prev_dir>>
  <2>1. HistoryInv'  BY <1>0, <1>3 DEF HistoryInv, HistoryFits, historyVars, Piping
  <2>2. DirInv'  BY <1>0, <1>3 DEF DirInv, PrevIsPrevious, dirVars
  <2>. QED  BY <1>3, <2>1, <2>2 DEF historyVars, dirVars
<1>4. CASE EndOfInput \/ Builtin \/ ForkCommand \/ WaitAny \/ MakePipe \/ ForkFirst \/ ForkSecond
           \/ CloseEnds \/ WaitBoth
  <2>1. UNCHANGED <<historyVars, dirVars>>
    BY <1>4 DEF EndOfInput, Builtin, ForkCommand, WaitAny, MakePipe, ForkFirst, ForkSecond,
                CloseEnds, WaitBoth
  <2>2. /\ pc' # "perform"
        /\ pc' \in {"fork first", "fork second", "close"} => pc = "perform" \/ Piping
    BY <1>4 DEF EndOfInput, Builtin, ForkCommand, WaitAny, MakePipe, ForkFirst, ForkSecond,
                CloseEnds, WaitBoth, Goto, Piping
  <2>. QED  BY <1>0, <1>3, <2>1, <2>2
<1>5. CASE \E p \in Children : ChildStep(p) \/ LeaveEarly(p)
  <2>1. UNCHANGED <<pc, historyVars, dirVars>>  BY <1>5 DEF ChildStep, LeaveEarly
  <2>. QED  BY <1>0, <1>3, <2>1 DEF Piping
<1>6. CASE UNCHANGED vars
  <2>1. UNCHANGED <<pc, historyVars, dirVars>>  BY <1>6 DEF vars
  <2>. QED  BY <1>0, <1>3, <2>1 DEF Piping
<1>. QED  BY <1>1, <1>2, <1>4, <1>5, <1>6 DEF Next, ShellStep

(* A step that opens and closes nothing in the shell and loses nothing.    *)
LEMMA AccountKept ==
    ASSUME ShellInv, fds'[SHELL] = fds[SHELL], UNCHANGED <<failures, history_count>>,
           pc' # "perform" \/ pc' = pc, Piping' <=> Piping,
           Cardinality(Unreaped') - Due' = Cardinality(Unreaped) - Due
    PROVE  EndsInv' /\ Account'
<1>1. Due \in {0, 1, 2} /\ Due' \in {0, 1, 2} /\ Cardinality(Unreaped) \in Nat
      /\ Cardinality(Unreaped') \in Int
  <2>1. IsFiniteSet(Children)
    <3>1. MaxLines \in Nat  BY ShellAssumption
    <3>2. 1 \in Int /\ 2 * MaxLines \in Int  BY <3>1
    <3>. QED  BY <3>2, FS_Interval DEF Children
  <2>2. Unreaped' \in SUBSET Children  BY DEF Unreaped
  <2>3. IsFiniteSet(Unreaped')  BY <2>1, <2>2, FS_Subset
  <2>4. Cardinality(Unreaped') \in Nat  BY <2>3, FS_CardinalityType
  <2>5. Due \in {0, 1, 2} /\ Due' \in {0, 1, 2}  BY DEF Due
  <2>. QED  BY <2>4, <2>5, UnreapedFinite
<1>2. EndsInv'
  BY DEF ShellInv, EndsInv, Pipe
<1>3. failures["second"] \in Nat /\ Cardinality(Unreaped) = failures["second"] + Due
  BY DEF ShellInv, Account, Calls
<1>4. Cardinality(Unreaped') = failures'["second"] + Due'
  BY <1>1, <1>3
<1>5. Cardinality(fds'[SHELL]) = 2 * (failures'["first"] + failures'["second"]) + Owned'
  BY DEF ShellInv, Account, Owned
<1>6. Account'  BY <1>4, <1>5 DEF ShellInv, Account
<1>. QED  BY <1>2, <1>6

(* Two ends of a pipe.                                                     *)
LEMMA TwoEnds ==
    ASSUME NEW n, NEW S, IsFiniteSet(S)
    PROVE  /\ IsFiniteSet(S \cup Ends(n)) /\ IsFiniteSet(S \ Ends(n))
           /\ Ends(n) \cap S = {} => Cardinality(S \cup Ends(n)) = Cardinality(S) + 2
           /\ Ends(n) \subseteq S => Cardinality(S \ Ends(n)) = Cardinality(S) - 2
           /\ Cardinality(S) \in Nat
<1>. DEFINE r == <<n, "read">>
            w == <<n, "write">>
<1>0. r # w /\ Ends(n) = {r, w}  BY DEF Ends
<1>1. /\ IsFiniteSet(S \cup {r}) /\ IsFiniteSet((S \cup {r}) \cup {w})
      /\ IsFiniteSet(S \ {r}) /\ IsFiniteSet((S \ {r}) \ {w}) /\ Cardinality(S) \in Nat
  BY FS_AddElement, FS_RemoveElement, FS_CardinalityType
<1>. HIDE DEF r, w
<1>2. S \cup Ends(n) = (S \cup {r}) \cup {w} /\ S \ Ends(n) = (S \ {r}) \ {w}
  BY <1>0
<1>3. ASSUME Ends(n) \cap S = {}
      PROVE  Cardinality(S \cup Ends(n)) = Cardinality(S) + 2
  <2>1. r \notin S /\ w \notin S \cup {r}  BY <1>0, <1>3
  <2>2. Cardinality(S \cup {r}) = Cardinality(S) + 1  BY <2>1, FS_AddElement
  <2>3. Cardinality((S \cup {r}) \cup {w}) = Cardinality(S \cup {r}) + 1
    BY <1>1, <2>1, FS_AddElement
  <2>4. PICK k \in Nat : k = Cardinality(S)  BY <1>1
  <2>5. (k + 1) + 1 = k + 2  OBVIOUS
  <2>. QED  BY Zenon, <1>2, <2>2, <2>3, <2>4, <2>5
<1>4. ASSUME Ends(n) \subseteq S
      PROVE  Cardinality(S \ Ends(n)) = Cardinality(S) - 2
  <2>1. r \in S /\ w \in S \ {r}  BY <1>0, <1>4
  <2>2. Cardinality(S \ {r}) = Cardinality(S) - 1  BY <2>1, FS_RemoveElement
  <2>3. Cardinality((S \ {r}) \ {w}) = Cardinality(S \ {r}) - 1
    BY <1>1, <2>1, FS_RemoveElement
  <2>4. PICK k \in Nat : k = Cardinality(S)  BY <1>1
  <2>5. (k - 1) - 1 = k - 2  OBVIOUS
  <2>. QED  BY Zenon, <1>2, <2>2, <2>3, <2>4, <2>5
<1>. QED  BY <1>1, <1>2, <1>3, <1>4

(* The types, but those of the history and the directories.                *)
TypesChildren ==
    /\ pc \in {"prompt", "perform", "wait any", "fork first", "fork second", "close",
               "wait first", "wait second", "eof", "ended"}
    /\ line \in Lines /\ p1 \in {SHELL} \cup Children /\ p2 \in {SHELL} \cup Children
    /\ state \in [Children -> {"none", "new", "running", "zombie", "reaped"}]
    /\ fds \in [{SHELL} \cup Children -> SUBSET UNION {Ends(n) : n \in Pipes}]
    /\ content \in [Pipes -> 0 .. PipeSize] /\ todo \in [Children -> 0 .. MaxWrites]

(* A system call that fails.                                               *)
LEMMA Failed ==
    ASSUME failures \in [Calls -> Nat], NEW call \in Calls, Fails(call)
    PROVE  /\ failures' \in [Calls -> Nat] /\ failures'[call] = failures[call] + 1
           /\ \A k \in Calls : k # call => failures'[k] = failures[k]
BY DEF Fails

(* Steps that leave the shell's pipes and children alone.                  *)
LEMMA QuietStep ==
    ASSUME ShellInv,
           \/ read_command \/ EndOfInput \/ Builtin \/ shell_cd \/ UNCHANGED vars
           \/ \E p \in Children : ChildStep(p) \/ LeaveEarly(p)
    PROVE  TypesChildren' /\ ChildrenInv' /\ WaitedFor' /\ EndsInv' /\ Account'
<1>0. /\ TypeOK /\ TypesChildren /\ ChildrenInv /\ EndsInv /\ Account /\ WaitedFor
  BY DEF ShellInv, TypeOK, TypesChildren
<1>1. CASE read_command
  <2>1. /\ UNCHANGED <<p1, p2, childVars, fds, content, failures>> /\ line' \in Lines
        /\ pc = "prompt" /\ pc' = "perform" /\ history_count' = history_count + 1
    BY <1>1 DEF read_command, Goto, add_to_history
  <2>2. TypesChildren' /\ ChildrenInv'
    BY <1>0, <2>1 DEF TypesChildren, ChildrenInv, childVars
  <2>9. WaitedFor'  BY <2>1 DEF WaitedFor
  <2>3. EndsInv'
    <3>1. history_count \in Int
      <4>1. history_count \in 0 .. MaxLines /\ MaxLines \in Nat
        BY ShellAssumption DEF ShellInv, TypeOK
      <4>. QED  BY <4>1
    <3>2. ASSUME NEW n \in Pipes, NEW d \in {"read", "write"}, <<n, d>> \in fds[SHELL]
          PROVE  n <= history_count' /\ n < history_count'
      <4>1. n <= history_count  BY Zenon, <1>0, <3>2 DEF EndsInv
      <4>2. n \in Int
        <5>1. MaxLines \in Nat  BY ShellAssumption
        <5>. QED  BY <5>1 DEF Pipes
      <4>3. history_count' = history_count + 1  BY Zenon, <2>1
      <4>. QED  BY <3>1, <4>1, <4>2, <4>3
    <3>3. fds' = fds /\ ~Piping'  BY <2>1 DEF Piping
    <3>. QED  BY Zenon, <1>0, <3>2, <3>3 DEF EndsInv
  <2>4. Account'
    <3>1. Unreaped' = Unreaped  BY <2>1 DEF Unreaped, childVars
    <3>. QED  BY <1>0, <2>1, <3>1 DEF Account, Due, Owned, Piping
  <2>. QED  BY <2>2, <2>3, <2>4, <2>9
<1>2. CASE EndOfInput \/ Builtin \/ shell_cd \/ UNCHANGED vars
  <2>1. /\ UNCHANGED <<line, p1, p2, childVars, fds, content, failures>>
        /\ history_count' = history_count
        /\ \/ pc' = pc
           \/ pc \in {"prompt", "perform"} /\ pc' \in {"prompt", "eof", "ended"}
    BY <1>2 DEF EndOfInput, Builtin, shell_cd, vars, Goto, historyVars
  <2>2. TypesChildren' /\ ChildrenInv'
    BY <1>0, <2>1 DEF TypesChildren, ChildrenInv, childVars
  <2>9. WaitedFor'  BY <1>0, <2>1 DEF WaitedFor
  <2>3. Unreaped' = Unreaped  BY <2>1 DEF Unreaped, childVars
  <2>4. Due' = Due /\ (Piping' <=> Piping)  BY <2>1 DEF Due, Piping
  <2>5. EndsInv' /\ Account'
    BY <1>0, <2>1, <2>3, <2>4, AccountKept
  <2>. QED  BY <2>2, <2>5, <2>9
<1>3. CASE \E p \in Children : ChildStep(p) \/ LeaveEarly(p)
  <2>1. PICK p \in Children : ChildStep(p) \/ LeaveEarly(p)  BY <1>3
  <2>2. /\ state' \in [Children -> {"none", "new", "running", "zombie", "reaped"}]
        /\ fds' \in [{SHELL} \cup Children -> SUBSET UNION {Ends(m) : m \in Pipes}]
        /\ content' \in [Pipes -> 0 .. PipeSize] /\ todo' \in [Children -> 0 .. MaxWrites]
        /\ ChildrenInv' /\ fds'[SHELL] = fds[SHELL] /\ Unreaped' = Unreaped
        /\ UNCHANGED <<pc, line, p1, p2, historyVars, dirVars, failures>>
    BY <1>0, <2>1, ChildMoves
  <2>3. TypesChildren'  BY <1>0, <2>2 DEF TypesChildren
  <2>9. WaitedFor'  BY <1>0, <2>2 DEF WaitedFor
  <2>4. Due' = Due /\ (Piping' <=> Piping)  BY <2>2 DEF Due, Piping
  <2>5. EndsInv' /\ Account'
    BY <1>0, <2>2, <2>4, AccountKept DEF historyVars
  <2>. QED  BY <2>2, <2>3, <2>5, <2>9
<1>. QED  BY <1>1, <1>2, <1>3

(* Steps that wait for a child.                                            *)
LEMMA WaitStep ==
    ASSUME ShellInv, WaitAny \/ WaitBoth
    PROVE  TypesChildren' /\ ChildrenInv' /\ WaitedFor' /\ EndsInv' /\ Account'
<1>0. TypeOK /\ TypesChildren /\ ChildrenInv /\ WaitedFor  BY DEF ShellInv, TypeOK, TypesChildren
<1>1. /\ UNCHANGED <<line, p1, p2, historyVars, role, pipeOf, todo, fds, content, failures>>
      /\ \/ pc = "wait any" /\ pc' = "prompt"
         \/ pc = "wait first" /\ pc' = "wait second"
         \/ pc = "wait second" /\ pc' = "prompt"
  BY DEF WaitAny, WaitBoth, Goto
<1>2. PICK p \in Children : Reap(p)
  <2>1. CASE WaitAny  BY <2>1 DEF WaitAny
  <2>2. CASE WaitBoth
    <3>1. CASE pc = "wait first" /\ Reap(p1)  BY <1>0, <3>1 DEF WaitedFor
    <3>2. CASE pc = "wait second" /\ Reap(p2)  BY <1>0, <3>2 DEF WaitedFor
    <3>. QED  BY <2>2, <3>1, <3>2 DEF WaitBoth, Goto
  <2>. QED  BY <2>1, <2>2
<1>3. /\ state' \in [Children -> {"none", "new", "running", "zombie", "reaped"}]
      /\ Cardinality(Unreaped') = Cardinality(Unreaped) - 1
  BY <1>0, <1>2, Reaped
<1>4. TypesChildren' /\ ChildrenInv'  BY <1>0, <1>1, <1>3 DEF TypesChildren, ChildrenInv
<1>5. WaitedFor'  BY <1>0, <1>1 DEF WaitedFor
<1>6. Due' = Due - 1 /\ (Piping' <=> Piping) /\ Due \in {1, 2}
  <2>1. ~Piping /\ ~Piping'  BY <1>1 DEF Piping
  <2>2. (Due = 1 /\ Due' = 0) \/ (Due = 2 /\ Due' = 1)  BY <1>1 DEF Due
  <2>. QED  BY <2>1, <2>2
<1>7. Cardinality(Unreaped') - Due' = Cardinality(Unreaped) - Due
  <2>1. PICK u \in Nat, d \in {1, 2} : u = Cardinality(Unreaped) /\ d = Due
    BY <1>6, UnreapedFinite
  <2>2. Cardinality(Unreaped') = u - 1 /\ Due' = d - 1  BY Zenon, <1>3, <1>6, <2>1
  <2>3. (u - 1) - (d - 1) = u - d  BY <2>1
  <2>. QED  BY Zenon, <2>1, <2>2, <2>3
<1>8. EndsInv' /\ Account'
  <2>1. /\ fds'[SHELL] = fds[SHELL] /\ UNCHANGED <<failures, history_count>>
        /\ pc' # "perform" \/ pc' = pc
    BY <1>1 DEF historyVars
  <2>. QED  BY <1>6, <1>7, <2>1, AccountKept
<1>. QED  BY <1>4, <1>5, <1>8

(* Sums the accounts below need.                                           *)
LEMMA Counting ==
    /\ \A f, g \in Nat : /\ 2 * (f + g) + 2 = 2 * ((f + 1) + g) + 0
                         /\ 2 * (f + g) + 2 = 2 * (f + (g + 1)) + 0 /\ g + 1 = (g + 1) + 0
    /\ \A u \in Nat, d \in {0, 1} : (u + 1) - (d + 1) = u - d
    /\ 0 + 1 = 1 /\ 1 + 1 = 2
OBVIOUS

(* A child more, for the line at hand to wait for.                         *)
LEMMA ForkSucceeds ==
    ASSUME ShellInv, NEW p \in Children, NEW r \in {"alone", "left", "right"},
           NEW n \in {0} \cup Pipes, r # "alone" => n \in Pipes, Fork(p, r, n),
           UNCHANGED <<line, content, failures, historyVars>>,
           p1' \in {SHELL} \cup Children, p2' \in {SHELL} \cup Children, WaitedFor',
           \/ pc = "perform" /\ pc' = "wait any"
           \/ pc = "fork first" /\ pc' = "fork second"
           \/ pc = "fork second" /\ pc' = "close"
    PROVE  TypesChildren' /\ ChildrenInv' /\ WaitedFor' /\ EndsInv' /\ Account'
<1>0. TypeOK /\ TypesChildren /\ ChildrenInv  BY DEF ShellInv, TypeOK, TypesChildren
<1>1. /\ state' \in [Children -> {"none", "new", "running", "zombie", "reaped"}]
      /\ fds' \in [{SHELL} \cup Children -> SUBSET UNION {Ends(m) : m \in Pipes}]
      /\ todo' \in [Children -> 0 .. MaxWrites] /\ ChildrenInv'
      /\ fds'[SHELL] = fds[SHELL] /\ Cardinality(Unreaped') = Cardinality(Unreaped) + 1
  BY <1>0, Forked
<1>2. TypesChildren'  BY <1>0, <1>1 DEF TypesChildren
<1>3. Due \in {0, 1} /\ Due' = Due + 1 /\ (Piping' <=> Piping)
  <2>1. (Due = 0 /\ Due' = 1) \/ (Due = 1 /\ Due' = 2)  BY DEF Due
  <2>2. Piping' <=> Piping  BY DEF Piping
  <2>. QED  BY Zenon, <2>1, <2>2, Counting
<1>4. Cardinality(Unreaped') - Due' = Cardinality(Unreaped) - Due
  <2>1. PICK u \in Nat, d \in {0, 1} : u = Cardinality(Unreaped) /\ d = Due
    BY <1>3, UnreapedFinite
  <2>2. Cardinality(Unreaped') = u + 1 /\ Due' = d + 1  BY Zenon, <1>1, <1>3, <2>1
  <2>3. (u + 1) - (d + 1) = u - d  BY Zenon, Counting
  <2>. QED  BY Zenon, <2>1, <2>2, <2>3
<1>5. EndsInv' /\ Account'
  <2>1. UNCHANGED <<failures, history_count>> /\ pc' # "perform"  BY DEF historyVars
  <2>. QED  BY <1>1, <1>3, <1>4, <2>1, AccountKept
<1>. QED  BY <1>1, <1>2, <1>5

(* After a call that failed the shell prompts, and what the line has got   *)
(* by then it keeps.                                                       *)
LEMMA CallFails ==
    ASSUME ShellInv, NEW call \in Calls, Fails(call), pc' = "prompt",
           UNCHANGED <<line, p1, p2, childVars, fds, content, historyVars>>,
           \/ pc = "perform" /\ call \in {"command", "pipe"}
           \/ pc = "fork first" /\ call = "first"
           \/ pc = "fork second" /\ call = "second"
    PROVE  TypesChildren' /\ ChildrenInv' /\ WaitedFor' /\ EndsInv' /\ Account'
<1>0. /\ TypeOK /\ TypesChildren /\ ChildrenInv /\ EndsInv /\ Account
      /\ history_count' = history_count
  BY DEF ShellInv, TypeOK, TypesChildren, historyVars
<1>1. /\ failures' \in [Calls -> Nat] /\ failures'[call] = failures[call] + 1
      /\ \A k \in Calls : k # call => failures'[k] = failures[k]
  BY <1>0, Failed DEF Account
<1>2. TypesChildren' /\ ChildrenInv'  BY <1>0 DEF TypesChildren, ChildrenInv, childVars
<1>3. WaitedFor'  BY DEF WaitedFor
<1>4. EndsInv'
  <2>1. ~Piping' /\ pc' # "perform"  BY DEF Piping
  <2>. QED  BY <1>0, <2>1 DEF EndsInv
<1>5. Account'
  <2>1. Unreaped' = Unreaped  BY DEF Unreaped, childVars
  <2>2. PICK f \in Nat, g \in Nat : f = failures["first"] /\ g = failures["second"]
    BY <1>0 DEF Account, Calls
  <2>3. /\ Cardinality(Unreaped) = g + Due
        /\ Cardinality(fds[SHELL]) = 2 * (f + g) + Owned
    BY Zenon, <1>0, <2>2 DEF Account
  <2>4. Due' = 0 /\ Owned' = 0  BY DEF Due, Owned, Piping
  <2>5. /\ Cardinality(Unreaped') = failures'["second"] + 0
        /\ Cardinality(fds'[SHELL]) = 2 * (failures'["first"] + failures'["second"]) + 0
    <3>1. CASE pc = "perform" /\ call \in {"command", "pipe"}
      <4>1. failures'["first"] = f /\ failures'["second"] = g  BY <1>1, <2>2, <3>1 DEF Calls
      <4>2. Due = 0 /\ Owned = 0  BY <3>1 DEF Due, Owned, Piping
      <4>. QED  BY Zenon, <1>0, <2>1, <2>3, <4>1, <4>2
    <3>2. CASE pc = "fork first" /\ call = "first"
      <4>1. failures'["first"] = f + 1 /\ failures'["second"] = g  BY <1>1, <2>2, <3>2 DEF Calls
      <4>2. Due = 0 /\ Owned = 2  BY <3>2 DEF Due, Owned, Piping
      <4>3. 2 * (f + g) + 2 = 2 * ((f + 1) + g) + 0
        BY Zenon, Counting
      <4>4. Cardinality(Unreaped') = failures'["second"] + 0
        BY Zenon, <2>1, <2>3, <4>1, <4>2
      <4>5. Cardinality(fds'[SHELL]) = 2 * (f + g) + 2  BY Zenon, <2>3, <4>2
      <4>. QED  BY Zenon, <4>1, <4>3, <4>4, <4>5
    <3>3. CASE pc = "fork second" /\ call = "second"
      <4>1. failures'["first"] = f /\ failures'["second"] = g + 1  BY <1>1, <2>2, <3>3 DEF Calls
      <4>2. Due = 1 /\ Owned = 2  BY <3>3 DEF Due, Owned, Piping
      <4>3. 2 * (f + g) + 2 = 2 * (f + (g + 1)) + 0 /\ g + 1 = (g + 1) + 0
        BY Zenon, Counting
      <4>4. Cardinality(Unreaped') = failures'["second"] + 0
        BY Zenon, <2>1, <2>3, <4>1, <4>2, <4>3
      <4>5. Cardinality(fds'[SHELL]) = 2 * (f + g) + 2  BY Zenon, <2>3, <4>2
      <4>. QED  BY Zenon, <4>1, <4>3, <4>4, <4>5
    <3>. QED  BY <3>1, <3>2, <3>3
  <2>. QED  BY Zenon, <1>1, <2>4, <2>5 DEF Account
<1>. QED  BY <1>2, <1>3, <1>4, <1>5

(* The pipe of a line is one of the pipes.                                 *)
LEMMA PipeIsPipe == ASSUME ShellInv, pc = "perform" \/ Piping PROVE Pipe \in Pipes
<1>1. history_count \in 0 .. MaxLines /\ history_count > 0
  BY DEF ShellInv, TypeOK, HistoryInv
<1>2. MaxLines \in Nat  BY ShellAssumption
<1>. QED  BY <1>1, <1>2 DEF Pipe, Pipes

(* Steps that start children.                                              *)
LEMMA ForkStep ==
    ASSUME ShellInv, ForkCommand \/ ForkFirst \/ ForkSecond
    PROVE  TypesChildren' /\ ChildrenInv' /\ WaitedFor' /\ EndsInv' /\ Account'
<1>0. p1 \in {SHELL} \cup Children /\ p2 \in {SHELL} \cup Children /\ WaitedFor
  BY DEF ShellInv, TypeOK
<1>1. CASE ForkCommand
  <2>1. UNCHANGED <<line, p2, historyVars, content>> /\ pc = "perform"  BY <1>1 DEF ForkCommand, Goto
  <2>2. CASE pc' = "wait any" /\ p1' \in Children /\ Fork(p1', "alone", 0) /\ UNCHANGED failures
    <3>1. WaitedFor'  BY <2>2 DEF WaitedFor
    <3>2. PICK p \in Children : p = p1'  BY <2>2
    <3>3. Fork(p, "alone", 0)  BY <2>2, <3>2
    <3>. QED  BY <1>0, <2>1, <2>2, <3>1, <3>3, ForkSucceeds
  <2>3. CASE pc' = "prompt" /\ Fails("command") /\ UNCHANGED <<p1, childVars, fds>>
    BY <2>1, <2>3, CallFails DEF Calls
  <2>. QED  BY <1>1, <2>2, <2>3 DEF ForkCommand, Goto
<1>2. CASE ForkFirst
  <2>1. UNCHANGED <<line, p2, historyVars, content>> /\ pc = "fork first"  BY <1>2 DEF ForkFirst, Goto
  <2>2. CASE pc' = "fork second" /\ p1' \in Children /\ Fork(p1', "left", Pipe) /\ UNCHANGED failures
    <3>1. WaitedFor'  BY <2>2 DEF WaitedFor
    <3>2. PICK p \in Children, n \in Pipes : p = p1' /\ n = Pipe
      BY <2>1, <2>2, PipeIsPipe DEF Piping
    <3>3. Fork(p, "left", n)  BY <2>2, <3>2
    <3>. QED  BY <1>0, <2>1, <2>2, <3>1, <3>3, ForkSucceeds
  <2>3. CASE pc' = "prompt" /\ Fails("first") /\ UNCHANGED <<p1, childVars, fds>>
    BY <2>1, <2>3, CallFails DEF Calls
  <2>. QED  BY <1>2, <2>2, <2>3 DEF ForkFirst, Goto
<1>3. CASE ForkSecond
  <2>1. UNCHANGED <<line, p1, historyVars, content>> /\ pc = "fork second"  BY <1>3 DEF ForkSecond, Goto
  <2>2. CASE pc' = "close" /\ p2' \in Children /\ Fork(p2', "right", Pipe) /\ UNCHANGED failures
    <3>1. WaitedFor'  BY <1>0, <2>1, <2>2 DEF WaitedFor
    <3>2. PICK p \in Children, n \in Pipes : p = p2' /\ n = Pipe
      BY <2>1, <2>2, PipeIsPipe DEF Piping
    <3>3. Fork(p, "right", n)  BY <2>2, <3>2
    <3>. QED  BY <1>0, <2>1, <2>2, <3>1, <3>3, ForkSucceeds
  <2>3. CASE pc' = "prompt" /\ Fails("second") /\ UNCHANGED <<p2, childVars, fds>>
    BY <2>1, <2>3, CallFails DEF Calls
  <2>. QED  BY <1>3, <2>2, <2>3 DEF ForkSecond, Goto
<1>. QED  BY <1>1, <1>2, <1>3

(* Steps that open and close the ends of a pipe.                           *)
LEMMA PipeStep ==
    ASSUME ShellInv, MakePipe \/ CloseEnds
    PROVE  TypesChildren' /\ ChildrenInv' /\ WaitedFor' /\ EndsInv' /\ Account'
<1>0. /\ TypeOK /\ TypesChildren /\ ChildrenInv /\ WaitedFor /\ EndsInv /\ Account
      /\ UNCHANGED <<line, p1, p2, childVars, content, historyVars>>
  BY DEF ShellInv, TypeOK, TypesChildren, MakePipe, CloseEnds
<1>1. /\ UNCHANGED <<state, todo, role, pipeOf, history_count>> /\ Unreaped' = Unreaped
      /\ fds \in [{SHELL} \cup Children -> SUBSET UNION {Ends(m) : m \in Pipes}]
  BY <1>0 DEF childVars, historyVars, Unreaped, TypesChildren
<1>2. ChildrenInv'  BY <1>0, <1>1 DEF ChildrenInv
<1>3. ASSUME NEW S, fds' = [fds EXCEPT ![SHELL] = S], S \subseteq fds[SHELL] \cup Ends(Pipe),
             Pipe \in Pipes
      PROVE  /\ fds' \in [{SHELL} \cup Children -> SUBSET UNION {Ends(m) : m \in Pipes}]
             /\ fds'[SHELL] = S
  <2>1. S \in SUBSET UNION {Ends(m) : m \in Pipes}  BY <1>1, <1>3
  <2>. QED  BY <1>1, <1>3, <2>1
<1>4. CASE MakePipe
  <2>1. pc = "perform"  BY <1>4 DEF MakePipe, Goto
  <2>2. CASE /\ pc' = "fork first" /\ UNCHANGED failures
             /\ fds' = [fds EXCEPT ![SHELL] = fds[SHELL] \cup Ends(Pipe)]
    <3>1. Pipe \in Pipes  BY <2>1, PipeIsPipe
    <3>2. /\ fds' \in [{SHELL} \cup Children -> SUBSET UNION {Ends(m) : m \in Pipes}]
          /\ fds'[SHELL] = fds[SHELL] \cup Ends(Pipe)
      BY <1>3, <2>2, <3>1
    <3>3. Ends(Pipe) \cap fds[SHELL] = {}
      <4>1. ASSUME NEW d \in {"read", "write"}, <<Pipe, d>> \in fds[SHELL] PROVE FALSE
        <5>1. Pipe < history_count  BY Zenon, <1>0, <2>1, <3>1, <4>1 DEF EndsInv
        <5>2. Pipe = history_count /\ history_count \in Int
          <6>1. history_count \in 0 .. MaxLines /\ MaxLines \in Nat
            BY <1>0, ShellAssumption DEF TypeOK
          <6>. QED  BY <6>1 DEF Pipe
        <5>. QED  BY <5>1, <5>2
      <4>. QED  BY <4>1 DEF Ends
    <3>4. TypesChildren'  BY <1>0, <1>1, <2>2, <3>2 DEF TypesChildren
    <3>5. WaitedFor'  BY <2>2 DEF WaitedFor
    <3>6. /\ IsFiniteSet(fds'[SHELL])
          /\ Cardinality(fds'[SHELL]) = Cardinality(fds[SHELL]) + 2
      <4>1. IsFiniteSet(fds[SHELL])  BY <1>0 DEF EndsInv
      <4>2. PICK n, S : n = Pipe /\ S = fds[SHELL]  OBVIOUS
      <4>3. IsFiniteSet(S) /\ Ends(n) \cap S = {} /\ fds'[SHELL] = S \cup Ends(n)
        BY Zenon, <3>2, <3>3, <4>1, <4>2
      <4>4. IsFiniteSet(S \cup Ends(n)) /\ Cardinality(S \cup Ends(n)) = Cardinality(S) + 2
        BY Zenon, <4>3, TwoEnds
      <4>. QED  BY Zenon, <4>2, <4>3, <4>4
    <3>7. EndsInv'
      <4>1. ASSUME NEW n \in Pipes, NEW d \in {"read", "write"}, <<n, d>> \in fds'[SHELL]
            PROVE  n <= history_count
        <5>1. CASE <<n, d>> \in fds[SHELL]  BY Zenon, <1>0, <5>1 DEF EndsInv
        <5>2. CASE <<n, d>> \in Ends(Pipe)
          <6>1. n = history_count  BY <5>2 DEF Ends, Pipe
          <6>2. n \in Int
            <7>1. MaxLines \in Nat  BY ShellAssumption
            <7>. QED  BY <7>1 DEF Pipes
          <6>. QED  BY <6>1, <6>2
        <5>. QED  BY <3>2, <4>1, <5>1, <5>2
      <4>2. Ends(Pipe)' \subseteq fds'[SHELL]  BY <1>1, <3>2 DEF Ends, Pipe
      <4>3. pc' # "perform" /\ history_count' = history_count  BY <1>1, <2>2
      <4>. QED  BY Zenon, <3>6, <4>1, <4>2, <4>3 DEF EndsInv
    <3>8. Account'
      <4>1. Due = 0 /\ Due' = 0 /\ Owned = 0 /\ Owned' = 2  BY <2>1, <2>2 DEF Due, Owned, Piping
      <4>2. PICK f \in Nat, g \in Nat : f = failures["first"] /\ g = failures["second"]
        BY <1>0 DEF Account, Calls
      <4>3. Cardinality(fds[SHELL]) = 2 * (f + g) + 0 /\ Cardinality(Unreaped) = g + 0
        BY Zenon, <1>0, <4>1, <4>2 DEF Account
      <4>4. (2 * (f + g) + 0) + 2 = 2 * (f + g) + 2  OBVIOUS
      <4>5. Cardinality(fds'[SHELL]) = 2 * (f + g) + 2 /\ Cardinality(Unreaped') = g + 0
        BY Zenon, <1>1, <3>6, <4>3, <4>4
      <4>. QED  BY Zenon, <1>0, <2>2, <4>1, <4>2, <4>5 DEF Account
    <3>. QED  BY <1>2, <3>4, <3>5, <3>7, <3>8
  <2>3. CASE pc' = "prompt" /\ Fails("pipe") /\ UNCHANGED fds
    BY <1>0, <2>1, <2>3, CallFails DEF Calls
  <2>. QED  BY <1>4, <2>2, <2>3 DEF MakePipe, Goto
<1>5. CASE CloseEnds
  <2>1. /\ pc = "close" /\ pc' = "wait first" /\ UNCHANGED failures
        /\ fds' = [fds EXCEPT ![SHELL] = fds[SHELL] \ Ends(Pipe)]
    BY <1>5 DEF CloseEnds, Goto
  <2>2. Pipe \in Pipes  BY <2>1, PipeIsPipe DEF Piping
  <2>3. /\ fds' \in [{SHELL} \cup Children -> SUBSET UNION {Ends(m) : m \in Pipes}]
        /\ fds'[SHELL] = fds[SHELL] \ Ends(Pipe)
    BY <1>3, <2>1, <2>2
  <2>4. Ends(Pipe) \subseteq fds[SHELL] /\ IsFiniteSet(fds[SHELL])
    BY <1>0, <2>1 DEF EndsInv, Piping
  <2>5. TypesChildren'  BY <1>0, <1>1, <2>1, <2>3 DEF TypesChildren
  <2>6. WaitedFor'  BY <1>0, <2>1 DEF WaitedFor
  <2>7. /\ IsFiniteSet(fds'[SHELL])
        /\ Cardinality(fds'[SHELL]) = Cardinality(fds[SHELL]) - 2
    <3>1. PICK n, S : n = Pipe /\ S = fds[SHELL]  OBVIOUS
    <3>2. IsFiniteSet(S) /\ Ends(n) \subseteq S /\ fds'[SHELL] = S \ Ends(n)
      BY Zenon, <2>3, <2>4, <3>1
    <3>3. IsFiniteSet(S \ Ends(n)) /\ Cardinality(S \ Ends(n)) = Cardinality(S) - 2
      BY Zenon, <3>2, TwoEnds
    <3>. QED  BY Zenon, <3>1, <3>2, <3>3
  <2>8. EndsInv'
    <3>1. ~Piping' /\ pc' # "perform"  BY <2>1 DEF Piping
    <3>2. \A e : e \in fds'[SHELL] => e \in fds[SHELL]  BY <2>3
    <3>. QED  BY Zenon, <1>0, <1>1, <2>7, <3>1, <3>2 DEF EndsInv
  <2>9. Account'
    <3>1. Due = 2 /\ Due' = 2 /\ Owned = 2 /\ Owned' = 0  BY <2>1 DEF Due, Owned, Piping
    <3>2. PICK f \in Nat, g \in Nat : f = failures["first"] /\ g = failures["second"]
      BY <1>0 DEF Account, Calls
    <3>3. Cardinality(fds[SHELL]) = 2 * (f + g) + 2 /\ Cardinality(Unreaped) = g + 2
      BY Zenon, <1>0, <3>1, <3>2 DEF Account
    <3>4. (2 * (f + g) + 2) - 2 = 2 * (f + g) + 0  OBVIOUS
    <3>5. Cardinality(fds'[SHELL]) = 2 * (f + g) + 0 /\ Cardinality(Unreaped') = g + 2
      BY Zenon, <1>1, <2>7, <3>3, <3>4
    <3>. QED  BY Zenon, <1>0, <2>1, <3>1, <3>2, <3>5 DEF Account
  <2>. QED  BY <1>2, <2>5, <2>6, <2>8, <2>9
<1>. QED  BY <1>4, <1>5

-----------------------------------------------------------------------------
(* The shell's invariant, whatever is typed, fails and runs.               *)
THEOREM ShellInvariant == Spec => []ShellInv
<1>1. Init => ShellInv
  <2>. SUFFICES ASSUME Init PROVE ShellInv  OBVIOUS
  <2>1. /\ MaxWrites \in Nat /\ PipeSize \in Nat /\ MaxLines \in Nat
        /\ INITIAL_CAPACITY \in Nat \ {0} /\ HOME \in Dirs
    BY ShellAssumption
  <2>2. /\ pc = "prompt" /\ line = "nothing" /\ p1 = SHELL /\ p2 = SHELL
        /\ history_count = 0 /\ history_capacity = INITIAL_CAPACITY
        /\ cwd = HOME /\ prev_dir = "" /\ trail = <<HOME>>
        /\ failures = [k \in Calls |-> 0]
    BY DEF Init, Calls
  <2>3. /\ state = [p \in Children |-> "none"] /\ role = [p \in Children |-> "none"]
        /\ pipeOf = [p \in Children |-> 0] /\ todo = [p \in Children |-> 0]
        /\ fds = [p \in {SHELL} \cup Children |-> {}] /\ content = [n \in Pipes |-> 0]
    BY DEF Init
  <2>4. 0 \in 0 .. PipeSize /\ 0 \in 0 .. MaxWrites /\ 0 \in 0 .. MaxLines
    BY <2>1
  <2>5. TypeOK
    <3>1. /\ state \in [Children -> {"none", "new", "running", "zombie", "reaped"}]
          /\ fds \in [{SHELL} \cup Children -> SUBSET UNION {Ends(n) : n \in Pipes}]
          /\ content \in [Pipes -> 0 .. PipeSize] /\ todo \in [Children -> 0 .. MaxWrites]
      BY <2>3, <2>4
    <3>2. history_count \in 0 .. MaxLines /\ history_capacity \in Nat  BY <2>1, <2>2, <2>4
    <3>3. /\ pc \in {"prompt", "perform", "wait any", "fork first", "fork second", "close",
                     "wait first", "wait second", "eof", "ended"}
          /\ line \in Lines /\ p1 \in {SHELL} \cup Children /\ p2 \in {SHELL} \cup Children
          /\ cwd \in Dirs /\ prev_dir \in Dirs \cup {""}
      BY <2>1, <2>2 DEF Lines
    <3>. QED  BY <3>1, <3>2, <3>3 DEF TypeOK
  <2>6. ChildrenInv
    <3>1. /\ role \in [Children -> {"none", "alone", "left", "right"}]
          /\ pipeOf \in [Children -> {0} \cup Pipes]
      BY <2>3
    <3>2. \A p \in Children : role[p] = "none" /\ todo[p] = 0  BY <2>3
    <3>. QED  BY <3>1, <3>2 DEF ChildrenInv
  <2>7. WaitedFor  BY <2>2 DEF WaitedFor
  <2>8. HistoryInv
    <3>1. 0 <= INITIAL_CAPACITY /\ INITIAL_CAPACITY > 0 /\ INITIAL_CAPACITY <= INITIAL_CAPACITY
      <4>1. INITIAL_CAPACITY \in Nat \ {0}  BY Zenon, <2>1
      <4>. QED  BY <4>1
    <3>2. ~Piping /\ pc # "perform"  BY <2>2 DEF Piping
    <3>. QED  BY Zenon, <2>2, <3>1, <3>2 DEF HistoryInv, HistoryFits
  <2>9. DirInv
    <3>1. trail \in Seq(Dirs) /\ Len(trail) = 1 /\ trail[1] = HOME /\ Len(trail) > 0
      <4>1. trail = <<HOME>> /\ HOME \in Dirs  BY Zenon, <2>1, <2>2
      <4>. QED  BY <4>1
    <3>. QED  BY Zenon, <2>2, <3>1 DEF DirInv, PrevIsPrevious, Last
  <2>10. fds[SHELL] = {}  BY <2>3
  <2>11. EndsInv
    <3>1. IsFiniteSet({})  BY FS_EmptySet
    <3>2. ~Piping  BY <2>2 DEF Piping
    <3>. QED  BY Zenon, <2>10, <3>1, <3>2 DEF EndsInv
  <2>12. Account
    <3>1. Unreaped = {}  BY <2>3 DEF Unreaped
    <3>2. Cardinality(Unreaped) = 0 /\ Cardinality(fds[SHELL]) = 0  BY <2>10, <3>1, FS_EmptySet
    <3>3. failures \in [Calls -> Nat] /\ failures["first"] = 0 /\ failures["second"] = 0
      BY <2>2 DEF Calls
    <3>4. Due = 0 /\ Owned = 0  BY <2>2 DEF Due, Owned, Piping
    <3>5. 0 = 0 + 0 /\ 0 = 2 * (0 + 0) + 0  OBVIOUS
    <3>. QED  BY Zenon, <3>2, <3>3, <3>4, <3>5 DEF Account
  <2>. QED  BY <2>5, <2>6, <2>7, <2>8, <2>9, <2>11, <2>12 DEF ShellInv
<1>2. ShellInv /\ [Next]_vars => ShellInv'
  <2>. SUFFICES ASSUME ShellInv, [Next]_vars PROVE ShellInv'  OBVIOUS
  <2>1. /\ HistoryInv' /\ DirInv' /\ history_count' \in 0 .. MaxLines
        /\ history_capacity' \in Nat /\ cwd' \in Dirs /\ prev_dir' \in Dirs \cup {""}
    BY MemoryStep
  <2>2. TypesChildren' /\ ChildrenInv' /\ WaitedFor' /\ EndsInv' /\ Account'
    <3>1. CASE \/ read_command \/ EndOfInput \/ Builtin \/ shell_cd \/ UNCHANGED vars
               \/ \E p \in Children : ChildStep(p) \/ LeaveEarly(p)
      BY <3>1, QuietStep
    <3>2. CASE WaitAny \/ WaitBoth  BY <3>2, WaitStep
    <3>3. CASE ForkCommand \/ ForkFirst \/ ForkSecond  BY <3>3, ForkStep
    <3>4. CASE MakePipe \/ CloseEnds  BY <3>4, PipeStep
    <3>. QED  BY <3>1, <3>2, <3>3, <3>4 DEF Next, ShellStep
  <2>3. TypeOK'  BY <2>1, <2>2 DEF TypeOK, TypesChildren
  <2>. QED  BY <2>1, <2>2, <2>3 DEF ShellInv
<1>. QED  BY <1>1, <1>2, PTL DEF Spec

(* The history stays inside its array, which doubles only when it is full, *)
(* and cd - leads back to where the last successful cd came from, for      *)
(* every number of lines and whichever calls fail.                         *)
THEOREM ShellSound == Spec => []Inv
<1>1. ShellInv => Inv  BY DEF ShellInv, Inv, HistoryInv, DirInv
<1>. QED  BY <1>1, ShellInvariant, PTL

(* When the shell prompts, the children it has not waited for and the ends *)
(* of pipes it has left open are exactly those of pipelines whose fork     *)
(* failed.                                                                 *)
THEOREM ShellBalanced == Spec => []Balanced
<1>1. ShellInv => Balanced
  <2>. SUFFICES ASSUME ShellInv, pc = "prompt"
                PROVE  /\ Cardinality(Unreaped) = failures["second"]
                       /\ Cardinality(fds[SHELL]) = 2 * (failures["first"] + failures["second"])
    BY DEF Balanced
  <2>1. Due = 0 /\ Owned = 0  BY DEF Due, Owned, Piping
  <2>2. PICK f \in Nat, g \in Nat : f = failures["first"] /\ g = failures["second"]
    BY DEF ShellInv, Account, Calls
  <2>3. Cardinality(Unreaped) = g + 0 /\ Cardinality(fds[SHELL]) = 2 * (f + g) + 0
    BY Zenon, <2>1, <2>2 DEF ShellInv, Account
  <2>4. g + 0 = g /\ 2 * (f + g) + 0 = 2 * (f + g)  OBVIOUS
  <2>. QED  BY Zenon, <2>2, <2>3, <2>4
<1>. QED  BY <1>1, ShellInvariant, PTL

-----------------------------------------------------------------------------
(* Who the children are that nobody waits for. Roles are given by fork;    *)
(* pipes of earlier lines have smaller numbers than that of the line at    *)
(* hand; until its second fork succeeds the first child is the only one    *)
(* that has its pipe.                                                      *)
RolesInv ==
    /\ \A p \in Children : /\ state[p] = "none" => role[p] = "none"
                           /\ role[p] \in {"left", "right"} =>
                                 /\ pipeOf[p] <= history_count
                                 /\ pc \in {"perform", "fork first"} => pipeOf[p] < history_count
    /\ pc = "fork second" =>
          /\ role[p1] = "left" /\ pipeOf[p1] = Pipe
          /\ \A q \in Children : role[q] \in {"left", "right"} /\ pipeOf[q] = Pipe => q = p1

(* Children of the pipeline at hand that it will wait for.                 *)
AtHand == IF pc \in {"close", "wait first"} THEN {p1, p2}
          ELSE IF pc = "wait second" THEN {p2} ELSE {}

(* Left behind are commands, orphans, and for a while the line's children. *)
LeftBehind == Unreaped \subseteq Commands \cup Orphans \cup AtHand

(* The first child of a pipeline is an orphan until the second is there.   *)
Unpaired == IF pc = "fork second" THEN 1 ELSE 0

OrphansCounted == Cardinality(Orphans) = failures["second"] + Unpaired

OrphanInv == RolesInv /\ LeftBehind /\ OrphansCounted

LEMMA OrphansFinite == IsFiniteSet(Orphans) /\ Cardinality(Orphans) \in Nat
<1>1. IsFiniteSet(Children)
  <2>1. MaxLines \in Nat  BY ShellAssumption
  <2>2. 1 \in Int /\ 2 * MaxLines \in Int  BY <2>1
  <2>. QED  BY <2>2, FS_Interval DEF Children
<1>2. Orphans \in SUBSET Children  BY DEF Orphans
<1>. QED  BY <1>1, <1>2, FS_Subset, FS_CardinalityType

(* Lines and pipes are numbers.                                            *)
LEMMA Numbered ==
    ASSUME ShellInv
    PROVE  /\ history_count \in Int /\ \A p \in Children : pipeOf[p] \in Int
           /\ \A n, k \in Int : n <= k => n <= k + 1 /\ n < k + 1
<1>1. MaxLines \in Nat  BY ShellAssumption
<1>2. pipeOf \in [Children -> {0} \cup Pipes] /\ history_count \in 0 .. MaxLines
  BY DEF ShellInv, ChildrenInv, TypeOK
<1>3. \A n \in {0} \cup Pipes : n \in Int  BY <1>1 DEF Pipes
<1>4. \A n \in 0 .. MaxLines : n \in Int  BY <1>1
<1>5. \A n, k \in Int : n <= k => n <= k + 1 /\ n < k + 1  OBVIOUS
<1>. QED  BY <1>2, <1>3, <1>4, <1>5

(* Steps that fork nobody change no role, and what they leave behind was   *)
(* there before.                                                           *)
LEMMA RolesKept ==
    ASSUME ShellInv, OrphanInv, UNCHANGED <<role, pipeOf>>,
           \A p \in Children : state'[p] = "none" => state[p] = "none",
           \/ history_count' = history_count
              /\ (pc' \in {"perform", "fork first"} => pc \in {"perform", "fork first"})
           \/ history_count' = history_count + 1 /\ pc' = "perform",
           pc' = "fork second" => UNCHANGED <<pc, p1, history_count>>,
           failures'["second"] + Unpaired' = failures["second"] + Unpaired,
           Unreaped' \subseteq Commands \cup Orphans \cup AtHand'
    PROVE  OrphanInv'
<1>1. Commands' = Commands /\ Orphans' = Orphans  BY DEF Commands, Orphans
<1>2. \A p \in Children : role[p] \in {"left", "right"} =>
         /\ pipeOf[p] <= history_count'
         /\ pc' \in {"perform", "fork first"} => pipeOf[p] < history_count'
  <2>. SUFFICES ASSUME NEW p \in Children, role[p] \in {"left", "right"}
                PROVE  /\ pipeOf[p] <= history_count'
                       /\ pc' \in {"perform", "fork first"} => pipeOf[p] < history_count'
    OBVIOUS
  <2>1. /\ pipeOf[p] <= history_count
        /\ pc \in {"perform", "fork first"} => pipeOf[p] < history_count
    BY DEF OrphanInv, RolesInv
  <2>2. pipeOf[p] <= history_count + 1 /\ pipeOf[p] < history_count + 1
    BY Zenon, <2>1, Numbered
  <2>. QED  BY Zenon, <2>1, <2>2
<1>3. RolesInv'  BY <1>2 DEF OrphanInv, RolesInv, Pipe
<1>4. LeftBehind'  BY <1>1 DEF LeftBehind
<1>5. OrphansCounted'  BY <1>1 DEF OrphanInv, OrphansCounted
<1>. QED  BY <1>3, <1>4, <1>5 DEF OrphanInv

(* Steps of the shell alone, and of a child.                               *)
LEMMA OrphanQuiet ==
    ASSUME ShellInv, OrphanInv,
           \/ read_command \/ EndOfInput \/ Builtin \/ shell_cd \/ MakePipe \/ CloseEnds
           \/ UNCHANGED vars \/ \E p \in Children : ChildStep(p) \/ LeaveEarly(p)
    PROVE  OrphanInv'
<1>0. LeftBehind /\ TypeOK /\ ChildrenInv /\ failures \in [Calls -> Nat]
  BY DEF OrphanInv, ShellInv, Account
<1>1. CASE read_command
  <2>1. /\ UNCHANGED <<childVars, failures>> /\ pc = "prompt" /\ pc' = "perform"
        /\ history_count' = history_count + 1
    BY <1>1 DEF read_command, Goto, add_to_history
  <2>2. Unreaped' = Unreaped /\ AtHand = {} /\ Unpaired' = Unpaired
    BY <2>1 DEF Unreaped, childVars, AtHand, Unpaired
  <2>. QED  BY <1>0, <2>1, <2>2, RolesKept DEF LeftBehind, childVars
<1>2. CASE EndOfInput \/ Builtin \/ shell_cd \/ MakePipe
  <2>1. /\ UNCHANGED <<childVars, history_count>> /\ pc \in {"prompt", "perform"}
        /\ \/ pc' \in {"prompt", "eof", "ended"}
           \/ pc = "perform" /\ pc' = "fork first"
    BY <1>2 DEF EndOfInput, Builtin, shell_cd, MakePipe, Goto, historyVars
  <2>2. failures'["second"] = failures["second"]
    BY <1>0, <1>2, Failed DEF EndOfInput, Builtin, shell_cd, MakePipe, Calls
  <2>3. Unreaped' = Unreaped /\ AtHand = {} /\ AtHand' = {} /\ Unpaired' = Unpaired
    BY <2>1 DEF Unreaped, childVars, AtHand, Unpaired
  <2>. QED  BY <1>0, <2>1, <2>2, <2>3, RolesKept DEF LeftBehind, childVars
<1>3. CASE CloseEnds
  <2>1. /\ UNCHANGED <<childVars, history_count, p1, p2, failures>>
        /\ pc = "close" /\ pc' = "wait first"
    BY <1>3 DEF CloseEnds, Goto, historyVars
  <2>2. Unreaped' = Unreaped /\ AtHand' = AtHand /\ Unpaired' = Unpaired
    BY <2>1 DEF Unreaped, childVars, AtHand, Unpaired
  <2>. QED  BY <1>0, <2>1, <2>2, RolesKept DEF LeftBehind, childVars
<1>4. CASE UNCHANGED vars
  <2>1. UNCHANGED <<pc, p1, p2, childVars, history_count, failures>>
    BY <1>4 DEF vars, historyVars
  <2>2. Unreaped' = Unreaped /\ AtHand' = AtHand /\ Unpaired' = Unpaired
    BY <2>1 DEF Unreaped, childVars, AtHand, Unpaired
  <2>. QED  BY <1>0, <2>1, <2>2, RolesKept DEF LeftBehind, childVars
<1>5. CASE \E p \in Children : ChildStep(p) \/ LeaveEarly(p)
  <2>1. PICK p \in Children : ChildStep(p) \/ LeaveEarly(p)  BY <1>5
  <2>2. Unreaped' = Unreaped /\ UNCHANGED <<pc, line, p1, p2, historyVars, dirVars, failures>>
    BY <1>0, <2>1, ChildMoves
  <2>3. UNCHANGED <<role, pipeOf>>
    BY <2>1 DEF ChildStep, LeaveEarly, SetUp, Write, Read, Exit, childVars
  <2>4. \A q \in Children : state'[q] = "none" => state[q] = "none"
    BY <1>0, <2>1 DEF ChildStep, LeaveEarly, SetUp, Write, Read, Exit, childVars, TypeOK
  <2>5. AtHand' = AtHand /\ Unpaired' = Unpaired  BY <2>2 DEF AtHand, Unpaired
  <2>. QED  BY <1>0, <2>2, <2>3, <2>4, <2>5, RolesKept DEF LeftBehind, historyVars
<1>. QED  BY <1>1, <1>2, <1>3, <1>4, <1>5

(* A pipeline waits for its own two children, whoever else has ended.      *)
LEMMA OrphanWait == ASSUME ShellInv, OrphanInv, WaitAny \/ WaitBoth PROVE OrphanInv'
<1>0. LeftBehind /\ WaitedFor /\ state \in [Children -> {"none", "new", "running", "zombie", "reaped"}]
  BY DEF OrphanInv, ShellInv, TypeOK
<1>1. /\ UNCHANGED <<p1, p2, role, pipeOf, failures, history_count>>
      /\ pc \notin {"fork second"} /\ pc' \in {"prompt", "wait second"}
  BY DEF WaitAny, WaitBoth, Goto, historyVars
<1>2. Unpaired' = Unpaired  BY <1>1 DEF Unpaired
<1>3. CASE WaitAny
  <2>1. PICK p \in Children : state' = [state EXCEPT ![p] = "reaped"]  BY <1>3 DEF WaitAny, Reap
  <2>2. pc = "wait any" /\ pc' = "prompt"  BY <1>3 DEF WaitAny, Goto
  <2>3. Unreaped' \subseteq Unreaped /\ \A q \in Children : state'[q] = "none" => state[q] = "none"
    BY <1>0, <2>1 DEF Unreaped
  <2>4. AtHand = {} /\ AtHand' = {}  BY <2>2 DEF AtHand
  <2>. QED  BY <1>0, <1>1, <1>2, <2>3, <2>4, RolesKept DEF LeftBehind
<1>4. CASE WaitBoth
  <2>1. PICK p \in Children : /\ state' = [state EXCEPT ![p] = "reaped"]
                              /\ \/ pc = "wait first" /\ pc' = "wait second" /\ p = p1
                                 \/ pc = "wait second" /\ pc' = "prompt" /\ p = p2
    BY <1>0, <1>4 DEF WaitBoth, Goto, Reap, WaitedFor
  <2>2. /\ Unreaped' \subseteq Unreaped \ {p}
        /\ \A q \in Children : state'[q] = "none" => state[q] = "none"
    BY <1>0, <2>1 DEF Unreaped
  <2>3. AtHand \subseteq AtHand' \cup {p}  BY <1>1, <2>1 DEF AtHand
  <2>. QED  BY <1>0, <1>1, <1>2, <2>2, <2>3, RolesKept DEF LeftBehind
<1>. QED  BY <1>3, <1>4

(* A new child is a command, an orphan for the time being, or the partner  *)
(* of the orphan of this line.                                             *)
LEMMA OrphanFork ==
    ASSUME ShellInv, OrphanInv, ForkCommand \/ ForkFirst \/ ForkSecond PROVE OrphanInv'
<1>0. /\ LeftBehind /\ RolesInv /\ OrphansCounted /\ WaitedFor
      /\ failures \in [Calls -> Nat] /\ failures["second"] \in Nat
      /\ state \in [Children -> {"none", "new", "running", "zombie", "reaped"}]
      /\ role \in [Children -> {"none", "alone", "left", "right"}]
      /\ pipeOf \in [Children -> {0} \cup Pipes]
  BY DEF OrphanInv, ShellInv, TypeOK, ChildrenInv, Account, Calls
<1>1. history_count' = history_count /\ history_count \in Int /\ Pipe' = Pipe /\ Pipe = history_count
  <2>1. history_count \in 0 .. MaxLines /\ MaxLines \in Nat
    BY ShellAssumption DEF ShellInv, TypeOK
  <2>2. history_count' = history_count  BY DEF ForkCommand, ForkFirst, ForkSecond, historyVars
  <2>. QED  BY <2>1, <2>2 DEF Pipe
<1>2. ASSUME NEW p \in Children, NEW r \in {"alone", "left", "right"}, NEW n, Fork(p, r, n)
      PROVE  /\ state[p] = "none" /\ role[p] = "none"
             /\ \A q \in Children : /\ q = p => role'[q] = r /\ pipeOf'[q] = n /\ state'[q] = "new"
                                    /\ q # p => /\ role'[q] = role[q] /\ pipeOf'[q] = pipeOf[q]
                                                /\ state'[q] = state[q]
             /\ Unreaped' = Unreaped \cup {p}
  <2>1. /\ state[p] = "none" /\ state' = [state EXCEPT ![p] = "new"]
        /\ role' = [role EXCEPT ![p] = r] /\ pipeOf' = [pipeOf EXCEPT ![p] = n]
    BY <1>2 DEF Fork
  <2>2. role[p] = "none"  BY <1>0, <2>1 DEF RolesInv
  <2>3. \A q \in Children : /\ q = p => role'[q] = r /\ pipeOf'[q] = n /\ state'[q] = "new"
                            /\ q # p => /\ role'[q] = role[q] /\ pipeOf'[q] = pipeOf[q]
                                        /\ state'[q] = state[q]
    BY <1>0, <2>1
  <2>4. Unreaped' = Unreaped \cup {p}  BY <2>3 DEF Unreaped
  <2>. QED  BY <2>1, <2>2, <2>3, <2>4
<1>3. ASSUME NEW call \in {"command", "first", "second"}, Fails(call), UNCHANGED <<p1, p2, childVars>>,
             \/ pc = "perform" /\ call = "command"
             \/ pc = "fork first" /\ call = "first"
             \/ pc = "fork second" /\ call = "second",
             pc' = "prompt"
      PROVE  OrphanInv'
  <2>1. /\ failures'[call] = failures[call] + 1
        /\ \A k \in Calls : k # call => failures'[k] = failures[k]
    BY <1>0, <1>3, Failed DEF Calls
  <2>2. failures'["second"] + Unpaired' = failures["second"] + Unpaired
    <3>1. PICK g \in Nat : g = failures["second"]  BY <1>0
    <3>2. CASE call = "second"
      <4>1. failures'["second"] = g + 1 /\ Unpaired = 1 /\ Unpaired' = 0
        BY <1>3, <2>1, <3>1, <3>2 DEF Unpaired
      <4>. QED  BY <3>1, <4>1
    <3>3. CASE call # "second"
      <4>1. failures'["second"] = g /\ Unpaired = 0 /\ Unpaired' = 0
        BY <1>3, <2>1, <3>1, <3>3 DEF Unpaired, Calls
      <4>. QED  BY <3>1, <4>1
    <3>. QED  BY <3>2, <3>3
  <2>3. Unreaped' = Unreaped /\ AtHand = {} /\ AtHand' = {}
    BY <1>3 DEF Unreaped, childVars, AtHand
  <2>. QED  BY <1>0, <1>1, <1>3, <2>2, <2>3, RolesKept DEF LeftBehind, childVars
<1>4. CASE ForkCommand
  <2>1. CASE Goto("perform", "wait any") /\ p1' \in Children /\ Fork(p1', "alone", 0) /\ UNCHANGED failures
    <3>1. PICK p \in Children : p = p1'  BY <2>1
    <3>0. Fork(p, "alone", 0)  BY <2>1, <3>1
    <3>2. /\ role[p] = "none" /\ Unreaped' = Unreaped \cup {p}
          /\ \A q \in Children : /\ q = p => role'[q] = "alone" /\ state'[q] = "new"
                                 /\ q # p => /\ role'[q] = role[q] /\ pipeOf'[q] = pipeOf[q]
                                             /\ state'[q] = state[q]
      BY <1>2, <3>0
    <3>3. pc = "perform" /\ pc' = "wait any"  BY <2>1 DEF Goto
    <3>4. RolesInv'  BY <1>0, <1>1, <3>2, <3>3 DEF RolesInv
    <3>5. Orphans' = Orphans /\ Commands' = Commands \cup {p}
      BY <3>2 DEF Orphans, Commands
    <3>6. LeftBehind'  BY <1>0, <3>2, <3>3, <3>5 DEF LeftBehind, AtHand
    <3>7. OrphansCounted'  BY <1>0, <2>1, <3>3, <3>5 DEF OrphansCounted, Unpaired
    <3>. QED  BY <3>4, <3>6, <3>7 DEF OrphanInv
  <2>2. CASE Goto("perform", "prompt") /\ Fails("command") /\ UNCHANGED <<p1, childVars, fds>>
    BY <1>3, <1>4, <2>2 DEF ForkCommand, Goto
  <2>. QED  BY <1>4, <2>1, <2>2 DEF ForkCommand
<1>5. CASE ForkFirst
  <2>1. CASE Goto("fork first", "fork second") /\ p1' \in Children /\ Fork(p1', "left", Pipe)
             /\ UNCHANGED failures
    <3>1. PICK p \in Children : p = p1'  BY <2>1
    <3>0. Fork(p, "left", Pipe)  BY <2>1, <3>1
    <3>2. /\ role[p] = "none" /\ Unreaped' = Unreaped \cup {p}
          /\ \A q \in Children : /\ q = p => role'[q] = "left" /\ pipeOf'[q] = Pipe /\ state'[q] = "new"
                                 /\ q # p => /\ role'[q] = role[q] /\ pipeOf'[q] = pipeOf[q]
                                             /\ state'[q] = state[q]
      BY <1>2, <3>0
    <3>3. pc = "fork first" /\ pc' = "fork second"  BY <2>1 DEF Goto
    <3>4. \A q \in Children : role[q] \in {"left", "right"} => pipeOf[q] < Pipe /\ pipeOf[q] # Pipe
      <4>. SUFFICES ASSUME NEW q \in Children, role[q] \in {"left", "right"}
                    PROVE  pipeOf[q] < Pipe /\ pipeOf[q] # Pipe
        OBVIOUS
      <4>1. pipeOf[q] < Pipe  BY <1>0, <1>1, <3>3 DEF RolesInv
      <4>. QED  BY <1>1, <4>1
    <3>5. RolesInv'
      <4>1. \A q \in Children : /\ state'[q] = "none" => role'[q] = "none"
                                /\ role'[q] \in {"left", "right"} => pipeOf'[q] <= history_count'
        <5>. SUFFICES ASSUME NEW q \in Children
                      PROVE  /\ state'[q] = "none" => role'[q] = "none"
                             /\ role'[q] \in {"left", "right"} => pipeOf'[q] <= history_count'
          OBVIOUS
        <5>1. CASE q = p  BY <1>1, <3>2, <5>1
        <5>2. CASE q # p  BY <1>0, <1>1, <3>2, <5>2 DEF RolesInv
        <5>. QED  BY <5>1, <5>2
      <4>2. /\ role'[p] = "left" /\ pipeOf'[p] = Pipe
            /\ \A q \in Children : role'[q] \in {"left", "right"} /\ pipeOf'[q] = Pipe => q = p
        BY <3>2, <3>4
      <4>. QED  BY <1>1, <3>1, <3>3, <4>1, <4>2 DEF RolesInv
    <3>6. Orphans' = Orphans \cup {p} /\ p \notin Orphans /\ Commands' = Commands
      BY <3>2, <3>4 DEF Orphans, Commands
    <3>7. LeftBehind'  BY <1>0, <3>2, <3>3, <3>6 DEF LeftBehind, AtHand
    <3>8. OrphansCounted'
      <4>1. Cardinality(Orphans') = Cardinality(Orphans) + 1
        BY <3>6, OrphansFinite, FS_AddElement
      <4>2. PICK g \in Nat : g = failures["second"]  BY <1>0
      <4>3. Cardinality(Orphans) = g + 0 /\ Unpaired' = 1 /\ failures'["second"] = g
        <5>1. Unpaired = 0 /\ Unpaired' = 1  BY <3>3 DEF Unpaired
        <5>. QED  BY Zenon, <1>0, <2>1, <4>2, <5>1 DEF OrphansCounted
      <4>4. (g + 0) + 1 = g + 1  BY <4>2
      <4>. QED  BY Zenon, <4>1, <4>3, <4>4 DEF OrphansCounted
    <3>. QED  BY <3>5, <3>7, <3>8 DEF OrphanInv
  <2>2. CASE Goto("fork first", "prompt") /\ Fails("first") /\ UNCHANGED <<p1, childVars, fds>>
    BY <1>3, <1>5, <2>2 DEF ForkFirst, Goto
  <2>. QED  BY <1>5, <2>1, <2>2 DEF ForkFirst
<1>6. CASE ForkSecond
  <2>1. CASE Goto("fork second", "close") /\ p2' \in Children /\ Fork(p2', "right", Pipe)
             /\ UNCHANGED failures
    <3>1. PICK p \in Children : p = p2'  BY <2>1
    <3>0. Fork(p, "right", Pipe)  BY <2>1, <3>1
    <3>2. /\ role[p] = "none" /\ Unreaped' = Unreaped \cup {p}
          /\ \A q \in Children : /\ q = p => role'[q] = "right" /\ pipeOf'[q] = Pipe /\ state'[q] = "new"
                                 /\ q # p => /\ role'[q] = role[q] /\ pipeOf'[q] = pipeOf[q]
                                             /\ state'[q] = state[q]
      BY <1>2, <3>0
    <3>3. pc = "fork second" /\ pc' = "close" /\ p1 \in Children /\ p1' = p1
      BY <1>0, <1>6, <2>1 DEF Goto, WaitedFor, ForkSecond
    <3>4. /\ role[p1] = "left" /\ pipeOf[p1] = Pipe
          /\ \A q \in Children : role[q] \in {"left", "right"} /\ pipeOf[q] = Pipe => q = p1
      BY <1>0, <3>3 DEF RolesInv
    <3>5. RolesInv'
      <4>1. \A q \in Children : /\ state'[q] = "none" => role'[q] = "none"
                                /\ role'[q] \in {"left", "right"} => pipeOf'[q] <= history_count'
        <5>. SUFFICES ASSUME NEW q \in Children
                      PROVE  /\ state'[q] = "none" => role'[q] = "none"
                             /\ role'[q] \in {"left", "right"} => pipeOf'[q] <= history_count'
          OBVIOUS
        <5>1. CASE q = p  BY <1>1, <3>2, <5>1
        <5>2. CASE q # p  BY <1>0, <1>1, <3>2, <5>2 DEF RolesInv
        <5>. QED  BY <5>1, <5>2
      <4>. QED  BY <3>3, <4>1 DEF RolesInv
    <3>6. Orphans' = Orphans \ {p1} /\ p1 \in Orphans /\ Commands' = Commands
      <4>1. p1 \in Orphans  BY <3>3, <3>4 DEF Orphans
      <4>2. Commands' = Commands  BY <3>2 DEF Commands
      <4>3. ASSUME NEW q \in Children PROVE q \in Orphans' <=> q \in Orphans /\ q # p1
        <5>1. CASE q = p1
          <6>1. role'[p] = "right" /\ pipeOf'[p] = Pipe /\ pipeOf'[q] = Pipe
            BY <3>2, <3>4, <5>1
          <6>. QED  BY <5>1, <6>1 DEF Orphans
        <5>2. CASE q # p1  BY <3>2, <3>4, <5>2 DEF Orphans
        <5>. QED  BY <5>1, <5>2
      <4>4. Orphans \subseteq Children /\ Orphans' \subseteq Children  BY DEF Orphans
      <4>. QED  BY <4>1, <4>2, <4>3, <4>4
    <3>7. LeftBehind'
      <4>1. AtHand = {} /\ AtHand' = {p1, p}  BY <3>1, <3>3 DEF AtHand
      <4>. QED  BY <1>0, <3>2, <3>6, <4>1 DEF LeftBehind
    <3>8. OrphansCounted'
      <4>1. Cardinality(Orphans') = Cardinality(Orphans) - 1
        BY <3>6, OrphansFinite, FS_RemoveElement
      <4>2. PICK g \in Nat : g = failures["second"]  BY <1>0
      <4>3. Cardinality(Orphans) = g + 1 /\ Unpaired' = 0 /\ failures'["second"] = g
        <5>1. Unpaired = 1 /\ Unpaired' = 0  BY <3>3 DEF Unpaired
        <5>. QED  BY Zenon, <1>0, <2>1, <4>2, <5>1 DEF OrphansCounted
      <4>4. (g + 1) - 1 = g + 0  BY <4>2
      <4>. QED  BY Zenon, <4>1, <4>3, <4>4 DEF OrphansCounted
    <3>. QED  BY <3>5, <3>7, <3>8 DEF OrphanInv
  <2>2. CASE Goto("fork second", "prompt") /\ Fails("second") /\ UNCHANGED <<p2, childVars, fds>>
    BY <1>3, <1>6, <2>2 DEF ForkSecond, Goto
  <2>. QED  BY <1>6, <2>1, <2>2 DEF ForkSecond
<1>. QED  BY <1>4, <1>5, <1>6

(* When the shell prompts while a command still runs, wait(NULL) has       *)
(* returned with an orphan of a failed second fork instead, once for each  *)
(* such command; what a pipeline that got both its children waits for are  *)
(* these two, for any number of lines and whichever calls fail.            *)
THEOREM ShellEarlyOnlyForOrphans == Spec => []EarlyOnlyForOrphans
<1>1. Init => OrphanInv
  <2>. SUFFICES ASSUME Init PROVE OrphanInv  OBVIOUS
  <2>1. /\ pc = "prompt" /\ failures["second"] = 0
        /\ \A p \in Children : state[p] = "none" /\ role[p] = "none"
    BY DEF Init
  <2>2. Unreaped = {} /\ Orphans = {}  BY <2>1 DEF Unreaped, Orphans
  <2>3. RolesInv /\ LeftBehind  BY <2>1, <2>2 DEF RolesInv, LeftBehind
  <2>4. OrphansCounted  BY <2>1, <2>2, FS_EmptySet DEF OrphansCounted, Unpaired
  <2>. QED  BY <2>3, <2>4 DEF OrphanInv
<1>2. ShellInv /\ OrphanInv /\ [Next]_vars => OrphanInv'
  BY OrphanQuiet, OrphanWait, OrphanFork DEF Next, ShellStep
<1>3. ShellInv /\ Balanced /\ OrphanInv => EarlyOnlyForOrphans
  <2>. SUFFICES ASSUME ShellInv, Balanced, OrphanInv, pc = "prompt"
                PROVE  /\ Unreaped \subseteq Commands \cup Orphans
                       /\ Cardinality(Unreaped \cap Commands) = Cardinality(Orphans \ Unreaped)
    BY DEF EarlyOnlyForOrphans
  <2>1. Unreaped \subseteq Commands \cup Orphans  BY DEF OrphanInv, LeftBehind, AtHand
  <2>2. Unreaped \cap Commands = Unreaped \ Orphans  BY <2>1 DEF Commands, Orphans
  <2>3. failures["second"] \in Nat  BY DEF ShellInv, Account, Calls
  <2>4. Cardinality(Orphans) = Cardinality(Unreaped)
    BY <2>3 DEF Balanced, OrphanInv, OrphansCounted, Unpaired
  <2>5. /\ Cardinality(Unreaped \ Orphans) = Cardinality(Unreaped) - Cardinality(Unreaped \cap Orphans)
        /\ Cardinality(Orphans \ Unreaped) = Cardinality(Orphans) - Cardinality(Orphans \cap Unreaped)
    BY UnreapedFinite, OrphansFinite, FS_Difference
  <2>6. Unreaped \cap Orphans = Orphans \cap Unreaped  OBVIOUS
  <2>. QED  BY Zenon, <2>1, <2>2, <2>4, <2>5, <2>6
<1>. QED  BY <1>1, <1>2, <1>3, ShellInvariant, ShellBalanced, PTL DEF Spec
=============================================================================
