--------------------------- MODULE ReadersWriters ---------------------------
(***************************************************************************)
(* What both reader-writer programs promise whatever their preference:     *)
(* every thread enters once and leaves, readers share, a writer is alone,  *)
(* and the number a thread reports from inside is the number of readers    *)
(* that are inside at that moment.                                         *)
(***************************************************************************)
EXTENDS Integers, FiniteSets

CONSTANTS Readers, Writers

VARIABLES inside, gone, reported

vars == <<inside, gone, reported>>

Threads == Readers \cup Writers

Init == /\ inside = {} /\ gone = {}
        /\ reported = [t \in Threads |-> -1]

Enter(t) == /\ t \notin inside \cup gone
            /\ inside' = inside \cup {t}
            /\ UNCHANGED <<gone, reported>>

StartRead(r) == inside \cap Writers = {} /\ Enter(r)

StartWrite(w) == inside = {} /\ Enter(w)

Report(t) == /\ t \in inside /\ reported[t] = -1
             /\ reported' = [reported EXCEPT ![t] = Cardinality(inside \cap Readers)]
             /\ UNCHANGED <<inside, gone>>

Leave(t) == /\ t \in inside
            /\ inside' = inside \ {t} /\ gone' = gone \cup {t}
            /\ UNCHANGED reported

Next == \/ \E r \in Readers : StartRead(r)
        \/ \E w \in Writers : StartWrite(w)
        \/ \E t \in Threads : Report(t) \/ Leave(t)

(* Every thread gets in and out; whether it reports is left open.          *)
Spec == /\ Init /\ [][Next]_vars
        /\ \A r \in Readers : WF_vars(StartRead(r) \/ Leave(r))
        /\ \A w \in Writers : WF_vars(StartWrite(w) \/ Leave(w))
=============================================================================
