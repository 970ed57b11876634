------------------------ MODULE ReplacementPolicies -------------------------
(***************************************************************************)
(* Four replacement policies by their definitions: "the oldest entry",     *)
(* "the most recent entry", the least recently used one, and the one "that *)
(* will not be used for the longest time in the future" is replaced. order *)
(* lists the pages in the buffer by the time they were brought in or, for  *)
(* the last two policies, by the time of their last use.                   *)
(***************************************************************************)
EXTENDS Naturals, SequencesExt

Policies == <<"FIFO", "LIFO", "LRU", "Optimal">>

VARIABLES K, addresses, turn, i, order, hits

vars == <<K, addresses, turn, i, order, hits>>

Ahead(p) == {j \in DOMAIN addresses : j >= i /\ addresses[j] = p}

(* v is not used again, or not before every other page is.                 *)
LongestUnused(v) == \A w \in ToSet(order) \ {v} :
    Ahead(v) # {} => \E j \in Ahead(w) : \A k \in Ahead(v) : j < k

(* The places in the order from which an entry may be taken.               *)
Victims == {k \in DOMAIN order :
               CASE Policies[turn] \in {"FIFO", "LRU"} -> k = 1
                 [] Policies[turn] = "LIFO"            -> k = Len(order)
                 [] Policies[turn] = "Optimal"         -> LongestUnused(order[k])}

Init == turn = 1 /\ i = 0 /\ order = <<>> /\ hits = [t \in 1 .. 4 |-> 0]

Hit(p) == /\ \E k \in DOMAIN order :
                /\ order[k] = p
                /\ order' = IF Policies[turn] \in {"FIFO", "LIFO"} THEN order
                            ELSE Append(RemoveAt(order, k), p)
          /\ hits' = [hits EXCEPT ![turn] = @ + 1]

Miss(p) == /\ p \notin ToSet(order)
           /\ IF Len(order) < K THEN order' = Append(order, p)
              ELSE \E k \in Victims : order' = Append(RemoveAt(order, k), p)
           /\ UNCHANGED hits

Access == /\ i \in DOMAIN addresses /\ i' = i + 1
          /\ Hit(addresses[i]) \/ Miss(addresses[i])
          /\ UNCHANGED <<K, addresses, turn>>

(* The next policy starts with an empty buffer.                            *)
Switch == /\ i \notin DOMAIN addresses /\ turn' = turn + 1
          /\ i' = 0 /\ order' = <<>>
          /\ UNCHANGED <<K, addresses, hits>>

Next == turn <= Len(Policies) /\ (Access \/ Switch)

Spec == Init /\ [][Next]_vars
=============================================================================
