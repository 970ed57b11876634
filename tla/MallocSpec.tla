----------------------------- MODULE MallocSpec -----------------------------
(***************************************************************************)
(* What a caller of malloc and free relies on: each block is a range of    *)
(* addresses of its own, which stays as it is until it is given back.      *)
(***************************************************************************)
EXTENDS Integers

CONSTANT Addresses

VARIABLE blocks      \* size of each block in use, by its address

Room(p, n) == p .. p + n - 1

Init == blocks = [p \in {} |-> 0]

Malloc(p) == /\ p \notin DOMAIN blocks /\ DOMAIN blocks' = DOMAIN blocks \cup {p}
             /\ Room(p, blocks'[p]) \subseteq Addresses /\ blocks'[p] > 0
             /\ \A q \in DOMAIN blocks :
                   /\ Room(p, blocks'[p]) \cap Room(q, blocks[q]) = {}
                   /\ blocks'[q] = blocks[q]

Free(p) == p \in DOMAIN blocks /\ blocks' = [q \in DOMAIN blocks \ {p} |-> blocks[q]]

Next == \E p \in Addresses : Malloc(p) \/ Free(p)

Spec == Init /\ [][Next]_blocks
=============================================================================
