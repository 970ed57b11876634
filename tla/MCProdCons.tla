----------------------------- MODULE MCProdCons -----------------------------
(* Model-checking instance of ProdCons: a ring of two slots, and every     *)
(* input file of at most MaxLen tokens over two values and the end mark 0: *)
(* files without a 0, with a 0 before the end and with nothing but a 0 are *)
(* among them. A file longer than the ring fills it, empties it and wraps  *)
(* both indices.                                                           *)
EXTENDS ProdCons

CONSTANT MaxLen

Files == UNION {[1 .. n -> 0 .. 2] : n \in 0 .. MaxLen}
=============================================================================
