---------------------------- MODULE MCAllocator ----------------------------
(* An array that takes two pages, one whose size wraps to that of a small *)
(* one, and one whose size wraps when the header is added.                 *)
EXTENDS Allocator

TheArrays == {<<2, 7>>, <<5, 13>>, <<1, 63>>}
=============================================================================
