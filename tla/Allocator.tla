----------------------------- MODULE Allocator ------------------------------
(***************************************************************************)
(* Assignment-03-memory/2021MT10904mmu.h: malloc, calloc and free on a     *)
(* doubly linked list of blocks in pages obtained from mmap. Addresses and *)
(* sizes are bytes; sizes are computed modulo SIZE_MOD, as size_t is.      *)
(***************************************************************************)
EXTENDS Integers, FiniteSets

CONSTANTS page_size, HEADER_SIZE,
          SIZE_MOD,      \* size_t has the values 0 .. SIZE_MOD - 1
          Space,         \* size of the address space mmap chooses from
          Sizes,         \* arguments of my_malloc
          Arrays         \* arguments of my_calloc

ASSUME AllocatorAssumption ==
    /\ HEADER_SIZE \in Nat \ {0} /\ page_size \in Nat /\ 2 * HEADER_SIZE <= page_size
    /\ SIZE_MOD \in Nat /\ SIZE_MOD % page_size = 0
    /\ Space % page_size = 0 /\ Space \in 1 .. SIZE_MOD
    /\ Sizes \subseteq 0 .. SIZE_MOD - 1 /\ Arrays \subseteq (0 .. SIZE_MOD - 1) \X (0 .. SIZE_MOD - 1)

VARIABLES base,      \* first block of the list, or NULL
          block,     \* header of each block in the list, by its address
          mapped,    \* addresses of the pages mmap has handed out
          asked,     \* bytes the caller asked for, by the address it got
          lossy,     \* some block has been split
          damaged    \* memory outside of a block has been treated as its own

vars == <<base, block, mapped, asked, lossy, damaged>>

NULL == -1

Pages == {a \in 0 .. Space - 1 : a % page_size = 0}

PagesOf(a, n) == {p \in Pages : p + page_size > a /\ p < a + n}

Init == /\ base = NULL /\ block = [h \in {} |-> NULL] /\ mapped = {}
        /\ asked = [p \in {} |-> 0] /\ lossy = FALSE /\ damaged = FALSE

round_to_page_size(size) ==
    LET s == (size + page_size - 1) % SIZE_MOD IN s - (s % page_size)

Total_NoHeader(size) == round_to_page_size(size)

(* What a block for size bytes takes with its header.                      *)
Total(size) == round_to_page_size(size + HEADER_SIZE)

End(h) == h + HEADER_SIZE + block[h].size

(* The n-th block of the list.                                             *)
At[n \in Nat] == IF n = 0 THEN base
                 ELSE IF At[n - 1] = NULL THEN NULL ELSE block[At[n - 1]].next

Length == Cardinality(DOMAIN block)

Last == IF base = NULL THEN NULL ELSE At[Length - 1]

Suitable_InUse(h, size) == block[h].size >= size

Suitable(h, size) == block[h].is_free /\ block[h].size >= size

(* find_suitable_block: the first fit, if there is one.                    *)
Found(h, size) == \E n \in 0 .. Length - 1 :
    /\ h = At[n] /\ Suitable(h, size)
    /\ \A m \in 0 .. n - 1 : ~Suitable(At[m], size)

Split_Whole(h, r) ==
    [b \in DOMAIN block \cup {h + r} |->
        IF b = h THEN [block[h] EXCEPT !.is_free = FALSE, !.next = h + r]
        ELSE IF b = h + r
             THEN [is_free |-> TRUE, size |-> block[h].size - r - HEADER_SIZE,
                   next |-> block[h].next, prev |-> h]
        ELSE IF b = block[h].next THEN [block[b] EXCEPT !.prev = h + r]
        ELSE block[b]]

(* r includes a header already: the second block is made HEADER_SIZE bytes *)
(* smaller than the room that is left.                                     *)
Split(h, r) ==
    [b \in DOMAIN block \cup {h + r} |->
        IF b = h THEN [block[h] EXCEPT !.is_free = FALSE, !.size = r - HEADER_SIZE, !.next = h + r]
        ELSE IF b = h + r
             THEN [is_free |-> TRUE, size |-> block[h].size - r - HEADER_SIZE,
                   next |-> block[h].next, prev |-> h]
        ELSE IF b = block[h].next THEN [block[b] EXCEPT !.prev = h + r]
        ELSE block[b]]

Room(h, r) == (block[h].size - r) % SIZE_MOD

(* The test in split_block is an unsigned comparison: a block that fits    *)
(* exactly passes it too, and a header is written past its end. What that  *)
(* does is undefined.                                                      *)
SplitsPastEnd(h, r) == /\ h \in DOMAIN block /\ Room(h, r) >= HEADER_SIZE
                       /\ h + r + HEADER_SIZE > End(h)

Reuse(h, r) ==
    /\ IF Room(h, r) < HEADER_SIZE \/ SplitsPastEnd(h, r)
       THEN block' = [block EXCEPT ![h].is_free = FALSE] /\ UNCHANGED lossy
       ELSE block' = Split(h, r) /\ lossy' = TRUE
    /\ UNCHANGED <<base, mapped>>

(* extend_heap: mmap finds room anywhere; a length of 0 it refuses.        *)
Extend(h, total_size) ==
    /\ total_size > 0 /\ h \in Pages /\ h + total_size <= Space
    /\ PagesOf(h, total_size) \cap mapped = {}
    /\ mapped' = mapped \cup PagesOf(h, total_size)
    /\ block' = [b \in DOMAIN block \cup {h} |->
                    IF b = h THEN [is_free |-> FALSE, size |-> total_size - HEADER_SIZE,
                                   next |-> NULL, prev |-> Last]
                    ELSE IF b = Last THEN [block[b] EXCEPT !.next = h] ELSE block[b]]
    /\ base' = IF base = NULL THEN h ELSE base
    /\ UNCHANGED lossy

(* One block for a request of size bytes; the caller asked for n.          *)
Obtain(h, size, n) ==
    LET r == Total(size)
    IN  /\ ~damaged
        /\ IF \E b \in DOMAIN block : Found(b, size)
           THEN Found(h, size) /\ Reuse(h, r) ELSE Extend(h, r)
        /\ asked' = [p \in DOMAIN asked \cup {h + HEADER_SIZE} |->
                        IF p = h + HEADER_SIZE THEN n ELSE asked[p]]

my_malloc(size) == \E h \in Pages :
    /\ Obtain(h, size, size)
    /\ damaged' = SplitsPastEnd(h, Total(size))

(* mmap may fail at any time: NULL is returned and nothing changes.        *)
MallocFails(size) == /\ ~damaged /\ ~\E b \in DOMAIN block : Found(b, size)
                     /\ UNCHANGED vars

(* The product may wrap. As many bytes are cleared as were asked of        *)
(* my_malloc, even if it returned a smaller block.                         *)
my_calloc(nelem, size) ==
    LET bytes == (nelem * size) % SIZE_MOD
    IN  \E h \in Pages :
            /\ Obtain(h, bytes, nelem * size)
            /\ damaged' = (\/ SplitsPastEnd(h, Total(bytes))
                           \/ block'[h].size < bytes)

(* merge_free_blocks: the next block of the list is appended if it is      *)
(* free, wherever it lies.                                                 *)
Merges(list, h) == list[h].next # NULL /\ list[list[h].next].is_free

Merge(list, h) ==
    IF ~Merges(list, h) THEN list
    ELSE [b \in DOMAIN list \ {list[h].next} |->
             IF b = h THEN [list[h] EXCEPT !.size = @ + HEADER_SIZE + list[list[h].next].size,
                                           !.next = list[list[h].next].next]
             ELSE IF b = list[list[h].next].next THEN [list[b] EXCEPT !.prev = h]
             ELSE list[b]]

Covered(list, h) == PagesOf(h, HEADER_SIZE + list[h].size)

(* The two blocks are not neighbours in memory.                            *)
Apart(list, h) ==
    Merges(list, h) /\
       (\/ list[h].next < h
        \/ \E p \in Pages : /\ p > h /\ p < list[h].next
                            /\ \/ p \notin mapped
                               \/ \E b \in DOMAIN list \ {h} : p \in Covered(list, b))

MergesBack(h) == block[h].prev # NULL /\ block[block[h].prev].is_free

Release_Never(list, h) == block' = list /\ UNCHANGED <<base, mapped>>

(* The last block of the list goes back to the system.                     *)
Release(list, h) ==
    /\ block' = [b \in DOMAIN list \ {h} |->
                    IF b = list[h].prev THEN [list[b] EXCEPT !.next = NULL] ELSE list[b]]
    /\ base' = IF list[h].prev = NULL THEN NULL ELSE base
    /\ mapped' = mapped \ PagesOf(h, HEADER_SIZE + list[h].size)

(* The caller frees only what it got, and once. Merging blocks that are    *)
(* not neighbours in memory makes one that covers the memory of others.    *)
my_free(ptr) ==
    LET h == ptr - HEADER_SIZE
        marked == [block EXCEPT ![h].is_free = TRUE]
        head == IF MergesBack(h) THEN block[h].prev ELSE h
        list == IF MergesBack(h) THEN Merge(marked, head) ELSE marked
    IN  /\ ~damaged
        /\ IF list[head].next # NULL
           THEN block' = Merge(list, head) /\ UNCHANGED <<base, mapped>>
           ELSE Release(list, head)
        /\ damaged' = ((MergesBack(h) /\ Apart(marked, head)) \/ Apart(list, head))
        /\ asked' = [p \in DOMAIN asked \ {ptr} |-> asked[p]]
        /\ UNCHANGED lossy

Next == \/ \E size \in Sizes : my_malloc(size) \/ MallocFails(size)
        \/ \E array \in Arrays : my_calloc(array[1], array[2])
        \/ \E ptr \in DOMAIN asked : my_free(ptr)
        \/ damaged /\ UNCHANGED vars

Spec == Init /\ [][Next]_vars
-----------------------------------------------------------------------------
Headers == Pages \cap DOMAIN block

TypeOK == /\ base \in Headers \cup {NULL} /\ {lossy, damaged} \subseteq BOOLEAN
          /\ block \in [Headers -> [is_free : BOOLEAN, size : 0 .. SIZE_MOD - 1,
                                    next : Headers \cup {NULL}, prev : Headers \cup {NULL}]]
          /\ mapped \subseteq Pages
          /\ DOMAIN asked \subseteq {h + HEADER_SIZE : h \in Pages}

(* The list describes the memory: as long as nothing has been damaged its  *)
(* blocks lie in mapped pages of their own, can be reached in both         *)
(* directions, and, unless some were lost by splitting, are all there is.  *)
ListIsMemory ==
    ~damaged => /\ DOMAIN block = {At[n] : n \in 0 .. Length - 1} \ {NULL}
                /\ \A n \in 1 .. Length - 1 : block[At[n]].prev = At[n - 1]
                /\ \A b, h \in DOMAIN block : b # h => Covered(block, b) \cap Covered(block, h) = {}
                /\ LET all == UNION {Covered(block, h) : h \in DOMAIN block}
                   IN  IF lossy THEN all \subseteq mapped ELSE all = mapped

(* Free space is not scattered: no two free blocks follow each other.      *)
Coalesced == ~damaged => \A h \in DOMAIN block : block[h].is_free => ~Merges(block, h)

(* The list is well formed, describes the memory, and has its free space   *)
(* in one piece wherever that is possible.                                 *)
Inv == TypeOK /\ ListIsMemory /\ Coalesced

(* No memory is kept for nothing: when everything has been freed, in       *)
(* whatever order, no block is left in the list, and every page has gone   *)
(* back to the system unless bytes were lost by splitting.                 *)
AllReturned == ~damaged /\ DOMAIN asked = {}
                   => base = NULL /\ DOMAIN block = {} /\ (mapped = {} \/ lossy)

(* A block has room for what was asked for, unless the size wrapped.       *)
FitsRequest ==
    ~damaged => \A p \in DOMAIN asked :
        asked[p] <= SIZE_MOD - HEADER_SIZE => asked[p] <= block[p - HEADER_SIZE].size

InUse == [p \in DOMAIN asked |-> block[p - HEADER_SIZE].size]

Malloc == INSTANCE MallocSpec WITH Addresses <- 0 .. Space - 1, blocks <- InUse

(* Until something is damaged the allocator is a malloc: a block in use    *)
(* keeps its place and its size and overlaps with no other, whatever is    *)
(* split, merged and given back around it.                                 *)
ImplementsMalloc == Malloc!Init /\ [][~damaged' => [Malloc!Next]_InUse]_vars

(* "Ensure there's space for another block" (line 50): a block is split    *)
(* only where it has room for the second one.                              *)
NotDamaged == ~damaged
=============================================================================
