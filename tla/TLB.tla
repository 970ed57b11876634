-------------------------------- MODULE TLB ---------------------------------
(***************************************************************************)
(* Assignment-03-memory/2021MT10904.cpp: one test case. The accesses are   *)
(* replayed on a translation buffer of K entries, by four functions one    *)
(* after the other. An address stands for its page number.                 *)
(***************************************************************************)
EXTENDS Integers, SequencesExt

CONSTANTS PageNumbers, MaxN, Capacities

ASSUME TLBAssumption == MaxN \in Nat /\ Capacities \subseteq Nat \ {0} /\ -1 \notin PageNumbers

VARIABLES K, addresses,    \* the test case
          turn,            \* which function runs
          i, tlbHits,      \* its loop variable; hits of each function
          tlbMap,          \* pages in the buffer; for Optimal, with their last use
          tlbQueue, list   \* what FIFO and LIFO, and what LRU, order them by

vars == <<K, addresses, turn, i, tlbHits, tlbMap, tlbQueue, list>>

N == Cardinality(DOMAIN addresses)

NULL == -1

EmptyMap == [p \in {} |-> 0]

NewQueue(capacity) == [front |-> 0, rear |-> -1, size |-> 0, array |-> [s \in 0 .. capacity - 1 |-> NULL]]

NewList == [head |-> NULL, tail |-> NULL, next |-> EmptyMap, prev |-> EmptyMap]

Init == /\ K \in Capacities /\ addresses \in UNION {[0 .. n - 1 -> PageNumbers] : n \in 0 .. MaxN}
        /\ turn = 1 /\ i = 0 /\ tlbHits = [t \in 1 .. 4 |-> 0]
        /\ tlbMap = EmptyMap /\ tlbQueue = NewQueue(K) /\ list = NewList

Put(map, p, v) == [q \in DOMAIN map \cup {p} |-> IF q = p THEN v ELSE map[q]]

Erase(map, p) == [q \in DOMAIN map \ {p} |-> map[q]]

-----------------------------------------------------------------------------
(* class Queue: a ring.                                                    *)
isFull(q) == q.size = K

enqueue(q, p) == IF isFull(q) THEN q
                 ELSE LET rear == (q.rear + 1) % K
                      IN  [q EXCEPT !.rear = rear, !.array[rear] = p, !.size = @ + 1]

dequeue(q) == [q EXCEPT !.front = (@ + 1) % K, !.size = @ - 1]

dequeueRear_Front(q) == [q EXCEPT !.front = (@ + 1) % K, !.size = @ - 1]

dequeueRear(q) == [q EXCEPT !.rear = (@ - 1 + K) % K, !.size = @ - 1]

(* The body of the loops of FIFO and LIFO: they differ in what is replaced.*)
QueueStep(p, old, shorter) ==
    IF p \in DOMAIN tlbMap
    THEN tlbHits' = [tlbHits EXCEPT ![turn] = @ + 1] /\ UNCHANGED <<tlbMap, tlbQueue>>
    ELSE /\ IF isFull(tlbQueue)
            THEN /\ tlbQueue' = enqueue(shorter, p)
                 /\ tlbMap' = Put(Erase(tlbMap, old), p, 0)
            ELSE tlbQueue' = enqueue(tlbQueue, p) /\ tlbMap' = Put(tlbMap, p, 0)
         /\ UNCHANGED tlbHits

FIFO(p) == QueueStep(p, tlbQueue.array[tlbQueue.front], dequeue(tlbQueue)) /\ UNCHANGED list

LIFO(p) == QueueStep(p, tlbQueue.array[tlbQueue.rear], dequeueRear(tlbQueue)) /\ UNCHANGED list

-----------------------------------------------------------------------------
(* The list of LRU has one node per page, head first.                      *)
MoveToFront_KeepTail(l, p) ==
    [l EXCEPT !.next = [q \in DOMAIN @ |-> IF q = p THEN l.head
                                           ELSE IF q = l.prev[p] THEN l.next[p] ELSE @[q]],
              !.prev = [q \in DOMAIN @ |-> IF q = p THEN NULL ELSE IF q = l.head THEN p
                                           ELSE IF q = l.next[p] THEN l.prev[p] ELSE @[q]],
              !.head = p]

MoveToFront(l, p) ==
    IF p = l.head THEN l
    ELSE [next |-> [q \in DOMAIN l.next |-> IF q = p THEN l.head
                                            ELSE IF q = l.prev[p] THEN l.next[p] ELSE l.next[q]],
          prev |-> [q \in DOMAIN l.prev |-> IF q = p THEN NULL ELSE IF q = l.head THEN p
                                            ELSE IF q = l.next[p] THEN l.prev[p] ELSE l.prev[q]],
          tail |-> IF p = l.tail THEN l.prev[p] ELSE l.tail,
          head |-> p]

DropTail(l) ==
    LET t == l.prev[l.tail]
    IN  IF t = NULL THEN NewList
        ELSE [head |-> l.head, tail |-> t,
              next |-> [Erase(l.next, l.tail) EXCEPT ![t] = NULL], prev |-> Erase(l.prev, l.tail)]

PushFront(l, p) ==
    [head |-> p, tail |-> IF l.tail = NULL THEN p ELSE l.tail,
     next |-> Put(l.next, p, l.head),
     prev |-> Put([q \in DOMAIN l.prev |-> IF q = l.head THEN p ELSE l.prev[q]], p, NULL)]

LRU(p) ==
    /\ IF p \in DOMAIN tlbMap
       THEN /\ tlbHits' = [tlbHits EXCEPT ![turn] = @ + 1]
            /\ list' = MoveToFront(list, p) /\ UNCHANGED tlbMap
       ELSE /\ IF Cardinality(DOMAIN tlbMap) = K
               THEN /\ tlbMap' = Put(Erase(tlbMap, list.tail), p, 0)
                    /\ list' = PushFront(DropTail(list), p)
               ELSE tlbMap' = Put(tlbMap, p, 0) /\ list' = PushFront(list, p)
            /\ UNCHANGED tlbHits
    /\ UNCHANGED tlbQueue

-----------------------------------------------------------------------------
(* page_map after the backward pass of Optimal has gone down to index j.   *)
page_map[j \in 0 .. MaxN] ==
    IF j >= N THEN [p \in PageNumbers |-> -1]
    ELSE [page_map[j + 1] EXCEPT ![addresses[j]] = j]

nextUse(j) == page_map[j + 1][addresses[j]]

Farthest_NoBreak == {p \in DOMAIN tlbMap : \A q \in DOMAIN tlbMap : nextUse(tlbMap[p]) >= nextUse(tlbMap[q])}

(* Entries come in an unspecified order: the first one that is not used    *)
(* again ends the search.                                                  *)
Farthest ==
    LET dead == {p \in DOMAIN tlbMap : nextUse(tlbMap[p]) = -1}
    IN  IF dead # {} THEN dead
        ELSE {p \in DOMAIN tlbMap : \A q \in DOMAIN tlbMap : nextUse(tlbMap[p]) >= nextUse(tlbMap[q])}

Optimal(p) ==
    /\ IF p \in DOMAIN tlbMap
       THEN tlbHits' = [tlbHits EXCEPT ![turn] = @ + 1] /\ tlbMap' = Put(tlbMap, p, i)
       ELSE /\ IF Cardinality(DOMAIN tlbMap) = K
               THEN \E old \in Farthest : tlbMap' = Put(Erase(tlbMap, old), p, i)
               ELSE tlbMap' = Put(tlbMap, p, i)
            /\ UNCHANGED tlbHits
    /\ UNCHANGED <<tlbQueue, list>>

-----------------------------------------------------------------------------
Access == /\ i < N /\ i' = i + 1
          /\ \/ turn = 1 /\ FIFO(addresses[i])
             \/ turn = 2 /\ LIFO(addresses[i])
             \/ turn = 3 /\ LRU(addresses[i])
             \/ turn = 4 /\ Optimal(addresses[i])
          /\ UNCHANGED <<K, addresses, turn>>

(* A function returns its hits; the next has local variables of its own.   *)
Return == /\ i = N /\ turn <= 4 /\ turn' = turn + 1 /\ i' = 0
          /\ tlbMap' = EmptyMap /\ tlbQueue' = NewQueue(K) /\ list' = NewList
          /\ UNCHANGED <<K, addresses, tlbHits>>

Next == Access \/ Return \/ (turn > 4 /\ UNCHANGED vars)

Spec == Init /\ [][Next]_vars
-----------------------------------------------------------------------------
Pointers == DOMAIN tlbMap \cup {NULL}

TypeOK == /\ turn \in 1 .. 5 /\ i \in 0 .. N /\ tlbHits \in [1 .. 4 -> 0 .. N]
          /\ tlbQueue.front \in 0 .. K - 1 /\ tlbQueue.rear \in -1 .. K - 1
          /\ DOMAIN tlbQueue.array = 0 .. K - 1 /\ tlbQueue.size \in 0 .. K
          /\ {list.head, list.tail} \subseteq PageNumbers \cup {NULL}
          /\ \A p \in DOMAIN tlbMap : p \in PageNumbers /\ tlbMap[p] \in 0 .. N

(* Contents of the ring from the front, and of the list from the tail.     *)
Queued == [k \in 1 .. tlbQueue.size |-> tlbQueue.array[(tlbQueue.front + k - 1) % K]]

Listed == LET pages == Cardinality(DOMAIN list.next)
              walk[n \in 0 .. pages] == IF n = 0 THEN <<>>
                                 ELSE Append(walk[n - 1], IF n = 1 THEN list.tail ELSE list.prev[Last(walk[n - 1])])
          IN  walk[pages]

(* The buffer of Optimal by the last uses of its pages.                    *)
ByLastUse == [k \in 1 .. Cardinality(DOMAIN tlbMap) |->
                CHOOSE p \in DOMAIN tlbMap :
                    Cardinality({q \in DOMAIN tlbMap : tlbMap[q] <= tlbMap[p]}) = k]

(* The map and the structure that orders its pages hold the same pages,    *)
(* each once and never more than K, and the links of the list agree.       *)
MapMatchesOrder ==
    /\ Cardinality(DOMAIN tlbMap) <= K
    /\ turn \in {1, 2} => IsInjective(Queued) /\ ToSet(Queued) = DOMAIN tlbMap
    /\ turn = 3 => /\ DOMAIN list.next = DOMAIN tlbMap /\ DOMAIN list.prev = DOMAIN tlbMap
                   /\ IsInjective(Listed) /\ ToSet(Listed) = DOMAIN tlbMap
                   /\ \A p \in DOMAIN tlbMap : list.next[p] # NULL => list.prev[list.next[p]] = p

(* LRU in closed form: the buffer holds the pages since whose last use     *)
(* fewer than K others have been used.                                     *)
LastK == LET Since(p) == {addresses[j] : j \in {m \in 0 .. i - 1 :
                              \A k \in m .. i - 1 : addresses[k] # p}}
         IN  {p \in {addresses[j] : j \in 0 .. i - 1} : Cardinality(Since(p)) < K}

LRUExact == turn = 3 => DOMAIN tlbMap = LastK

(* The most hits from the jth access on, with pages in the buffer: no way  *)
(* to choose what is replaced has more than Optimal.                       *)
best[j \in 0 .. N] == [pages \in SUBSET PageNumbers |->
    IF j = N THEN 0
    ELSE IF addresses[j] \in pages THEN 1 + best[j + 1][pages]
    ELSE IF Cardinality(pages) < K THEN best[j + 1][pages \cup {addresses[j]}]
    ELSE Max({best[j + 1][(pages \ {q}) \cup {addresses[j]}] : q \in pages})]

OptimalIsBest == turn > 4 => tlbHits[4] = best[0][{}]

Order == IF turn \in {1, 2} THEN Queued ELSE IF turn = 3 THEN Listed ELSE ByLastUse

Definition == INSTANCE ReplacementPolicies WITH hits <- tlbHits, order <- Order

(* The ring, the list and the map implement the policies' definitions: hit *)
(* by hit, and victim by victim.                                           *)
ImplementsPolicies == Definition!Spec

(* The structure behind each policy is intact and orders exactly the pages *)
(* of the buffer; that of LRU by their last use.                           *)
Inv == TypeOK /\ MapMatchesOrder /\ LRUExact
=============================================================================
