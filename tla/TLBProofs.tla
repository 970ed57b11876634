------------------------------ MODULE TLBProofs -----------------------------
(***************************************************************************)
(* Proofs about the TLB simulator: for any number of accesses, any pages   *)
(* and any number of entries.                                              *)
(***************************************************************************)
EXTENDS TLB, SequenceTheorems, FiniteSetTheorems, NaturalsInduction, WellFoundedInduction, TLAPS

-----------------------------------------------------------------------------
(* Sequences in which the pages of a set stand once each.                  *)
Lists(s, S) == s \in Seq(PageNumbers) /\ IsInjective(s) /\ ToSet(s) = S

(* A sequence's length, places and elements.                               *)
LEMMA Elements == ASSUME NEW T, NEW s \in Seq(T)
                  PROVE  /\ Len(s) \in Nat /\ DOMAIN s = 1 .. Len(s) /\ s \in [1 .. Len(s) -> T]
                         /\ \A x \in 1 .. Len(s) : s[x] \in T
BY LenProperties, ElementOfSeq

(* A function over 1 .. n is a sequence.                                   *)
LEMMA IsSequence == ASSUME NEW T, NEW n \in Nat, NEW f \in [1 .. n -> T]
                    PROVE  f \in Seq(T) /\ Len(f) = n
BY LenProperties, SeqDef

(* Two sequences of a length with the same elements are one.               *)
LEMMA SameSequence ==
    ASSUME NEW T, NEW r \in Seq(T), NEW s \in Seq(T), Len(r) = Len(s),
           \A x \in 1 .. Len(s) : r[x] = s[x]
    PROVE  r = s
<1>1. r \in [1 .. Len(s) -> T] /\ s \in [1 .. Len(s) -> T]
  BY Elements
<1>. QED  BY <1>1

(* A sequence without its kth element.                                     *)
LEMMA WithoutPlace ==
    ASSUME NEW T, NEW s \in Seq(T), NEW k \in 1 .. Len(s)
    PROVE  /\ RemoveAt(s, k) \in Seq(T) /\ Len(RemoveAt(s, k)) = Len(s) - 1
           /\ \A x \in 1 .. Len(s) - 1 : RemoveAt(s, k)[x] = IF x < k THEN s[x] ELSE s[x + 1]
<1>. DEFINE a == SubSeq(s, 1, k - 1)
            b == SubSeq(s, k + 1, Len(s))
            n == Len(s)
<1>0. n \in Nat /\ k \in Int /\ k >= 1 /\ k <= n /\ \A x \in 1 .. n : s[x] \in T
  BY Elements
<1>. HIDE DEF n
<1>1. a \in Seq(T) /\ Len(a) = k - 1 /\ \A x \in 1 .. k - 1 : a[x] = s[x]
  <2>1. \A x \in 1 .. k - 1 : s[x] \in T
    BY <1>0
  <2>2. /\ a \in Seq(T) /\ Len(a) = IF 1 <= k - 1 THEN (k - 1) - 1 + 1 ELSE 0
        /\ \A x \in 1 .. (k - 1) - 1 + 1 : a[x] = s[1 + x - 1]
    BY <1>0, <2>1, SubSeqProperties
  <2>. HIDE DEF a
  <2>. QED  BY <1>0, <2>2
<1>2. b \in Seq(T) /\ Len(b) = n - k /\ \A x \in 1 .. n - k : b[x] = s[k + x]
  <2>1. \A x \in k + 1 .. n : s[x] \in T
    BY <1>0
  <2>2. /\ b \in Seq(T) /\ Len(b) = IF k + 1 <= n THEN n - (k + 1) + 1 ELSE 0
        /\ \A x \in 1 .. n - (k + 1) + 1 : b[x] = s[(k + 1) + x - 1]
    BY <1>0, <2>1, SubSeqProperties DEF n
  <2>3. \A x \in 1 .. n - k : (k + 1) + x - 1 = k + x
    BY <1>0
  <2>. HIDE DEF b
  <2>4. Len(b) = n - k /\ n - (k + 1) + 1 = n - k
    BY <1>0, <2>2
  <2>. QED  BY <2>2, <2>3, <2>4
<1>. HIDE DEF a, b
<1>3. /\ a \o b \in Seq(T) /\ Len(a \o b) = Len(a) + Len(b)
      /\ \A x \in 1 .. Len(a) + Len(b) : (a \o b)[x] = IF x <= Len(a) THEN a[x] ELSE b[x - Len(a)]
  BY <1>1, <1>2, ConcatProperties
<1>4. Len(a) + Len(b) = n - 1
  BY <1>0, <1>1, <1>2
<1>5. ASSUME NEW x \in 1 .. n - 1 PROVE (a \o b)[x] = IF x < k THEN s[x] ELSE s[x + 1]
  <2>1. CASE x < k
    <3>1. x <= Len(a) /\ x \in 1 .. k - 1
      BY <1>0, <1>1, <2>1
    <3>. QED  BY <1>1, <1>3, <1>4, <2>1, <3>1
  <2>2. CASE ~(x < k)
    <3>1. ~(x <= Len(a)) /\ x - Len(a) \in 1 .. n - k /\ k + (x - Len(a)) = x + 1
      BY <1>0, <1>1, <2>2
    <3>2. (a \o b)[x] = b[x - Len(a)]
      BY <1>3, <1>4, <3>1
    <3>3. b[x - Len(a)] = s[k + (x - Len(a))]
      BY <1>2, <3>1
    <3>. QED  BY <2>2, <3>1, <3>2, <3>3
  <2>. QED  BY <2>1, <2>2
<1>6. RemoveAt(s, k) = a \o b
  BY DEF RemoveAt, a, b, n
<1>7. /\ a \o b \in Seq(T) /\ Len(a \o b) = n - 1
  BY <1>3, <1>4
<1>8. n = Len(s)
  BY DEF n
<1>. HIDE DEF RemoveAt
<1>. QED  BY <1>5, <1>6, <1>7, <1>8

(* A new last element.                                                     *)
LEMMA WithNew ==
    ASSUME NEW T, NEW s \in Seq(T), NEW p \in T
    PROVE  /\ Append(s, p) \in Seq(T) /\ Len(Append(s, p)) = Len(s) + 1
           /\ \A x \in 1 .. Len(s) + 1 : Append(s, p)[x] = IF x = Len(s) + 1 THEN p ELSE s[x]
<1>1. Len(s) \in Nat
  BY Elements
<1>2. /\ Append(s, p) \in Seq(T) /\ Len(Append(s, p)) = Len(s) + 1
      /\ \A x \in 1 .. Len(s) : Append(s, p)[x] = s[x]
      /\ Append(s, p)[Len(s) + 1] = p
  BY AppendProperties
<1>3. \A x \in 1 .. Len(s) + 1 : x # Len(s) + 1 => x \in 1 .. Len(s)
  BY <1>1
<1>. QED  BY <1>2, <1>3

(* A page that is not yet listed.                                          *)
LEMMA ListsNew ==
    ASSUME NEW S, NEW s, Lists(s, S), NEW p \in PageNumbers, p \notin S
    PROVE  Lists(Append(s, p), S \cup {p})
<1>. DEFINE t == Append(s, p)
            n == Len(s)
<1>1. n \in Nat /\ DOMAIN s = 1 .. n
  BY Elements DEF Lists
<1>2. /\ t \in Seq(PageNumbers) /\ Len(t) = n + 1
      /\ \A x \in 1 .. n + 1 : t[x] = IF x = n + 1 THEN p ELSE s[x]
  BY WithNew DEF Lists
<1>. HIDE DEF t, n
<1>3. DOMAIN t = 1 .. n + 1
  BY <1>2, Elements
<1>4. \A x \in 1 .. n : s[x] \in S /\ s[x] # p
  BY <1>1 DEF Lists, ToSet
<1>5. \A q \in S : \E x \in 1 .. n : s[x] = q
  BY <1>1 DEF Lists, ToSet
<1>6. n + 1 \in 1 .. n + 1 /\ \A x \in 1 .. n + 1 : x # n + 1 => x \in 1 .. n
  BY <1>1
<1>7. \A x \in 1 .. n : x \in 1 .. n + 1 /\ x # n + 1
  BY <1>1
<1>8. IsInjective(t)
  BY <1>1, <1>2, <1>3, <1>4, <1>6 DEF Lists, IsInjective
<1>9. ToSet(t) = S \cup {p}
  <2>1. \A x \in 1 .. n + 1 : t[x] \in S \cup {p}
    BY <1>2, <1>4, <1>6
  <2>2. t[n + 1] = p /\ \A x \in 1 .. n : t[x] = s[x]
    BY <1>2, <1>6, <1>7
  <2>3. \A q \in S \cup {p} : \E x \in 1 .. n + 1 : t[x] = q
    BY <1>5, <1>6, <1>7, <2>2
  <2>. QED  BY <1>3, <2>1, <2>3 DEF ToSet
<1>. QED  BY <1>2, <1>8, <1>9 DEF Lists, t

(* A page is taken out of the list.                                        *)
LEMMA ListsWithout ==
    ASSUME NEW S, NEW s, Lists(s, S), NEW k \in 1 .. Len(s)
    PROVE  Lists(RemoveAt(s, k), S \ {s[k]}) /\ s[k] \in S
<1>. DEFINE t == RemoveAt(s, k)
            n == Len(s)
            at(x) == IF x < k THEN x ELSE x + 1
<1>1. n \in Nat /\ DOMAIN s = 1 .. n /\ k \in 1 .. n
  BY Elements DEF Lists
<1>2. /\ t \in Seq(PageNumbers) /\ Len(t) = n - 1
      /\ \A x \in 1 .. n - 1 : t[x] = IF x < k THEN s[x] ELSE s[x + 1]
  BY WithoutPlace DEF Lists
<1>. HIDE DEF t, n
<1>3. DOMAIN t = 1 .. n - 1
  BY <1>2, Elements
<1>4. \A x \in 1 .. n - 1 : at(x) \in 1 .. n /\ at(x) # k /\ t[x] = s[at(x)]
  BY <1>1, <1>2
<1>5. \A x, y \in 1 .. n - 1 : at(x) = at(y) => x = y
  BY <1>1
<1>6. ASSUME NEW y \in 1 .. n, y # k PROVE \E x \in 1 .. n - 1 : at(x) = y
  <2>1. CASE y < k
    <3>1. y \in 1 .. n - 1
      BY <1>1, <2>1
    <3>. QED  BY <2>1, <3>1
  <2>2. CASE y > k
    <3>1. y - 1 \in 1 .. n - 1 /\ ~(y - 1 < k) /\ (y - 1) + 1 = y
      BY <1>1, <2>2
    <3>. QED  BY <3>1
  <2>. QED  BY <1>1, <1>6, <2>1, <2>2
<1>. HIDE DEF at
<1>7. \A x, y \in 1 .. n : s[x] = s[y] => x = y
  BY <1>1 DEF Lists, IsInjective
<1>8. IsInjective(t)
  BY <1>3, <1>4, <1>5, <1>7 DEF IsInjective
<1>9. ToSet(t) = S \ {s[k]}
  <2>1. \A x \in 1 .. n - 1 : t[x] \in S \ {s[k]}
    BY <1>1, <1>4, <1>7 DEF Lists, ToSet
  <2>2. ASSUME NEW q \in S \ {s[k]} PROVE \E x \in 1 .. n - 1 : t[x] = q
    <3>1. PICK y \in 1 .. n : s[y] = q /\ y # k
      BY <1>1 DEF Lists, ToSet
    <3>2. PICK x \in 1 .. n - 1 : at(x) = y
      BY <1>6, <3>1
    <3>. QED  BY <1>4, <3>1, <3>2
  <2>. QED  BY <1>3, <2>1, <2>2 DEF ToSet
<1>10. s[k] \in S
  BY <1>1 DEF Lists, ToSet
<1>. QED  BY <1>2, <1>8, <1>9, <1>10 DEF Lists, t

(* The number of pages of a list is its length.                            *)
LEMMA ListsSize == ASSUME NEW S, NEW s, Lists(s, S)
                   PROVE  IsFiniteSet(S) /\ Cardinality(S) = Len(s) /\ S \subseteq PageNumbers
<1>. DEFINE n == Len(s)
<1>1. n \in Nat /\ DOMAIN s = 1 .. n /\ s \in [1 .. n -> PageNumbers] /\ \A x \in 1 .. n : s[x] \in PageNumbers
  BY Elements DEF Lists
<1>2. IsFiniteSet(1 .. n) /\ Cardinality(1 .. n) = n
  <2>. HIDE DEF n
  <2>1. IsFiniteSet(1 .. n) /\ Cardinality(1 .. n) = IF 1 > n THEN 0 ELSE n - 1 + 1
    BY <1>1, FS_Interval
  <2>. QED  BY <1>1, <2>1
<1>. HIDE DEF n
<1>3. s \in Bijection(1 .. n, S)
  BY <1>1 DEF Lists, ToSet, Bijection, Injection, Surjection, IsInjective
<1>4. IsFiniteSet(S) /\ Cardinality(S) = Cardinality(1 .. n)
  BY <1>2, <1>3, FS_Bijection, Zenon DEF ExistsBijection
<1>. QED  BY <1>1, <1>2, <1>4 DEF Lists, ToSet, n

-----------------------------------------------------------------------------
(* A test case: N accesses to a buffer with room for at least one page.    *)
TestCase == /\ K \in Nat \ {0} /\ MaxN \in Nat /\ N \in 0 .. MaxN
            /\ addresses \in [0 .. N - 1 -> PageNumbers]

LEMMA SomeCase == Init => TestCase
<1>. SUFFICES ASSUME Init PROVE TestCase
  OBVIOUS
<1>1. K \in Nat \ {0} /\ MaxN \in Nat
  BY TLBAssumption DEF Init
<1>2. PICK n \in 0 .. MaxN : addresses \in [0 .. n - 1 -> PageNumbers]
  BY DEF Init
<1>3. DOMAIN addresses = 0 .. n - 1 /\ n \in Nat
  BY <1>1, <1>2
<1>4. Cardinality(0 .. n - 1) = IF 0 > n - 1 THEN 0 ELSE (n - 1) - 0 + 1
  BY <1>3, FS_Interval
<1>5. N = n
  BY <1>3, <1>4 DEF N
<1>. QED  BY <1>1, <1>2, <1>5 DEF TestCase

LEMMA SameCase == ASSUME TestCase, K' = K, addresses' = addresses
                  PROVE  TestCase' /\ N' = N
BY DEF TestCase, N

(* x % K for the indices of a ring that occur, without the division.       *)
Wrap(x) == IF x < K THEN x ELSE x - K

LEMMA ModWrap == ASSUME K \in Nat \ {0}, NEW x \in 0 .. 2 * K - 1
                 PROVE  x % K = Wrap(x) /\ Wrap(x) \in 0 .. K - 1
<1>1. CASE x < K
  BY <1>1 DEF Wrap
<1>2. CASE x >= K
  BY <1>2 DEF Wrap
<1>. QED  BY <1>1, <1>2

LEMMA WrapNext == ASSUME K \in Nat \ {0}, NEW x \in 0 .. 2 * K - 2
                  PROVE  Wrap(Wrap(x) + 1) = Wrap(x + 1)
BY DEF Wrap

(* Where the kth page from the front is, and the pages in that order.      *)
Place(q, k) == (q.front + k - 1) % K

Contents(q) == [k \in 1 .. q.size |-> q.array[Place(q, k)]]

Queues == [front : 0 .. K - 1, rear : -1 .. K - 1, size : 0 .. K,
           array : [0 .. K - 1 -> PageNumbers \cup {NULL}]]

(* The fields of a ring agree: rear is where the last page is.             *)
Ring(q) == /\ q \in Queues
           /\ q.size > 0 => q.rear >= 0
           /\ Wrap(q.rear + 1) = Wrap(q.front + q.size)
           /\ \A k \in 1 .. q.size : q.array[Place(q, k)] \in PageNumbers

LEMMA PlaceIs == ASSUME K \in Nat \ {0}, NEW q \in Queues, NEW k \in 1 .. q.size + 1
                 PROVE  Place(q, k) = Wrap(q.front + k - 1) /\ Place(q, k) \in 0 .. K - 1
<1>1. q.front + k - 1 \in 0 .. 2 * K - 1
  BY DEF Queues
<1>. QED  BY <1>1, ModWrap DEF Place

LEMMA ContentsType == ASSUME K \in Nat \ {0}, NEW q, Ring(q)
                      PROVE  Contents(q) \in Seq(PageNumbers) /\ Len(Contents(q)) = q.size
<1>1. q.size \in Nat
  BY DEF Ring, Queues
<1>2. Contents(q) \in [1 .. q.size -> PageNumbers]
  BY DEF Ring, Contents
<1>. QED  BY <1>1, <1>2, IsSequence

(* A page is added behind the last one.                                    *)
LEMMA Enqueued ==
    ASSUME K \in Nat \ {0}, NEW q, Ring(q), q.size < K, NEW p \in PageNumbers
    PROVE  Ring(enqueue(q, p)) /\ Contents(enqueue(q, p)) = Append(Contents(q), p)
<1>. DEFINE r == enqueue(q, p)
            at == (q.rear + 1) % K
            n == q.size
<1>0. n \in 0 .. K - 1 /\ q.front \in 0 .. K - 1 /\ q.rear \in -1 .. K - 1 /\ q \in Queues
  BY DEF Ring, Queues
<1>1. at = Wrap(q.front + n) /\ at \in 0 .. K - 1 /\ at = Wrap(q.rear + 1)
  <2>1. q.rear + 1 \in 0 .. 2 * K - 1
    BY <1>0
  <2>. QED  BY <2>1, ModWrap DEF Ring
<1>2. r = [q EXCEPT !.rear = at, !.array[at] = p, !.size = @ + 1]
  BY <1>0 DEF enqueue, isFull
<1>. HIDE DEF r, at
<1>3. /\ r.front = q.front /\ r.rear = at /\ r.size = n + 1 /\ r \in Queues
      /\ r.array = [q.array EXCEPT ![at] = p]
  <2>1. q = [front |-> q.front, rear |-> q.rear, size |-> n, array |-> q.array]
    BY <1>0 DEF Queues
  <2>2. r = [front |-> q.front, rear |-> at, size |-> n + 1, array |-> [q.array EXCEPT ![at] = p]]
    BY <1>2, <2>1
  <2>3. q.array \in [0 .. K - 1 -> PageNumbers \cup {NULL}]
    BY <1>0 DEF Queues
  <2>4. [q.array EXCEPT ![at] = p] \in [0 .. K - 1 -> PageNumbers \cup {NULL}]
    BY <2>3
  <2>5. n + 1 \in 0 .. K /\ at \in -1 .. K - 1
    BY <1>0, <1>1
  <2>. HIDE DEF n
  <2>6. r \in Queues
    BY <1>0, <2>2, <2>4, <2>5 DEF Queues
  <2>. QED  BY <2>2, <2>6
<1>. HIDE DEF n
<1>4. \A k \in 1 .. n + 1 : Place(r, k) = Place(q, k) /\ Place(q, k) = Wrap(q.front + k - 1)
  BY <1>0, <1>3, PlaceIs DEF Place, n
<1>5. \A k \in 1 .. n : Place(q, k) # at /\ Place(q, k) \in 0 .. K - 1
  BY <1>0, <1>1, <1>4 DEF Wrap
<1>6. Place(q, n + 1) = at
  BY <1>0, <1>1, <1>4
<1>7. \A k \in 1 .. n + 1 : r.array[Place(r, k)] = IF k = n + 1 THEN p ELSE q.array[Place(q, k)]
  <2>1. q.array \in [0 .. K - 1 -> PageNumbers \cup {NULL}]
    BY <1>0 DEF Queues
  <2>2. \A k \in 1 .. n + 1 : k # n + 1 => k \in 1 .. n
    BY <1>0
  <2>. QED  BY <1>1, <1>3, <1>4, <1>5, <1>6, <2>1, <2>2
<1>8. \A k \in 1 .. n : q.array[Place(q, k)] \in PageNumbers
  BY DEF Ring, n
<1>9. Wrap(r.rear + 1) = Wrap(r.front + r.size)
  <2>1. q.front + n \in 0 .. 2 * K - 2 /\ q.front + (n + 1) = (q.front + n) + 1
    BY <1>0
  <2>. QED  BY <1>1, <1>3, <2>1, WrapNext
<1>10. Ring(r)
  <2>1. \A k \in 1 .. r.size : r.array[Place(r, k)] \in PageNumbers
    BY <1>0, <1>3, <1>7, <1>8
  <2>. QED  BY <1>1, <1>3, <1>9, <2>1 DEF Ring
<1>11. Contents(r) = Append(Contents(q), p)
  <2>1. Contents(q) \in Seq(PageNumbers) /\ Len(Contents(q)) = n
    BY ContentsType DEF n
  <2>2. /\ Append(Contents(q), p) \in Seq(PageNumbers) /\ Len(Append(Contents(q), p)) = n + 1
        /\ \A x \in 1 .. n + 1 : Append(Contents(q), p)[x] = IF x = n + 1 THEN p ELSE Contents(q)[x]
    BY <2>1, WithNew
  <2>3. Contents(r) \in Seq(PageNumbers) /\ Len(Contents(r)) = n + 1
    BY <1>3, <1>10, ContentsType
  <2>4. \A x \in 1 .. n + 1 : Contents(r)[x] = r.array[Place(r, x)]
    BY <1>3 DEF Contents
  <2>5. \A x \in 1 .. n : Contents(q)[x] = q.array[Place(q, x)]
    BY DEF Contents, n
  <2>6. \A x \in 1 .. n + 1 : Contents(r)[x] = Append(Contents(q), p)[x]
    BY <1>0, <1>7, <2>2, <2>4, <2>5
  <2>. QED  BY <2>2, <2>3, <2>6, SameSequence
<1>. QED  BY <1>10, <1>11 DEF r

(* The first page is taken out.                                            *)
LEMMA Dequeued ==
    ASSUME K \in Nat \ {0}, NEW q, Ring(q), q.size > 0
    PROVE  /\ Ring(dequeue(q)) /\ dequeue(q).size = q.size - 1
           /\ Contents(dequeue(q)) = RemoveAt(Contents(q), 1)
<1>. DEFINE r == dequeue(q)
            f == (q.front + 1) % K
            n == q.size
<1>0. n \in 1 .. K /\ q.front \in 0 .. K - 1 /\ q.rear \in 0 .. K - 1 /\ q \in Queues
  BY DEF Ring, Queues
<1>1. f = Wrap(q.front + 1) /\ f \in 0 .. K - 1
  BY <1>0, ModWrap
<1>. HIDE DEF f
<1>2. r = [front |-> f, rear |-> q.rear, size |-> n - 1, array |-> q.array]
  <2>1. q = [front |-> q.front, rear |-> q.rear, size |-> n, array |-> q.array]
    BY <1>0 DEF Queues
  <2>2. r = [q EXCEPT !.front = f, !.size = n - 1]
    BY <1>0 DEF dequeue, f, Queues
  <2>. QED  BY <2>1, <2>2
<1>3. r \in Queues /\ r.front = f /\ r.rear = q.rear /\ r.size = n - 1 /\ r.array = q.array
  <2>1. n - 1 \in 0 .. K
    BY <1>0
  <2>. HIDE DEF n, r
  <2>. QED  BY <1>0, <1>1, <1>2, <2>1 DEF Queues
<1>. HIDE DEF n, r
<1>4. \A k \in 1 .. n - 1 : Place(r, k) = Place(q, k + 1)
  <2>1. ASSUME NEW k \in 1 .. n - 1 PROVE Place(r, k) = Place(q, k + 1)
    <3>1. k \in 1 .. r.size + 1 /\ k + 1 \in 1 .. q.size + 1
      BY <1>0, <1>3 DEF n
    <3>2. Place(r, k) = Wrap(f + k - 1) /\ Place(q, k + 1) = Wrap(q.front + (k + 1) - 1)
      BY <1>0, <1>3, <3>1, PlaceIs
    <3>3. Wrap(f + k - 1) = Wrap(q.front + (k + 1) - 1)
      BY <1>0, <1>1 DEF Wrap
    <3>. QED  BY <3>2, <3>3
  <2>. QED  BY <2>1
<1>5. \A k \in 1 .. n - 1 : r.array[Place(r, k)] = q.array[Place(q, k + 1)] /\ k + 1 \in 1 .. n
  BY <1>0, <1>3, <1>4
<1>6. \A k \in 1 .. n : q.array[Place(q, k)] \in PageNumbers
  BY DEF Ring, n
<1>7. Wrap(f + (n - 1)) = Wrap(q.front + n)
  BY <1>0, <1>1 DEF Wrap
<1>8. Ring(r)
  <2>1. Wrap(q.rear + 1) = Wrap(q.front + n)
    BY DEF Ring, n
  <2>. QED  BY <1>0, <1>3, <1>5, <1>6, <1>7, <2>1 DEF Ring
<1>9. Contents(q) \in Seq(PageNumbers) /\ Len(Contents(q)) = n
  BY ContentsType DEF n
<1>10. 1 \in 1 .. n /\ \A x \in 1 .. n - 1 : ~(x < 1)
  BY <1>0
<1>11. /\ RemoveAt(Contents(q), 1) \in Seq(PageNumbers) /\ Len(RemoveAt(Contents(q), 1)) = n - 1
       /\ \A x \in 1 .. n - 1 : RemoveAt(Contents(q), 1)[x] = Contents(q)[x + 1]
  BY <1>9, <1>10, WithoutPlace
<1>12. Contents(r) \in Seq(PageNumbers) /\ Len(Contents(r)) = n - 1
  BY <1>3, <1>8, ContentsType
<1>13. \A x \in 1 .. n - 1 : Contents(r)[x] = Contents(q)[x + 1]
  BY <1>3, <1>5 DEF Contents, n
<1>14. Contents(r) = RemoveAt(Contents(q), 1)
  BY <1>11, <1>12, <1>13, SameSequence
<1>. QED  BY <1>3, <1>8, <1>14 DEF r, n

(* The last page is taken out.                                             *)
LEMMA DequeuedRear ==
    ASSUME K \in Nat \ {0}, NEW q, Ring(q), q.size > 0
    PROVE  /\ Ring(dequeueRear(q)) /\ dequeueRear(q).size = q.size - 1
           /\ Contents(dequeueRear(q)) = RemoveAt(Contents(q), q.size)
<1>. DEFINE r == dequeueRear(q)
            b == (q.rear - 1 + K) % K
            n == q.size
<1>0. n \in 1 .. K /\ q.front \in 0 .. K - 1 /\ q.rear \in 0 .. K - 1 /\ q \in Queues
  BY DEF Ring, Queues
<1>1. b = Wrap(q.rear - 1 + K) /\ b \in 0 .. K - 1
  <2>1. q.rear - 1 + K \in 0 .. 2 * K - 1
    BY <1>0
  <2>. QED  BY <2>1, ModWrap
<1>. HIDE DEF b
<1>2. r = [front |-> q.front, rear |-> b, size |-> n - 1, array |-> q.array]
  <2>1. q = [front |-> q.front, rear |-> q.rear, size |-> n, array |-> q.array]
    BY <1>0 DEF Queues
  <2>2. r = [q EXCEPT !.rear = b, !.size = n - 1]
    BY <1>0 DEF dequeueRear, b, Queues
  <2>. QED  BY <2>1, <2>2
<1>3. r \in Queues /\ r.front = q.front /\ r.rear = b /\ r.size = n - 1 /\ r.array = q.array
  <2>1. n - 1 \in 0 .. K /\ b \in -1 .. K - 1
    BY <1>0, <1>1
  <2>. HIDE DEF n, r
  <2>. QED  BY <1>0, <1>2, <2>1 DEF Queues
<1>. HIDE DEF n, r
<1>4. \A k \in 1 .. n - 1 : r.array[Place(r, k)] = q.array[Place(q, k)] /\ k \in 1 .. n
  BY <1>0, <1>3 DEF Place
<1>6. \A k \in 1 .. n : q.array[Place(q, k)] \in PageNumbers
  BY DEF Ring, n
<1>7. Wrap(b + 1) = Wrap(q.front + (n - 1))
  <2>1. Wrap(q.rear + 1) = Wrap(q.front + n)
    BY DEF Ring, n
  <2>2. Wrap(b + 1) = q.rear
    BY <1>0, <1>1 DEF Wrap
  <2>3. Wrap(q.front + (n - 1)) = q.rear
    <3>1. CASE q.front + n < K
      <4>1. Wrap(q.rear + 1) = q.front + n /\ q.front + n > 0 /\ Wrap(q.front + (n - 1)) = q.front + n - 1
        BY <1>0, <2>1, <3>1 DEF Wrap
      <4>2. q.rear + 1 = q.front + n
        BY <1>0, <4>1 DEF Wrap
      <4>. QED  BY <1>0, <4>1, <4>2
    <3>2. CASE q.front + n >= K
      <4>1. Wrap(q.rear + 1) = q.front + n - K
        BY <1>0, <2>1, <3>2 DEF Wrap
      <4>. QED  BY <1>0, <3>2, <4>1 DEF Wrap
    <3>. QED  BY <1>0, <3>1, <3>2
  <2>. QED  BY <2>2, <2>3
<1>8. Ring(r)
  BY <1>0, <1>1, <1>3, <1>4, <1>6, <1>7 DEF Ring
<1>9. Contents(q) \in Seq(PageNumbers) /\ Len(Contents(q)) = n
  BY ContentsType DEF n
<1>10. n \in 1 .. n /\ \A x \in 1 .. n - 1 : x < n
  BY <1>0
<1>11. /\ RemoveAt(Contents(q), n) \in Seq(PageNumbers) /\ Len(RemoveAt(Contents(q), n)) = n - 1
       /\ \A x \in 1 .. n - 1 : RemoveAt(Contents(q), n)[x] = Contents(q)[x]
  <2>1. /\ RemoveAt(Contents(q), n) \in Seq(PageNumbers) /\ Len(RemoveAt(Contents(q), n)) = n - 1
        /\ \A x \in 1 .. n - 1 : RemoveAt(Contents(q), n)[x] =
                                    IF x < n THEN Contents(q)[x] ELSE Contents(q)[x + 1]
    BY <1>9, <1>10, WithoutPlace, ZenonT(20)
  <2>. QED  BY <1>10, <2>1
<1>12. Contents(r) \in Seq(PageNumbers) /\ Len(Contents(r)) = n - 1
  BY <1>3, <1>8, ContentsType
<1>13. \A x \in 1 .. n - 1 : Contents(r)[x] = Contents(q)[x]
  BY <1>3, <1>4 DEF Contents, n
<1>14. Contents(r) = RemoveAt(Contents(q), n)
  BY <1>11, <1>12, <1>13, SameSequence
<1>. QED  BY <1>3, <1>8, <1>14 DEF r, n

(* What is replaced by FIFO and by LIFO is the first and the last page.    *)
LEMMA Ends ==
    ASSUME K \in Nat \ {0}, NEW q, Ring(q), q.size > 0
    PROVE  q.array[q.front] = Contents(q)[1] /\ q.array[q.rear] = Contents(q)[q.size]
<1>0. /\ q.size \in 1 .. K /\ q.front \in 0 .. K - 1 /\ q.rear \in 0 .. K - 1 /\ q \in Queues
      /\ Wrap(q.rear + 1) = Wrap(q.front + q.size)
  BY DEF Ring, Queues
<1>1. 1 \in 1 .. q.size + 1 /\ q.size \in 1 .. q.size + 1 /\ 1 \in 1 .. q.size /\ q.size \in 1 .. q.size
  BY <1>0
<1>2. Place(q, 1) = Wrap(q.front + 1 - 1) /\ Place(q, q.size) = Wrap(q.front + q.size - 1)
  BY <1>0, <1>1, PlaceIs
<1>3. Place(q, 1) = q.front
  BY <1>0, <1>2 DEF Wrap
<1>4. Place(q, q.size) = q.rear
  BY <1>0, <1>2 DEF Wrap
<1>. QED  BY <1>1, <1>3, <1>4 DEF Contents

LEMMA NoPages == ASSUME K \in Nat \ {0}
                 PROVE  /\ Ring(NewQueue(K)) /\ Contents(NewQueue(K)) = <<>>
                        /\ Lists(<<>>, {})
<1>1. NewQueue(K).front = 0 /\ NewQueue(K).rear = -1 /\ NewQueue(K).size = 0
  BY DEF NewQueue
<1>2. NewQueue(K) \in Queues
  BY DEF NewQueue, Queues
<1>3. Ring(NewQueue(K))
  BY <1>1, <1>2 DEF Ring, Wrap
<1>4. Contents(NewQueue(K)) \in Seq(PageNumbers) /\ Len(Contents(NewQueue(K))) = 0
  BY <1>1, <1>3, ContentsType
<1>5. Lists(<<>>, {})
  BY DEF Lists, IsInjective, ToSet
<1>. QED  BY <1>3, <1>4, <1>5, EmptySeq

-----------------------------------------------------------------------------
(* The links of a list lead through s from the tail to the head.           *)
LinkedBy(l, s) ==
    LET n == Len(s)
    IN  /\ l.tail = IF n = 0 THEN NULL ELSE s[1]
        /\ l.head = IF n = 0 THEN NULL ELSE s[n]
        /\ DOMAIN l.next = ToSet(s) /\ DOMAIN l.prev = ToSet(s)
        /\ \A x \in 1 .. n : /\ l.next[s[x]] = IF x = 1 THEN NULL ELSE s[x - 1]
                             /\ l.prev[s[x]] = IF x = n THEN NULL ELSE s[x + 1]

(* No page has the number that stands for no node.                         *)
LEMMA NoNull == ASSUME NEW p \in PageNumbers PROVE p # NULL
BY TLBAssumption DEF NULL

(* What the lemmas about links use of a sequence of distinct pages.        *)
LEMMA Distinct ==
    ASSUME NEW S, NEW s, Lists(s, S)
    PROVE  /\ Len(s) \in Nat /\ ToSet(s) = S
           /\ \A x \in 1 .. Len(s) : s[x] \in S /\ s[x] \in PageNumbers /\ s[x] # NULL
           /\ \A x, y \in 1 .. Len(s) : s[x] = s[y] => x = y
           /\ \A p \in S : p \in PageNumbers /\ \E x \in 1 .. Len(s) : s[x] = p
<1>1. Len(s) \in Nat /\ DOMAIN s = 1 .. Len(s) /\ \A x \in 1 .. Len(s) : s[x] \in PageNumbers
  BY Elements DEF Lists
<1>2. \A x \in 1 .. Len(s) : s[x] # NULL
  BY <1>1, NoNull
<1>. QED  BY <1>1, <1>2 DEF Lists, IsInjective, ToSet

LEMMA NewListLinked == LinkedBy(NewList, <<>>)
BY DEF LinkedBy, NewList, EmptyMap, ToSet

(* A new node is put before the head.                                      *)
LEMMA Pushed ==
    ASSUME NEW S, NEW s, Lists(s, S), NEW l, LinkedBy(l, s), NEW p \in PageNumbers, p \notin S
    PROVE  LinkedBy(PushFront(l, p), Append(s, p))
<1>. DEFINE m == PushFront(l, p)
            t == Append(s, p)
            n == Len(s)
<1>1. /\ n \in Nat /\ \A x \in 1 .. n : s[x] \in S /\ s[x] # NULL
      /\ \A x, y \in 1 .. n : s[x] = s[y] => x = y
      /\ ToSet(s) = S
  BY Distinct
<1>2. /\ l.tail = IF n = 0 THEN NULL ELSE s[1]
      /\ l.head = IF n = 0 THEN NULL ELSE s[n]
      /\ DOMAIN l.next = S /\ DOMAIN l.prev = S
      /\ \A x \in 1 .. n : /\ l.next[s[x]] = IF x = 1 THEN NULL ELSE s[x - 1]
                           /\ l.prev[s[x]] = IF x = n THEN NULL ELSE s[x + 1]
  BY <1>1 DEF LinkedBy
<1>3. /\ Len(t) = n + 1 /\ ToSet(t) = S \cup {p}
      /\ \A x \in 1 .. n + 1 : t[x] = IF x = n + 1 THEN p ELSE s[x]
  BY ListsNew, WithNew DEF Lists
<1>. HIDE DEF t, n
<1>4. /\ m.head = p /\ m.tail = IF l.tail = NULL THEN p ELSE l.tail
      /\ DOMAIN m.next = S \cup {p} /\ DOMAIN m.prev = S \cup {p}
      /\ m.next[p] = l.head /\ m.prev[p] = NULL
      /\ \A q \in S : /\ m.next[q] = l.next[q]
                      /\ m.prev[q] = IF q = l.head THEN p ELSE l.prev[q]
  BY <1>2 DEF PushFront, Put
<1>. HIDE DEF m
<1>5. m.tail = t[1]
  BY <1>1, <1>2, <1>3, <1>4
<1>6. m.head = t[n + 1]
  BY <1>1, <1>3, <1>4
<1>7. m.next[t[n + 1]] = (IF n + 1 = 1 THEN NULL ELSE t[n]) /\ m.prev[t[n + 1]] = NULL
  BY <1>1, <1>2, <1>3, <1>4
<1>8. ASSUME NEW x \in 1 .. n
      PROVE  /\ m.next[t[x]] = IF x = 1 THEN NULL ELSE t[x - 1]
             /\ m.prev[t[x]] = t[x + 1]
  <2>1. /\ x \in 1 .. n + 1 /\ x # n + 1 /\ x + 1 \in 1 .. n + 1 /\ t[x] = s[x]
        /\ (x # 1 => x - 1 \in 1 .. n + 1 /\ x - 1 # n + 1 /\ t[x - 1] = s[x - 1])
    BY <1>1, <1>3
  <2>2. m.next[t[x]] = IF x = 1 THEN NULL ELSE t[x - 1]
    BY <1>1, <1>2, <1>4, <2>1
  <2>3. CASE x = n
    BY <1>1, <1>2, <1>3, <1>4, <2>1, <2>2, <2>3
  <2>4. CASE x # n
    <3>1. n \in 1 .. n /\ s[x] # s[n] /\ x + 1 # n + 1 /\ n # 0
      BY <1>1, <2>4
    <3>2. m.prev[s[x]] = l.prev[s[x]]
      BY <1>1, <1>2, <1>4, <3>1
    <3>3. t[x + 1] = s[x + 1]
      BY <1>3, <2>1, <3>1
    <3>. QED  BY <1>2, <2>1, <2>2, <2>4, <3>2, <3>3
  <2>. QED  BY <2>3, <2>4
<1>9. ASSUME NEW x \in 1 .. n + 1
      PROVE  /\ m.next[t[x]] = IF x = 1 THEN NULL ELSE t[x - 1]
             /\ m.prev[t[x]] = IF x = n + 1 THEN NULL ELSE t[x + 1]
  <2>1. CASE x = n + 1
    <3>1. x - 1 = n
      BY <1>1, <2>1
    <3>. QED  BY <1>7, <2>1, <3>1
  <2>2. CASE x # n + 1
    <3>1. x \in 1 .. n
      BY <1>1, <2>2
    <3>. QED  BY <1>8, <2>2, <3>1
  <2>. QED  BY <2>1, <2>2
<1>10. n + 1 # 0
  BY <1>1
<1>11. LinkedBy(m, t)
  BY <1>3, <1>4, <1>5, <1>6, <1>9, <1>10 DEF LinkedBy
<1>. QED  BY <1>11 DEF m, t

(* The last node is removed.                                               *)
LEMMA Dropped ==
    ASSUME NEW S, NEW s, Lists(s, S), NEW l, LinkedBy(l, s), Len(s) # 0
    PROVE  LinkedBy(DropTail(l), RemoveAt(s, 1)) /\ l.tail = s[1]
<1>. DEFINE m == DropTail(l)
            t == RemoveAt(s, 1)
            n == Len(s)
<1>1. /\ n \in Nat /\ n >= 1 /\ \A x \in 1 .. n : s[x] \in S /\ s[x] # NULL
      /\ \A x, y \in 1 .. n : s[x] = s[y] => x = y
      /\ ToSet(s) = S
  BY Distinct
<1>2. /\ l.tail = s[1] /\ l.head = s[n]
      /\ DOMAIN l.next = S /\ DOMAIN l.prev = S
      /\ \A x \in 1 .. n : /\ l.next[s[x]] = IF x = 1 THEN NULL ELSE s[x - 1]
                           /\ l.prev[s[x]] = IF x = n THEN NULL ELSE s[x + 1]
  BY <1>1 DEF LinkedBy
<1>3. /\ Len(t) = n - 1 /\ ToSet(t) = S \ {s[1]}
      /\ \A x \in 1 .. n - 1 : t[x] = s[x + 1]
  <2>1. 1 \in 1 .. n /\ \A x \in 1 .. n - 1 : ~(x < 1)
    BY <1>1
  <2>2. ToSet(t) = S \ {s[1]}
    BY <2>1, ListsWithout DEF Lists
  <2>3. /\ Len(t) = n - 1
        /\ \A x \in 1 .. n - 1 : t[x] = IF x < 1 THEN s[x] ELSE s[x + 1]
    BY <2>1, WithoutPlace DEF Lists
  <2>. HIDE DEF t, n
  <2>. QED  BY <2>1, <2>2, <2>3
<1>. HIDE DEF t, n
<1>4. CASE n = 1
  <2>1. l.prev[l.tail] = NULL
    BY <1>1, <1>2, <1>4
  <2>2. m = NewList
    BY <2>1 DEF DropTail
  <2>3. ToSet(t) = {} /\ Len(t) = 0
    <3>1. \A x \in 1 .. n : x = 1
      BY <1>4
    <3>2. S \subseteq {s[1]}
      BY <3>1, Distinct DEF n
    <3>. QED  BY <1>3, <1>4, <3>2
  <2>4. LinkedBy(m, t)
    BY <2>2, <2>3 DEF LinkedBy, NewList, EmptyMap
  <2>. QED  BY <1>2, <2>4 DEF m, t
<1>5. CASE n # 1
  <2>1. 1 \in 1 .. n /\ 2 \in 1 .. n /\ l.prev[l.tail] = s[2] /\ s[2] # NULL /\ s[2] # s[1] /\ s[2] \in S
    BY <1>1, <1>2, <1>5
  <2>2. m = [head |-> l.head, tail |-> s[2],
             next |-> [Erase(l.next, l.tail) EXCEPT ![s[2]] = NULL], prev |-> Erase(l.prev, l.tail)]
    BY <2>1 DEF DropTail
  <2>. HIDE DEF m
  <2>3. /\ m.head = s[n] /\ m.tail = s[2]
        /\ DOMAIN m.next = S \ {s[1]} /\ DOMAIN m.prev = S \ {s[1]}
        /\ \A q \in S \ {s[1]} : /\ m.next[q] = IF q = s[2] THEN NULL ELSE l.next[q]
                                 /\ m.prev[q] = l.prev[q]
    BY <1>2, <2>1, <2>2 DEF Erase
  <2>4. t[1] = s[2] /\ t[n - 1] = s[n] /\ n - 1 # 0
    BY <1>1, <1>3, <1>5
  <2>5. ASSUME NEW x \in 1 .. n - 1
        PROVE  /\ m.next[t[x]] = IF x = 1 THEN NULL ELSE t[x - 1]
               /\ m.prev[t[x]] = IF x = n - 1 THEN NULL ELSE t[x + 1]
    <3>1. /\ x + 1 \in 1 .. n /\ x + 1 # 1 /\ t[x] = s[x + 1] /\ (x + 1) - 1 = x
          /\ (x # 1 => x - 1 \in 1 .. n - 1 /\ (x - 1) + 1 = x /\ x + 1 # 2)
          /\ (x # n - 1 => x + 1 \in 1 .. n - 1 /\ x + 1 # n) /\ (x = n - 1 => x + 1 = n)
      BY <1>1, <1>3
    <3>2. t[x] \in S \ {s[1]}
      BY <1>1, <2>1, <3>1
    <3>3. x # 1 => t[x - 1] = s[x] /\ s[x + 1] # s[2]
      BY <1>1, <1>3, <2>1, <3>1
    <3>4. x = 1 => x + 1 = 2
      OBVIOUS
    <3>5. m.next[t[x]] = IF x = 1 THEN NULL ELSE t[x - 1]
      BY <1>2, <2>3, <3>1, <3>2, <3>3, <3>4
    <3>6. x # n - 1 => t[x + 1] = s[(x + 1) + 1]
      BY <1>3, <3>1
    <3>7. m.prev[t[x]] = IF x = n - 1 THEN NULL ELSE t[x + 1]
      BY <1>2, <2>3, <3>1, <3>2, <3>6
    <3>. QED  BY <3>5, <3>7
  <2>6. LinkedBy(m, t)
    BY <1>1, <1>3, <2>3, <2>4, <2>5 DEF LinkedBy
  <2>. QED  BY <1>2, <2>6 DEF m, t
<1>. QED  BY <1>4, <1>5

(* A node is moved to the front.                                           *)
LEMMA Moved ==
    ASSUME NEW S, NEW s, Lists(s, S), NEW l, LinkedBy(l, s), NEW k \in 1 .. Len(s)
    PROVE  LinkedBy(MoveToFront(l, s[k]), Append(RemoveAt(s, k), s[k]))
<1>. DEFINE p == s[k]
            m == MoveToFront(l, p)
            r == RemoveAt(s, k)
            t == Append(r, p)
            n == Len(s)
<1>1. /\ n \in Nat /\ n # 0 /\ k \in 1 .. n /\ \A x \in 1 .. n : s[x] \in S /\ s[x] # NULL
      /\ \A x, y \in 1 .. n : s[x] = s[y] => x = y
      /\ ToSet(s) = S
  BY Distinct
<1>2. /\ l.tail = s[1] /\ l.head = s[n]
      /\ DOMAIN l.next = S /\ DOMAIN l.prev = S
      /\ \A x \in 1 .. n : /\ l.next[s[x]] = IF x = 1 THEN NULL ELSE s[x - 1]
                           /\ l.prev[s[x]] = IF x = n THEN NULL ELSE s[x + 1]
  BY <1>1 DEF LinkedBy
<1>3. /\ t \in Seq(PageNumbers) /\ Len(t) = n /\ ToSet(t) = S
      /\ \A x \in 1 .. n : t[x] = IF x = n THEN p ELSE IF x < k THEN s[x] ELSE s[x + 1]
  <2>1. /\ Lists(r, S \ {p}) /\ p \in S /\ p \in PageNumbers
    BY ListsWithout, Distinct
  <2>2. /\ r \in Seq(PageNumbers) /\ Len(r) = n - 1
        /\ \A x \in 1 .. n - 1 : r[x] = IF x < k THEN s[x] ELSE s[x + 1]
    BY WithoutPlace DEF Lists
  <2>3. Lists(t, (S \ {p}) \cup {p})
    BY <2>1, ListsNew
  <2>4. (S \ {p}) \cup {p} = S
    BY <2>1
  <2>5. /\ Len(t) = (n - 1) + 1
        /\ \A x \in 1 .. (n - 1) + 1 : t[x] = IF x = (n - 1) + 1 THEN p ELSE r[x]
    BY <2>1, <2>2, WithNew
  <2>. HIDE DEF t, r, n, p
  <2>6. (n - 1) + 1 = n /\ \A x \in 1 .. n : x # n => x \in 1 .. n - 1
    BY <1>1
  <2>. QED  BY <2>2, <2>3, <2>4, <2>5, <2>6 DEF Lists
<1>4. CASE k = n
  <2>1. m = l
    BY <1>2, <1>4 DEF MoveToFront
  <2>2. \A x \in 1 .. n : t[x] = s[x]
    <3>. HIDE DEF t, n
    <3>. QED  BY <1>1, <1>3, <1>4
  <2>3. t = s
    BY <1>3, <2>2, SameSequence DEF Lists
  <2>. QED  BY <2>1, <2>3
<1>5. CASE k # n
  <2>0. l.head # p
    BY <1>1, <1>2, <1>5
  <2>1. m = [next |-> [q \in S |-> IF q = p THEN l.head
                                   ELSE IF q = l.prev[p] THEN l.next[p] ELSE l.next[q]],
             prev |-> [q \in S |-> IF q = p THEN NULL ELSE IF q = l.head THEN p
                                   ELSE IF q = l.next[p] THEN l.prev[p] ELSE l.prev[q]],
             tail |-> IF p = l.tail THEN l.prev[p] ELSE l.tail,
             head |-> p]
    BY <1>2, <2>0 DEF MoveToFront
  <2>. HIDE DEF m, t, n
  <2>2. /\ DOMAIN m.next = S /\ DOMAIN m.prev = S /\ m.head = p
        /\ m.tail = IF k = 1 THEN s[2] ELSE s[1]
        /\ \A q \in S : /\ m.next[q] = IF q = p THEN s[n] ELSE IF q = s[k + 1] THEN l.next[p]
                                       ELSE l.next[q]
                        /\ m.prev[q] = IF q = p THEN NULL ELSE IF q = s[n] THEN p
                                       ELSE IF q = l.next[p] THEN s[k + 1] ELSE l.prev[q]
    <3>1. 1 \in 1 .. n /\ l.prev[p] = s[k + 1] /\ (p = s[1] <=> k = 1) /\ (k = 1 => s[k + 1] = s[2])
      BY <1>1, <1>2, <1>5
    <3>. QED  BY <1>2, <2>1, <3>1
  <2>3. \A x, y \in 1 .. n : s[x] = s[y] <=> x = y
    BY <1>1
  <2>4. \A x \in 1 .. n : k # 1 => (s[x] = l.next[p] <=> x = k - 1)
    BY <1>1, <1>2, <2>3
  <2>5. k = 1 => l.next[p] = NULL
    BY <1>1, <1>2
  <2>6. k + 1 \in 1 .. n /\ n \in 1 .. n /\ k < n
    BY <1>1, <1>5
  (* The links by places in s.                                             *)
  <2>7. ASSUME NEW x \in 1 .. n
        PROVE  /\ m.next[s[x]] = IF x = k THEN s[n] ELSE IF x = k + 1
                                 THEN (IF k = 1 THEN NULL ELSE s[k - 1])
                                 ELSE IF x = 1 THEN NULL ELSE s[x - 1]
               /\ m.prev[s[x]] = IF x = k THEN NULL ELSE IF x = n THEN p
                                 ELSE IF x = k - 1 THEN s[k + 1] ELSE s[x + 1]
    <3>1. s[x] \in S /\ (s[x] = p <=> x = k) /\ (s[x] = s[k + 1] <=> x = k + 1) /\ (s[x] = s[n] <=> x = n)
      BY <1>1, <2>3, <2>6
    <3>2. m.next[s[x]] = IF x = k THEN s[n] ELSE IF x = k + 1 THEN l.next[p] ELSE l.next[s[x]]
      BY <2>2, <3>1
    <3>3. s[x] = l.next[p] <=> (k # 1 /\ x = k - 1)
      BY <1>1, <2>4, <2>5
    <3>4. m.prev[s[x]] = IF x = k THEN NULL ELSE IF x = n THEN p
                         ELSE IF k # 1 /\ x = k - 1 THEN s[k + 1] ELSE l.prev[s[x]]
      BY <2>2, <3>1, <3>3
    <3>5. x = k - 1 => k # 1
      BY <1>1
    <3>. QED  BY <1>1, <1>2, <3>2, <3>4, <3>5
  <2>8. t[n] = p /\ \A x \in 1 .. n - 1 : t[x] = IF x < k THEN s[x] ELSE s[x + 1]
    BY <1>1, <1>3
  <2>9. m.tail = t[1] /\ m.head = t[n]
    <3>1. 1 \in 1 .. n - 1
      BY <1>1, <2>6
    <3>. QED  BY <1>1, <2>2, <2>8, <3>1
  <2>10. m.next[t[n]] = t[n - 1] /\ m.prev[t[n]] = NULL
    <3>1. n - 1 \in 1 .. n - 1 /\ ~(n - 1 < k) /\ (n - 1) + 1 = n
      BY <1>1, <2>6
    <3>. QED  BY <1>1, <2>7, <2>8, <3>1
  <2>11. ASSUME NEW x \in 1 .. n - 1
         PROVE  /\ m.next[t[x]] = IF x = 1 THEN NULL ELSE t[x - 1]
                /\ m.prev[t[x]] = t[x + 1]
    <3>1. CASE x < k
      <4>1. x \in 1 .. n /\ x # k /\ x # k + 1 /\ x # n /\ t[x] = s[x]
        BY <1>1, <2>6, <2>8, <3>1
      <4>2. x # 1 => t[x - 1] = s[x - 1]
        <5>1. x # 1 => x - 1 \in 1 .. n - 1 /\ x - 1 < k
          BY <1>1, <3>1
        <5>. QED  BY <2>8, <5>1
      <4>3. t[x + 1] = IF x = k - 1 THEN s[k + 1] ELSE s[x + 1]
        <5>1. x + 1 \in 1 .. n - 1 /\ (x = k - 1 <=> ~(x + 1 < k)) /\ (x = k - 1 => (x + 1) + 1 = k + 1)
          BY <1>1, <2>6, <3>1
        <5>. QED  BY <2>8, <5>1
      <4>. QED  BY <2>7, <4>1, <4>2, <4>3
    <3>2. CASE x >= k
      <4>1. x + 1 \in 1 .. n /\ x + 1 # k /\ x + 1 # 1 /\ x + 1 # k - 1 /\ t[x] = s[x + 1]
            /\ (x + 1) - 1 = x
        BY <1>1, <2>6, <2>8, <3>2
      <4>2. CASE x = k
        <5>1. k # 1 => k - 1 \in 1 .. n - 1 /\ k - 1 < k
          BY <1>1, <2>6
        <5>2. k # 1 => t[k - 1] = s[k - 1]
          BY <2>8, <5>1
        <5>3. x + 1 = k + 1
          BY <4>2
        <5>. QED  BY <2>7, <4>1, <4>2, <5>2, <5>3, <2>8, <1>1, <2>6, <1>3
      <4>3. CASE x # k
        <5>1. x + 1 # k + 1 /\ x # 1 /\ x - 1 \in 1 .. n - 1 /\ ~(x - 1 < k) /\ (x - 1) + 1 = x
          BY <1>1, <3>2, <4>3
        <5>2. t[x - 1] = s[x]
          BY <2>8, <5>1
        <5>. QED  BY <2>7, <4>1, <5>1, <5>2, <2>8, <1>1, <2>6, <1>3, <3>2
      <4>. QED  BY <4>2, <4>3
    <3>. QED  BY <1>1, <3>1, <3>2
  <2>12. ASSUME NEW x \in 1 .. n
         PROVE  /\ m.next[t[x]] = IF x = 1 THEN NULL ELSE t[x - 1]
                /\ m.prev[t[x]] = IF x = n THEN NULL ELSE t[x + 1]
    <3>1. n # 1 /\ (x # n => x \in 1 .. n - 1)
      BY <1>1, <2>6
    <3>. QED  BY <2>10, <2>11, <3>1
  <2>13. LinkedBy(m, t)
    BY <1>1, <1>3, <2>2, <2>9, <2>12 DEF LinkedBy
  <2>. QED  BY <2>13 DEF m, t
<1>. QED  BY <1>4, <1>5

(* There is a least number of a non-empty set.                             *)
LEMMA LeastNatural == ASSUME NEW S \in SUBSET Nat, S # {}
                      PROVE  \E m \in S : \A k \in S : m <= k
<1>1. PICK m \in S : \A k \in S : ~(<<k, m>> \in OpToRel(<, Nat))
  BY WFMin, NatLessThanWellFounded, Zenon
<1>2. \A k \in S : ~(k < m)
  BY <1>1, Zenon DEF OpToRel
<1>. QED  BY <1>2

(* What Listed is of any list.                                             *)
Followed(l) == LET pages == Cardinality(DOMAIN l.next)
                   walk[n \in 0 .. pages] ==
                       IF n = 0 THEN <<>>
                       ELSE Append(walk[n - 1], IF n = 1 THEN l.tail ELSE l.prev[Last(walk[n - 1])])
               IN  walk[pages]

LEMMA ListedFollowed == Listed = Followed(list) /\ Listed' = Followed(list')
BY DEF Listed, Followed

(* The links followed from the tail give s.                                *)
LEMMA FollowedIs == ASSUME NEW l, NEW S, NEW s, Lists(s, S), LinkedBy(l, s)
                    PROVE  Followed(l) = s
<1>. DEFINE n == Len(s)
            pages == Cardinality(DOMAIN l.next)
            F(f) == [m \in 0 .. pages |->
                        IF m = 0 THEN <<>>
                        ELSE Append(f[m - 1], IF m = 1 THEN l.tail ELSE l.prev[Last(f[m - 1])])]
            walk == CHOOSE f : f = F(f)
            g == [m \in 0 .. n |-> SubSeq(s, 1, m)]
<1>1. /\ n \in Nat /\ s \in Seq(PageNumbers) /\ ToSet(s) = S
      /\ \A x \in 1 .. n : s[x] \in PageNumbers
  BY Distinct DEF Lists
<1>2. pages = n
  BY ListsSize, <1>1 DEF LinkedBy
<1>3. n # 0 => l.tail = s[1]
  BY DEF LinkedBy
<1>4. \A x \in 1 .. n : x # n => l.prev[s[x]] = s[x + 1]
  BY DEF LinkedBy
<1>5. Followed(l) = walk[n]
  BY <1>2 DEF Followed
<1>. HIDE DEF n, pages
<1>6. \A m \in 0 .. n : /\ SubSeq(s, 1, m) \in Seq(PageNumbers) /\ Len(SubSeq(s, 1, m)) = m
                        /\ \A x \in 1 .. m : SubSeq(s, 1, m)[x] = s[x]
  <2>1. ASSUME NEW m \in 0 .. n
        PROVE  /\ SubSeq(s, 1, m) \in Seq(PageNumbers) /\ Len(SubSeq(s, 1, m)) = m
               /\ \A x \in 1 .. m : SubSeq(s, 1, m)[x] = s[x]
    <3>1. m \in Nat /\ \A x \in 1 .. m : s[x] \in PageNumbers
      BY <1>1
    <3>2. /\ SubSeq(s, 1, m) \in Seq(PageNumbers)
          /\ Len(SubSeq(s, 1, m)) = IF 1 <= m THEN m - 1 + 1 ELSE 0
          /\ \A x \in 1 .. m - 1 + 1 : SubSeq(s, 1, m)[x] = s[1 + x - 1]
      BY <3>1, SubSeqProperties
    <3>. QED  BY <3>1, <3>2
  <2>. QED  BY <2>1
<1>7. ASSUME NEW m \in 1 .. n PROVE Append(SubSeq(s, 1, m - 1), s[m]) = SubSeq(s, 1, m)
  <2>1. m - 1 \in 0 .. n /\ m \in 0 .. n /\ (m - 1) + 1 = m /\ s[m] \in PageNumbers
    BY <1>1
  <2>2. /\ SubSeq(s, 1, m - 1) \in Seq(PageNumbers) /\ Len(SubSeq(s, 1, m - 1)) = m - 1
        /\ \A x \in 1 .. m - 1 : SubSeq(s, 1, m - 1)[x] = s[x]
        /\ SubSeq(s, 1, m) \in Seq(PageNumbers) /\ Len(SubSeq(s, 1, m)) = m
        /\ \A x \in 1 .. m : SubSeq(s, 1, m)[x] = s[x]
    BY <1>6, <2>1
  <2>. DEFINE a == Append(SubSeq(s, 1, m - 1), s[m])
  <2>3. /\ a \in Seq(PageNumbers) /\ Len(a) = m
        /\ \A x \in 1 .. m : a[x] = IF x = m THEN s[m] ELSE SubSeq(s, 1, m - 1)[x]
    <3>1. /\ a \in Seq(PageNumbers) /\ Len(a) = (m - 1) + 1
          /\ \A x \in 1 .. (m - 1) + 1 : a[x] = IF x = (m - 1) + 1 THEN s[m] ELSE SubSeq(s, 1, m - 1)[x]
      BY <2>1, <2>2, WithNew
    <3>. HIDE DEF a
    <3>. QED  BY <2>1, <3>1
  <2>. HIDE DEF a
  <2>4. \A x \in 1 .. m : x # m => x \in 1 .. m - 1
    OBVIOUS
  <2>5. \A x \in 1 .. m : a[x] = SubSeq(s, 1, m)[x]
    BY <2>2, <2>3, <2>4
  <2>6. a = SubSeq(s, 1, m)
    BY <2>2, <2>3, <2>5, SameSequence
  <2>. QED  BY <2>6 DEF a
<1>8. \A m \in 1 .. n : (IF m = 1 THEN l.tail ELSE l.prev[Last(SubSeq(s, 1, m - 1))]) = s[m]
  <2>1. ASSUME NEW m \in 1 .. n, m # 1 PROVE l.prev[Last(SubSeq(s, 1, m - 1))] = s[m]
    <3>1. m - 1 \in 0 .. n /\ m - 1 \in 1 .. m - 1 /\ m - 1 \in 1 .. n /\ m - 1 # n /\ (m - 1) + 1 = m
      BY <1>1, <2>1
    <3>2. Last(SubSeq(s, 1, m - 1)) = s[m - 1]
      BY <1>6, <3>1 DEF Last
    <3>. QED  BY <1>4, <3>1, <3>2
  <2>2. 1 \in 1 .. n => n # 0
    BY <1>1
  <2>. QED  BY <1>3, <2>1, <2>2
<1>9. SubSeq(s, 1, 0) = <<>>
  <2>1. 0 \in 0 .. n
    BY <1>1
  <2>. QED  BY <1>6, <2>1, EmptySeq
<1>10. SubSeq(s, 1, n) = s
  <2>1. n \in 0 .. n /\ n = Len(s)
    BY <1>1 DEF n
  <2>. QED  BY <1>1, <1>6, <2>1, SameSequence
<1>11. g = F(g)
  <2>1. ASSUME NEW m \in 0 .. n PROVE g[m] = F(g)[m]
    <3>1. CASE m = 0
      BY <1>2, <1>9, <3>1
    <3>2. CASE m # 0
      <4>1. m \in 1 .. n /\ m - 1 \in 0 .. n
        BY <1>1, <3>2
      <4>. QED  BY <1>2, <1>7, <1>8, <3>2, <4>1
    <3>. QED  BY <3>1, <3>2
  <2>. QED  BY <1>2, <2>1
<1>12. walk = F(walk)
  <2>. HIDE DEF g, F
  <2>. QED  BY <1>11, Zenon
<1>. HIDE DEF walk
<1>13. ASSUME NEW m \in 0 .. n PROVE walk[m] = g[m]
  <2>. DEFINE Wrong == {k \in 0 .. n : walk[k] # g[k]}
  <2>. SUFFICES ASSUME Wrong # {} PROVE FALSE
    OBVIOUS
  <2>1. PICK k \in Wrong : \A j \in Wrong : k <= j
    <3>1. Wrong \in SUBSET Nat
      OBVIOUS
    <3>. HIDE DEF Wrong
    <3>. QED  BY <3>1, LeastNatural
  <2>2. k # 0
    <3>1. 0 \in 0 .. n
      BY <1>1
    <3>2. walk[0] = <<>> /\ g[0] = <<>>
      BY <1>2, <1>11, <1>12, <3>1
    <3>. QED  BY <3>2
  <2>3. k \in 1 .. n /\ k - 1 \in 0 .. n /\ k - 1 \notin Wrong
    <3>1. k \in 1 .. n /\ k - 1 \in 0 .. n /\ ~(k <= k - 1)
      BY <1>1, <2>2
    <3>. QED  BY <2>1, <3>1
  <2>. HIDE DEF g
  <2>4. walk[k - 1] = g[k - 1]
    BY <2>3
  <2>5. walk[k] = F(walk)[k] /\ g[k] = F(g)[k]
    <3>. HIDE DEF F, Wrong
    <3>. QED  BY <1>11, <1>12
  <2>6. F(walk)[k] = F(g)[k]
    BY <1>2, <2>2, <2>3, <2>4
  <2>. QED  BY <2>1, <2>5, <2>6
<1>14. n \in 0 .. n
  BY <1>1
<1>. QED  BY <1>5, <1>10, <1>13, <1>14

-----------------------------------------------------------------------------
(* u has the pages among the first n accesses, each with its last one.     *)
LastUses(u, n) ==
    /\ DOMAIN u = {addresses[j] : j \in 0 .. n - 1}
    /\ \A p \in DOMAIN u : /\ u[p] \in 0 .. n - 1 /\ addresses[u[p]] = p
                           /\ \A k \in u[p] + 1 .. n - 1 : addresses[k] # p

(* Pages have been used in the order in which they are listed.             *)
InOrder(s, u) == /\ \A x \in 1 .. Len(s) : s[x] \in DOMAIN u
                 /\ \A x, y \in 1 .. Len(s) : x < y => u[s[x]] < u[s[y]]

(* Pages that are not listed have been used before the ones that are, and  *)
(* there are none as long as the buffer is not full.                       *)
Forgotten(s, u) == \A p \in DOMAIN u \ ToSet(s) :
    Len(s) = K /\ \A x \in 1 .. Len(s) : u[p] < u[s[x]]

LEMMA NothingUsed == LastUses(EmptyMap, 0) /\ InOrder(<<>>, EmptyMap) /\ Forgotten(<<>>, EmptyMap)
BY DEF LastUses, InOrder, Forgotten, EmptyMap

(* The next access is the last use of its page.                            *)
LEMMA UsedNext ==
    ASSUME TestCase, NEW n \in 0 .. N - 1, NEW u, LastUses(u, n)
    PROVE  LastUses(Put(u, addresses[n], n), n + 1)
<1>. DEFINE p == addresses[n]
            v == Put(u, p, n)
<1>1. DOMAIN v = DOMAIN u \cup {p} /\ \A q \in DOMAIN v : v[q] = IF q = p THEN n ELSE u[q]
  BY DEF Put
<1>2. n \in Nat /\ (n + 1) - 1 = n /\ \A j \in 0 .. n : j = n \/ j \in 0 .. n - 1
  BY DEF TestCase
<1>3. \A j \in 0 .. n - 1 : j \in 0 .. n
  BY <1>2
<1>4. DOMAIN v = {addresses[j] : j \in 0 .. n}
  BY <1>1, <1>2, <1>3 DEF LastUses
<1>5. ASSUME NEW q \in DOMAIN v
      PROVE  /\ v[q] \in 0 .. n /\ addresses[v[q]] = q
             /\ \A k \in v[q] + 1 .. n : addresses[k] # q
  <2>1. CASE q = p
    BY <1>1, <1>2, <2>1
  <2>2. CASE q # p
    <3>1. q \in DOMAIN u /\ v[q] = u[q]
      BY <1>1, <2>2
    <3>2. u[q] \in 0 .. n - 1 /\ addresses[u[q]] = q /\ \A k \in u[q] + 1 .. n - 1 : addresses[k] # q
      BY <3>1 DEF LastUses
    <3>3. \A k \in u[q] + 1 .. n : k = n \/ k \in u[q] + 1 .. n - 1
      BY <1>2, <3>2
    <3>. QED  BY <1>2, <2>2, <3>1, <3>2, <3>3
  <2>. QED  BY <2>1, <2>2
<1>. HIDE DEF v, p
<1>6. LastUses(v, n + 1)
  BY <1>2, <1>4, <1>5 DEF LastUses
<1>. QED  BY <1>6 DEF v, p

(* What pages the lists of the lemmas above have at their places.          *)
LEMMA NewPlaces ==
    ASSUME NEW S, NEW s, Lists(s, S), NEW p \in PageNumbers, p \notin S
    PROVE  /\ Len(Append(s, p)) = Len(s) + 1 /\ Len(s) \in Nat
           /\ ToSet(Append(s, p)) = S \cup {p}
           /\ \A x \in 1 .. Len(s) + 1 : IF x = Len(s) + 1 THEN Append(s, p)[x] = p
                                         ELSE x \in 1 .. Len(s) /\ Append(s, p)[x] = s[x]
<1>1. Len(s) \in Nat
  BY Distinct
<1>2. \A x \in 1 .. Len(s) + 1 : x # Len(s) + 1 => x \in 1 .. Len(s)
  BY <1>1
<1>. QED  BY <1>1, <1>2, ListsNew, WithNew DEF Lists

(* A page is moved to the end, or takes the place of another there.        *)
LEMMA MovedLists ==
    ASSUME NEW S, NEW s, Lists(s, S), NEW k \in 1 .. Len(s), NEW p \in PageNumbers,
           p \notin S \ {s[k]}
    PROVE  Lists(Append(RemoveAt(s, k), p), (S \ {s[k]}) \cup {p})
BY ListsWithout, ListsNew

(* The place in a list from which the page at x has come.                  *)
From(k, x) == IF x < k THEN x ELSE x + 1

LEMMA MovedPlaces ==
    ASSUME NEW S, NEW s, Lists(s, S), NEW k \in 1 .. Len(s), NEW p \in PageNumbers
    PROVE  /\ Len(Append(RemoveAt(s, k), p)) = Len(s)
           /\ Append(RemoveAt(s, k), p)[Len(s)] = p
           /\ \A x \in 1 .. Len(s) - 1 : /\ Append(RemoveAt(s, k), p)[x] = s[From(k, x)]
                                         /\ From(k, x) \in 1 .. Len(s) /\ From(k, x) # k
           /\ \A x, y \in 1 .. Len(s) - 1 : x < y => From(k, x) < From(k, y)
<1>. DEFINE r == RemoveAt(s, k)
            t == Append(r, p)
            n == Len(s)
<1>1. n \in Nat /\ k \in 1 .. n
  BY Distinct
<1>3. /\ r \in Seq(PageNumbers) /\ Len(r) = n - 1
      /\ \A x \in 1 .. n - 1 : r[x] = IF x < k THEN s[x] ELSE s[x + 1]
  BY WithoutPlace DEF Lists
<1>. HIDE DEF r
<1>5. /\ Len(t) = (n - 1) + 1
      /\ \A x \in 1 .. (n - 1) + 1 : t[x] = IF x = (n - 1) + 1 THEN p ELSE r[x]
  BY <1>3, WithNew
<1>. HIDE DEF t, n
<1>6. Len(t) = n /\ t[n] = p /\ \A x \in 1 .. n - 1 : t[x] = r[x]
  BY <1>1, <1>5
<1>7. \A x \in 1 .. n - 1 : t[x] = s[From(k, x)] /\ From(k, x) \in 1 .. n /\ From(k, x) # k
  BY <1>1, <1>3, <1>6 DEF From
<1>8. \A x, y \in 1 .. n - 1 : x < y => From(k, x) < From(k, y)
  BY <1>1 DEF From
<1>. QED  BY <1>1, <1>6, <1>7, <1>8 DEF t, r, n

(* The page of the next access is listed as the last one.                  *)
LEMMA InOrderNew ==
    ASSUME NEW S, NEW s, Lists(s, S), NEW p \in PageNumbers, p \notin S,
           NEW n \in Nat, NEW u, LastUses(u, n), InOrder(s, u)
    PROVE  InOrder(Append(s, p), Put(u, p, n))
<1>. DEFINE t == Append(s, p)
            v == Put(u, p, n)
            c == Len(s)
<1>1. DOMAIN v = DOMAIN u \cup {p} /\ \A q \in DOMAIN v : v[q] = IF q = p THEN n ELSE u[q]
  BY DEF Put
<1>2. \A q \in DOMAIN u : u[q] \in Int /\ u[q] < n
  BY DEF LastUses
<1>3. /\ Len(t) = c + 1 /\ c \in Nat
      /\ \A x \in 1 .. c + 1 : IF x = c + 1 THEN t[x] = p ELSE x \in 1 .. c /\ t[x] = s[x]
  BY NewPlaces
<1>4. \A x \in 1 .. c : s[x] \in S /\ s[x] # p /\ s[x] \in DOMAIN u
  BY Distinct DEF InOrder
<1>5. \A x, y \in 1 .. c : x < y => u[s[x]] < u[s[y]]
  BY DEF InOrder
<1>. HIDE DEF t, v, c
<1>6. \A x \in 1 .. c + 1 : t[x] \in DOMAIN v
  BY <1>1, <1>3, <1>4
<1>7. ASSUME NEW x \in 1 .. c + 1, NEW y \in 1 .. c + 1, x < y PROVE v[t[x]] < v[t[y]]
  <2>1. x \in 1 .. c /\ t[x] = s[x] /\ v[t[x]] = u[s[x]]
    BY <1>1, <1>3, <1>4, <1>7
  <2>2. CASE y = c + 1
    BY <1>1, <1>2, <1>3, <1>4, <2>1, <2>2
  <2>3. CASE y # c + 1
    BY <1>1, <1>3, <1>4, <1>5, <1>7, <2>1, <2>3
  <2>. QED  BY <2>2, <2>3
<1>8. InOrder(t, v)
  BY <1>3, <1>6, <1>7 DEF InOrder
<1>. QED  BY <1>8 DEF t, v

(* So it is when it is moved, or takes the place of another.               *)
LEMMA InOrderMoved ==
    ASSUME NEW S, NEW s, Lists(s, S), NEW k \in 1 .. Len(s), NEW p \in PageNumbers,
           p \notin S \ {s[k]}, NEW n \in Nat, NEW u, LastUses(u, n), InOrder(s, u)
    PROVE  InOrder(Append(RemoveAt(s, k), p), Put(u, p, n))
<1>. DEFINE t == Append(RemoveAt(s, k), p)
            v == Put(u, p, n)
            c == Len(s)
<1>1. DOMAIN v = DOMAIN u \cup {p} /\ \A q \in DOMAIN v : v[q] = IF q = p THEN n ELSE u[q]
  BY DEF Put
<1>2. \A q \in DOMAIN u : u[q] \in Int /\ u[q] < n
  BY DEF LastUses
<1>3. /\ Len(t) = c /\ c \in Nat /\ t[c] = p
      /\ \A x \in 1 .. c - 1 : t[x] = s[From(k, x)] /\ From(k, x) \in 1 .. c /\ From(k, x) # k
      /\ \A x, y \in 1 .. c - 1 : x < y => From(k, x) < From(k, y)
  <2>1. /\ Len(t) = c /\ t[c] = p
        /\ \A x \in 1 .. c - 1 : /\ t[x] = s[From(k, x)]
                                 /\ From(k, x) \in 1 .. c /\ From(k, x) # k
        /\ \A x, y \in 1 .. c - 1 : x < y => From(k, x) < From(k, y)
    BY MovedPlaces, ZenonT(20)
  <2>2. c \in Nat /\ k \in 1 .. c
    BY Distinct
  <2>. HIDE DEF t, c
  <2>. QED  BY <2>1, <2>2
<1>4. \A x \in 1 .. c : s[x] \in DOMAIN u /\ (x # k => s[x] # p)
  BY Distinct DEF InOrder
<1>5. \A x, y \in 1 .. c : x < y => u[s[x]] < u[s[y]]
  BY DEF InOrder
<1>. HIDE DEF t, v, c
<1>6. \A x \in 1 .. c : x # c => x \in 1 .. c - 1
  BY <1>3
<1>7. \A x \in 1 .. c - 1 : t[x] \in DOMAIN u /\ t[x] # p /\ v[t[x]] = u[s[From(k, x)]]
  BY <1>1, <1>3, <1>4
<1>8. \A x \in 1 .. c : t[x] \in DOMAIN v
  BY <1>1, <1>3, <1>6, <1>7
<1>9. ASSUME NEW x \in 1 .. c, NEW y \in 1 .. c, x < y PROVE v[t[x]] < v[t[y]]
  <2>1. x \in 1 .. c - 1
    BY <1>3, <1>9
  <2>2. CASE y = c
    <3>1. v[t[y]] = n
      BY <1>1, <1>3, <2>2
    <3>2. v[t[x]] < n
      BY <1>2, <1>3, <1>4, <1>7, <2>1
    <3>. QED  BY <3>1, <3>2
  <2>3. CASE y # c
    <3>1. y \in 1 .. c - 1
      BY <1>6, <2>3
    <3>2. From(k, x) < From(k, y) /\ From(k, x) \in 1 .. c /\ From(k, y) \in 1 .. c
      BY <1>3, <1>9, <2>1, <3>1
    <3>. QED  BY <1>5, <1>7, <2>1, <3>1, <3>2
  <2>. QED  BY <2>2, <2>3
<1>10. InOrder(t, v)
  BY <1>3, <1>8, <1>9 DEF InOrder
<1>. QED  BY <1>10 DEF t, v

(* Pages that are not listed remain the ones used the longest ago: when a  *)
(* page is moved,                                                          *)
LEMMA ForgottenMoved ==
    ASSUME NEW S, NEW s, Lists(s, S), NEW k \in 1 .. Len(s), NEW p \in PageNumbers,
           s[k] = p \/ (k = 1 /\ Len(s) = K /\ p \notin S),
           NEW n \in Nat, NEW u, LastUses(u, n), InOrder(s, u), Forgotten(s, u)
    PROVE  Forgotten(Append(RemoveAt(s, k), p), Put(u, p, n))
<1>. DEFINE t == Append(RemoveAt(s, k), p)
            v == Put(u, p, n)
            c == Len(s)
<1>1. DOMAIN v = DOMAIN u \cup {p} /\ \A q \in DOMAIN v : v[q] = IF q = p THEN n ELSE u[q]
  BY DEF Put
<1>2. \A q \in DOMAIN u : u[q] \in Int /\ u[q] < n
  BY DEF LastUses
<1>0. p \notin S \ {s[k]}
  OBVIOUS
<1>3. /\ Len(t) = c /\ c \in Nat /\ t[c] = p /\ k \in 1 .. c
      /\ ToSet(t) = (S \ {s[k]}) \cup {p}
      /\ \A x \in 1 .. c - 1 : t[x] = s[From(k, x)] /\ From(k, x) \in 1 .. c /\ From(k, x) # k
  <2>1. /\ Len(t) = c /\ t[c] = p
        /\ \A x \in 1 .. c - 1 : /\ t[x] = s[From(k, x)]
                                 /\ From(k, x) \in 1 .. c /\ From(k, x) # k
    <3>1. Len(t) = c /\ t[c] = p
      BY MovedPlaces
    <3>2. \A x \in 1 .. c - 1 : /\ t[x] = s[From(k, x)]
                               /\ From(k, x) \in 1 .. c /\ From(k, x) # k
      BY MovedPlaces
    <3>. QED  BY <3>1, <3>2
  <2>2. c \in Nat /\ k \in 1 .. c
    BY Distinct
  <2>3. Lists(t, (S \ {s[k]}) \cup {p})
    BY <1>0, MovedLists
  <2>. HIDE DEF t, c
  <2>. QED  BY <2>1, <2>2, <2>3 DEF Lists
<1>4. /\ \A x \in 1 .. c : s[x] \in S /\ s[x] \in DOMAIN u
      /\ \A x, y \in 1 .. c : s[x] = s[y] => x = y
  BY Distinct DEF InOrder
<1>5. \A x, y \in 1 .. c : x < y => u[s[x]] < u[s[y]]
  BY DEF InOrder
<1>6. \A q \in DOMAIN u : q \notin S => c = K /\ \A x \in 1 .. c : u[q] < u[s[x]]
  BY DEF Forgotten, Lists
<1>7. s[k] = p \/ (k = 1 /\ c = K)
  OBVIOUS
<1>. HIDE DEF t, v, c
<1>8. \A x \in 1 .. c - 1 : t[x] # p /\ v[t[x]] = u[s[From(k, x)]]
  BY <1>0, <1>1, <1>3, <1>4
<1>9. ASSUME NEW q \in DOMAIN v, q \notin ToSet(t)
      PROVE  c = K /\ \A x \in 1 .. c : v[q] < v[t[x]]
  <2>1. q # p /\ q \in DOMAIN u /\ v[q] = u[q] /\ q \notin S \ {s[k]}
    BY <1>1, <1>3, <1>9
  <2>2. c = K /\ \A x \in 1 .. c - 1 : u[q] < u[s[From(k, x)]]
    <3>1. CASE q \notin S
      BY <1>3, <1>6, <2>1, <3>1
    <3>2. CASE q \in S
      <4>1. q = s[k] /\ k = 1 /\ c = K
        BY <1>7, <2>1, <3>2
      <4>2. \A x \in 1 .. c - 1 : k < From(k, x)
        BY <1>3, <4>1
      <4>. QED  BY <1>3, <1>5, <4>1, <4>2
    <3>. QED  BY <3>1, <3>2
  <2>3. v[q] < v[t[c]]
    BY <1>1, <1>2, <1>3, <2>1
  <2>4. ASSUME NEW x \in 1 .. c PROVE v[q] < v[t[x]]
    <3>1. x # c => x \in 1 .. c - 1
      BY <1>3
    <3>. QED  BY <1>8, <2>1, <2>2, <2>3, <3>1
  <2>. QED  BY <2>2, <2>4
<1>10. Forgotten(t, v)
  BY <1>3, <1>9 DEF Forgotten
<1>. QED  BY <1>10 DEF t, v

(* and when there is room for one more.                                    *)
LEMMA ForgottenNew ==
    ASSUME NEW S, NEW s, Lists(s, S), Len(s) # K, NEW p \in PageNumbers, p \notin S,
           NEW n \in Nat, NEW u, LastUses(u, n), Forgotten(s, u)
    PROVE  Forgotten(Append(s, p), Put(u, p, n))
<1>1. DOMAIN u \subseteq S
  BY DEF Forgotten, Lists
<1>2. ToSet(Append(s, p)) = S \cup {p}
  BY ListsNew DEF Lists
<1>. QED  BY <1>1, <1>2 DEF Forgotten, Put

-----------------------------------------------------------------------------
(* The pages at places a to b of a list, and their number.                 *)
Stretch(s, a, b) == {s[x] : x \in a .. b}

LEMMA StretchSize ==
    ASSUME NEW S, NEW s, Lists(s, S), NEW a \in 1 .. Len(s) + 1, NEW b \in a - 1 .. Len(s)
    PROVE  /\ IsFiniteSet(Stretch(s, a, b))
           /\ Cardinality(Stretch(s, a, b)) = b + 1 - a
<1>. DEFINE f == [x \in a .. b |-> s[x]]
            T == {s[x] : x \in a .. b}
<1>1. a \in Int /\ b \in Int /\ \A x \in a .. b : x \in 1 .. Len(s)
  BY Distinct
<1>2. IsFiniteSet(a .. b) /\ Cardinality(a .. b) = IF a > b THEN 0 ELSE b - a + 1
  BY <1>1, FS_Interval
<1>3. (IF a > b THEN 0 ELSE b - a + 1) = b + 1 - a
  BY <1>1
<1>4. \A x, y \in a .. b : s[x] = s[y] => x = y
  BY <1>1, Distinct
<1>5. f \in Bijection(a .. b, T)
  BY <1>4 DEF Bijection, Injection, Surjection, IsInjective
<1>. HIDE DEF T
<1>6. IsFiniteSet(T) /\ Cardinality(T) = Cardinality(a .. b)
  BY <1>2, <1>5, FS_Bijection, Zenon DEF ExistsBijection
<1>. QED  BY <1>2, <1>3, <1>6 DEF T, Stretch

(* The pages since whose last use fewer than K others have been used are   *)
(* the ones listed.                                                        *)
LEMMA ListedAreLastK ==
    ASSUME TestCase, NEW S, NEW s, Lists(s, S), i \in 0 .. N, NEW u, LastUses(u, i),
           InOrder(s, u), Forgotten(s, u), Len(s) <= K
    PROVE  LastK = S
<1>. DEFINE n == Len(s)
            U == {addresses[j] : j \in 0 .. i - 1}
            Since(p) == {addresses[j] : j \in {m \in 0 .. i - 1 : \A k \in m .. i - 1 : addresses[k] # p}}
            Later(p) == {q \in DOMAIN u : u[q] > u[p]}
<1>0. i \in Nat /\ K \in Nat
  BY DEF TestCase
<1>1. /\ n \in Nat /\ \A x \in 1 .. n : s[x] \in S /\ s[x] \in DOMAIN u
      /\ \A x, y \in 1 .. n : s[x] = s[y] => x = y
      /\ \A p \in S : \E x \in 1 .. n : s[x] = p
  BY Distinct DEF InOrder
<1>2. U = DOMAIN u
  BY DEF LastUses
<1>3. \A p \in DOMAIN u : /\ u[p] \in 0 .. i - 1 /\ addresses[u[p]] = p
                          /\ \A k \in u[p] + 1 .. i - 1 : addresses[k] # p
  BY DEF LastUses
<1>4. \A x, y \in 1 .. n : x < y => u[s[x]] < u[s[y]]
  BY DEF InOrder
<1>5. n <= K
  OBVIOUS
<1>6. \A p \in DOMAIN u : p \notin S => n = K /\ \A x \in 1 .. n : u[p] < u[s[x]]
  BY DEF Forgotten, Lists
<1>. HIDE DEF n
<1>7. ASSUME NEW p \in DOMAIN u PROVE Since(p) = Later(p)
  <2>1. ASSUME NEW m \in 0 .. i - 1, \A k \in m .. i - 1 : addresses[k] # p
        PROVE  addresses[m] \in Later(p)
    <3>1. m > u[p]
      <4>1. u[p] \notin m .. i - 1
        BY <1>3, <2>1
      <4>. QED  BY <1>0, <1>3, <4>1
    <3>2. addresses[m] \in DOMAIN u
      BY <1>2
    <3>3. u[addresses[m]] >= m
      <4>1. m \notin u[addresses[m]] + 1 .. i - 1
        BY <1>3, <3>2
      <4>. QED  BY <1>0, <1>3, <3>2, <4>1
    <3>. QED  BY <1>0, <1>3, <3>1, <3>2, <3>3
  <2>2. ASSUME NEW q \in Later(p) PROVE q \in Since(p)
    <3>1. u[q] \in 0 .. i - 1 /\ addresses[u[q]] = q /\ u[q] > u[p]
      BY <1>3
    <3>2. \A k \in u[q] .. i - 1 : k \in u[p] + 1 .. i - 1
      BY <1>0, <1>3, <3>1
    <3>3. \A k \in u[q] .. i - 1 : addresses[k] # p
      BY <1>3, <3>2
    <3>. QED  BY <3>1, <3>3
  <2>. QED  BY <2>1, <2>2
<1>. HIDE DEF Since
<1>8. ASSUME NEW p \in S PROVE p \in DOMAIN u /\ Cardinality(Later(p)) < K
  <2>1. PICK x \in 1 .. n : s[x] = p
    BY <1>1
  <2>2. Later(p) = Stretch(s, x + 1, n)
    <3>1. \A y \in x + 1 .. n : y \in 1 .. n /\ s[y] \in Later(p)
      BY <1>1, <1>4, <2>1
    <3>2. ASSUME NEW q \in Later(p) PROVE \E y \in x + 1 .. n : s[y] = q
      <4>1. q \in S
        <5>1. q \in DOMAIN u /\ u[q] > u[p] /\ p \in DOMAIN u /\ x \in 1 .. n
          BY <1>1, <2>1
        <5>2. u[q] \in Int /\ u[p] \in Int
          BY <1>3, <5>1
        <5>3. q \notin S => u[q] < u[p]
          BY <1>6, <2>1, <5>1
        <5>. QED  BY <5>1, <5>2, <5>3
      <4>2. PICK y \in 1 .. n : s[y] = q
        BY <1>1, <4>1
      <4>3. y > x
        <5>1. y < x => u[q] < u[p]
          BY <1>4, <2>1, <4>2
        <5>2. u[q] > u[p] /\ u[q] \in Int /\ u[p] \in Int
          BY <1>1, <1>3, <2>1
        <5>. QED  BY <2>1, <4>2, <5>1, <5>2
      <4>4. y \in x + 1 .. n
        BY <1>1, <4>3
      <4>. QED  BY <4>2, <4>4
    <3>. HIDE DEF Later
    <3>. QED  BY <3>1, <3>2 DEF Stretch
  <2>3. x + 1 \in 1 .. n + 1 /\ n \in (x + 1) - 1 .. n
    BY <1>1
  <2>4. Cardinality(Stretch(s, x + 1, n)) = n + 1 - (x + 1)
    BY <2>3, StretchSize DEF n
  <2>5. Cardinality(Later(p)) = n + 1 - (x + 1) /\ p \in DOMAIN u
    BY <1>1, <2>1, <2>2, <2>4
  <2>. HIDE DEF Later
  <2>. QED  BY <1>0, <1>1, <1>5, <2>5
<1>9. ASSUME NEW p \in DOMAIN u, p \notin S PROVE ~(Cardinality(Later(p)) < K)
  <2>1. n = K /\ S \subseteq Later(p)
    BY <1>1, <1>6, <1>9
  <2>2. IsFiniteSet(Later(p))
    <3>. DEFINE f == [q \in Later(p) |-> u[q]]
    <3>1. f \in Injection(Later(p), 0 .. i - 1)
      BY <1>3 DEF Injection, IsInjective
    <3>2. IsFiniteSet(0 .. i - 1)
      BY <1>0, FS_Interval
    <3>. HIDE DEF f, Later
    <3>. QED  BY <3>1, <3>2, FS_Injection
  <2>3. Cardinality(S) = n
    BY ListsSize DEF n
  <2>. HIDE DEF Later
  <2>4. Cardinality(S) <= Cardinality(Later(p)) /\ Cardinality(Later(p)) \in Nat
    BY <2>1, <2>2, FS_Subset, FS_CardinalityType
  <2>. QED  BY <1>0, <2>1, <2>3, <2>4
<1>10. LastK = {p \in U : Cardinality(Since(p)) < K}
  BY DEF LastK, Since
<1>. HIDE DEF Later, U
<1>. QED  BY <1>2, <1>7, <1>8, <1>9, <1>10

(* What ByLastUse is of any map.                                           *)
Ranked(map) == [k \in 1 .. Cardinality(DOMAIN map) |->
                  CHOOSE p \in DOMAIN map : Cardinality({q \in DOMAIN map : map[q] <= map[p]}) = k]

LEMMA ByLastUseRanked == ByLastUse = Ranked(tlbMap) /\ ByLastUse' = Ranked(tlbMap')
BY DEF ByLastUse, Ranked

(* A list of the pages of a map by increasing numbers is the one that is   *)
(* described there by the ranks of these numbers.                          *)
LEMMA RankedIs ==
    ASSUME NEW map, NEW s, Lists(s, DOMAIN map), \A q \in DOMAIN map : map[q] \in Int,
           \A x, y \in 1 .. Len(s) : x < y => map[s[x]] < map[s[y]]
    PROVE  Ranked(map) = s
<1>. DEFINE S == DOMAIN map
            n == Len(s)
            Upto(p) == {q \in S : map[q] <= map[p]}
<1>1. /\ n \in Nat /\ \A x \in 1 .. n : s[x] \in S
      /\ \A p \in S : p \in PageNumbers /\ \E x \in 1 .. n : s[x] = p
      /\ \A x, y \in 1 .. n : s[x] = s[y] => x = y
  BY Distinct
<1>2. Cardinality(S) = n
  BY ListsSize
<1>. HIDE DEF n
<1>3. ASSUME NEW x \in 1 .. n PROVE Cardinality(Upto(s[x])) = x
  <2>1. ASSUME NEW y \in 1 .. n PROVE s[y] \in Upto(s[x]) <=> y <= x
    <3>1. map[s[x]] \in Int /\ map[s[y]] \in Int /\ s[y] \in S
      BY <1>1
    <3>2. y < x => map[s[y]] < map[s[x]]
      BY DEF n
    <3>3. x < y => map[s[x]] < map[s[y]]
      BY DEF n
    <3>4. y = x => map[s[y]] = map[s[x]]
      OBVIOUS
    <3>. QED  BY <3>1, <3>2, <3>3, <3>4
  <2>2. Upto(s[x]) = {s[y] : y \in 1 .. x}
    <3>1. \A y \in 1 .. x : y \in 1 .. n /\ s[y] \in Upto(s[x])
      BY <1>1, <2>1
    <3>2. ASSUME NEW q \in Upto(s[x]) PROVE \E y \in 1 .. x : s[y] = q
      <4>1. PICK y \in 1 .. n : s[y] = q
        BY <1>1
      <4>2. y <= x /\ y \in 1 .. x
        BY <2>1, <4>1
      <4>. QED  BY <4>1, <4>2
    <3>. HIDE DEF Upto
    <3>. QED  BY <3>1, <3>2
  <2>3. 1 \in 1 .. n + 1 /\ x \in 1 - 1 .. n /\ x + 1 - 1 = x
    BY <1>1
  <2>4. Cardinality(Stretch(s, 1, x)) = x + 1 - 1
    BY <2>3, StretchSize DEF n
  <2>. QED  BY <2>2, <2>3, <2>4 DEF Stretch
<1>4. Ranked(map) = [k \in 1 .. n |-> CHOOSE p \in S : Cardinality(Upto(p)) = k]
  BY <1>2 DEF Ranked
<1>. HIDE DEF Upto
<1>5. \A k \in 1 .. n : (CHOOSE p \in S : Cardinality(Upto(p)) = k) = s[k]
  <2>1. ASSUME NEW k \in 1 .. n PROVE (CHOOSE p \in S : Cardinality(Upto(p)) = k) = s[k]
    <3>. DEFINE c == CHOOSE p \in S : Cardinality(Upto(p)) = k
    <3>1. s[k] \in S /\ Cardinality(Upto(s[k])) = k
      BY <1>1, <1>3
    <3>. HIDE DEF S
    <3>2. c \in S /\ Cardinality(Upto(c)) = k
      BY <3>1
    <3>. USE DEF S
    <3>. HIDE DEF c
    <3>3. PICK x \in 1 .. n : s[x] = c
      BY <1>1, <3>2
    <3>4. x = k
      BY <1>3, <3>2, <3>3
    <3>5. c = s[k]
      BY <3>3, <3>4
    <3>. QED  BY <3>5 DEF c
  <2>. QED  BY <2>1
<1>6. Ranked(map) \in [1 .. n -> PageNumbers] /\ \A k \in 1 .. n : Ranked(map)[k] = s[k]
  <2>1. Ranked(map) = [k \in 1 .. n |-> s[k]]
    BY <1>4, <1>5
  <2>2. \A k \in 1 .. n : s[k] \in PageNumbers
    BY <1>1
  <2>. HIDE DEF S
  <2>. QED  BY <2>1, <2>2
<1>7. Ranked(map) \in Seq(PageNumbers) /\ Len(Ranked(map)) = n
  BY <1>1, <1>6, IsSequence
<1>. QED  BY <1>6, <1>7, SameSequence DEF Lists, n

-----------------------------------------------------------------------------
(* j is the first use of p among the accesses from m on.                   *)
FirstUse(p, m, j) == /\ j \in m .. N - 1 /\ addresses[j] = p
                     /\ \A k \in m .. j - 1 : addresses[k] # p

(* What the backward pass has noted when it has come down to m.            *)
LEMMA PageMapIs ==
    ASSUME TestCase, NEW m \in 0 .. N, NEW p \in PageNumbers
    PROVE  \/ page_map[m][p] = -1 /\ \A j \in m .. N - 1 : addresses[j] # p
           \/ FirstUse(p, m, page_map[m][p])
<1>. DEFINE Next1(q, j) == CHOOSE k : IF \E h \in j .. N - 1 : addresses[h] = q
                                      THEN FirstUse(q, j, k) ELSE k = -1
            g == [j \in 0 .. MaxN |-> [q \in PageNumbers |-> Next1(q, j)]]
            F(f) == [j \in 0 .. MaxN |-> IF j >= N THEN [q \in PageNumbers |-> -1]
                                         ELSE [f[j + 1] EXCEPT ![addresses[j]] = j]]
<1>0. MaxN \in Nat /\ N \in 0 .. MaxN /\ N \in Nat /\ addresses \in [0 .. N - 1 -> PageNumbers]
  BY DEF TestCase
<1>1. ASSUME NEW q, NEW j \in Nat
      PROVE  IF \E h \in j .. N - 1 : addresses[h] = q THEN FirstUse(q, j, Next1(q, j)) ELSE Next1(q, j) = -1
  <2>1. CASE \E h \in j .. N - 1 : addresses[h] = q
    <3>. DEFINE H == {h \in j .. N - 1 : addresses[h] = q}
    <3>1. PICK h \in H : \A k \in H : h <= k
      <4>1. H \in SUBSET Nat /\ H # {}
        BY <2>1
      <4>. HIDE DEF H
      <4>. QED  BY <4>1, LeastNatural
    <3>2. FirstUse(q, j, h)
      <4>1. h \in j .. N - 1 /\ addresses[h] = q
        OBVIOUS
      <4>2. ASSUME NEW k \in j .. h - 1, addresses[k] = q PROVE FALSE
        <5>1. k \in j .. N - 1 /\ ~(h <= k)
          BY <1>0, <4>1
        <5>2. k \in H
          BY <4>2, <5>1
        <5>. QED  BY <3>1, <5>1, <5>2
      <4>. QED  BY <4>1, <4>2 DEF FirstUse
    <3>. QED  BY <2>1, <3>2
  <2>2. CASE ~\E h \in j .. N - 1 : addresses[h] = q
    BY <2>2
  <2>. QED  BY <2>1, <2>2
<1>2. \A q, j, k, h : FirstUse(q, j, k) /\ FirstUse(q, j, h) /\ j \in Nat => k = h
  <2>1. SUFFICES ASSUME NEW q, NEW j \in Nat, NEW k, NEW h, FirstUse(q, j, k), FirstUse(q, j, h)
                 PROVE  k = h
    OBVIOUS
  <2>4. k \in j .. N - 1 /\ h \in j .. N - 1 /\ addresses[k] = q /\ addresses[h] = q
    BY <2>1 DEF FirstUse
  <2>2. k \in Int /\ h \in Int /\ k >= j /\ h >= j
    BY <1>0, <2>4
  <2>3. ~(k \in j .. h - 1) /\ ~(h \in j .. k - 1)
    BY <2>1, <2>4 DEF FirstUse
  <2>. QED  BY <2>2, <2>3
<1>. HIDE DEF Next1
<1>3. ASSUME NEW j \in 0 .. MaxN PROVE g[j] = F(g)[j]
  <2>1. CASE j >= N
    <3>1. ASSUME NEW q \in PageNumbers PROVE Next1(q, j) = -1
      <4>1. ~\E h \in j .. N - 1 : addresses[h] = q
        BY <1>0, <2>1
      <4>. QED  BY <1>1, <4>1
    <3>. QED  BY <2>1, <3>1
  <2>2. CASE ~(j >= N)
    <3>0. j \in 0 .. N - 1 /\ j + 1 \in 0 .. MaxN /\ j \in Nat /\ j + 1 \in Nat
      BY <1>0, <2>2
    <3>1. g[j + 1] = [q \in PageNumbers |-> Next1(q, j + 1)]
      BY <3>0
    <3>2. addresses[j] \in PageNumbers
      BY <1>0, <3>0
    <3>3. Next1(addresses[j], j) = j
      <4>1. FirstUse(addresses[j], j, j)
        BY <3>0 DEF FirstUse
      <4>2. \E h \in j .. N - 1 : addresses[h] = addresses[j]
        BY <3>0
      <4>3. FirstUse(addresses[j], j, Next1(addresses[j], j))
        BY <1>1, <3>0, <4>2
      <4>. QED  BY <1>2, <3>0, <4>1, <4>3
    <3>4. ASSUME NEW q \in PageNumbers, q # addresses[j] PROVE Next1(q, j) = Next1(q, j + 1)
      <4>0. \A h \in j .. N - 1 : h = j \/ h \in j + 1 .. N - 1
        BY <3>0
      <4>3. \A h \in j + 1 .. N - 1 : h \in j .. N - 1
        BY <3>0
      <4>1. CASE \E h \in j + 1 .. N - 1 : addresses[h] = q
        <5>1. \E h \in j .. N - 1 : addresses[h] = q
          BY <4>1, <4>3
        <5>2. FirstUse(q, j, Next1(q, j)) /\ FirstUse(q, j + 1, Next1(q, j + 1))
          BY <1>1, <3>0, <4>1, <5>1
        <5>3. FirstUse(q, j + 1, Next1(q, j))
          BY <3>0, <3>4, <4>0, <4>3, <5>2 DEF FirstUse
        <5>. QED  BY <1>2, <3>0, <5>2, <5>3
      <4>2. CASE ~\E h \in j + 1 .. N - 1 : addresses[h] = q
        <5>1. ~\E h \in j .. N - 1 : addresses[h] = q
          BY <3>4, <4>0, <4>2
        <5>. QED  BY <1>1, <3>0, <4>2, <5>1
      <4>. QED  BY <4>1, <4>2
    <3>. QED  BY <2>2, <3>0, <3>1, <3>2, <3>3, <3>4
  <2>. QED  BY <2>1, <2>2
<1>4. page_map = F(page_map)
  <2>1. g = F(g)
    BY <1>3
  <2>. HIDE DEF g
  <2>. QED  BY <2>1, Zenon DEF page_map
<1>5. ASSUME NEW d \in Nat, d <= N PROVE page_map[N - d] = g[N - d]
  <2>. DEFINE Wrong == {k \in Nat : k <= N /\ page_map[N - k] # g[N - k]}
  <2>. SUFFICES ASSUME Wrong # {} PROVE FALSE
    BY <1>5
  <2>1. PICK k \in Wrong : \A j \in Wrong : k <= j
    <3>1. Wrong \in SUBSET Nat
      OBVIOUS
    <3>. HIDE DEF Wrong
    <3>. QED  BY <3>1, LeastNatural
  <2>. HIDE DEF g
  <2>2. page_map[N - k] = F(page_map)[N - k] /\ g[N - k] = F(g)[N - k]
    <3>1. N - k \in 0 .. MaxN
      BY <1>0
    <3>2. g[N - k] = F(g)[N - k]
      BY <1>3, <3>1
    <3>. HIDE DEF F, Wrong
    <3>. QED  BY <1>4, <3>2
  <2>3. k # 0
    <3>1. N - k \in 0 .. MaxN
      BY <1>0
    <3>2. k = 0 => N - k >= N
      BY <1>0
    <3>. QED  BY <2>2, <3>1, <3>2
  <2>4. k - 1 \in Nat /\ k - 1 <= N /\ ~(k <= k - 1) /\ N - (k - 1) = (N - k) + 1 /\ N - k \in 0 .. MaxN
    BY <1>0, <2>3
  <2>5. page_map[(N - k) + 1] = g[(N - k) + 1]
    BY <2>1, <2>4
  <2>6. F(page_map)[N - k] = F(g)[N - k]
    BY <2>4, <2>5
  <2>. QED  BY <2>2, <2>6
<1>6. page_map[m][p] = Next1(p, m)
  <2>1. N - m \in Nat /\ N - m <= N /\ N - (N - m) = m /\ m \in 0 .. MaxN
    BY <1>0
  <2>2. page_map[m] = g[m]
    BY <1>5, <2>1
  <2>. QED  BY <2>1, <2>2
<1>. QED  BY <1>0, <1>1, <1>6

-----------------------------------------------------------------------------
(* The hits of a function are no more than the accesses it has made.       *)
HitsInv == /\ tlbHits \in [1 .. 4 -> Nat]
           /\ \A t \in 1 .. 4 : tlbHits[t] <= IF t < turn THEN N ELSE IF t = turn THEN i ELSE 0

(* FIFO and LIFO: the ring has the pages of the map.                       *)
RingInv == /\ Ring(tlbQueue) /\ Lists(Queued, DOMAIN tlbMap)
           /\ list = NewList /\ \A p \in DOMAIN tlbMap : tlbMap[p] = 0

(* s lists the pages of the map by their last uses u.                      *)
UseInv(s, u) == /\ Lists(s, DOMAIN tlbMap) /\ Len(s) <= K
                /\ LastUses(u, i) /\ InOrder(s, u)

(* LRU: the links lead through the pages in that order, and no page that   *)
(* has been used since one of them is missing.                             *)
LRUInv == /\ tlbQueue = NewQueue(K) /\ \A p \in DOMAIN tlbMap : tlbMap[p] = 0
          /\ \E s, u : LinkedBy(list, s) /\ UseInv(s, u) /\ Forgotten(s, u)

(* Optimal: the map has the last uses.                                     *)
OptimalInv == /\ tlbQueue = NewQueue(K) /\ list = NewList
              /\ \E s, u : UseInv(s, u) /\ \A p \in DOMAIN tlbMap : tlbMap[p] = u[p]

(* The inductive invariant of the simulator.                               *)
TLBInv == /\ TestCase /\ turn \in 1 .. 5 /\ i \in 0 .. N /\ HitsInv
          /\ turn \in {1, 2} => RingInv
          /\ turn = 3 => LRUInv
          /\ turn = 4 => OptimalInv
          /\ turn = 5 => tlbQueue = NewQueue(K) /\ list = NewList /\ tlbMap = EmptyMap

-----------------------------------------------------------------------------
LEMMA QueuedIs == Queued = Contents(tlbQueue)
BY DEF Queued, Contents, Place

(* The definitions that a step can change only through its variables.      *)
LEMMA SameRing == ASSUME K' = K
                  PROVE  (Ring(tlbQueue)' <=> Ring(tlbQueue')) /\ Queued' = Contents(tlbQueue')
BY DEF Ring, Queues, Wrap, Place, Contents, Queued

LEMMA SameUses == ASSUME addresses' = addresses, NEW u PROVE LastUses(u, i)' <=> LastUses(u, i')
BY DEF LastUses

LEMMA SameForgotten == ASSUME K' = K, NEW s, NEW u PROVE Forgotten(s, u)' <=> Forgotten(s, u)
BY DEF Forgotten

(* An empty buffer has the invariant of every function.                    *)
LEMMA Starts ==
    TestCase /\ i = 0 /\ tlbMap = EmptyMap /\ tlbQueue = NewQueue(K) /\ list = NewList
        => RingInv /\ LRUInv /\ OptimalInv
<1>. SUFFICES ASSUME TestCase, i = 0, tlbMap = EmptyMap, tlbQueue = NewQueue(K), list = NewList
              PROVE  RingInv /\ LRUInv /\ OptimalInv
  OBVIOUS
<1>1. K \in Nat \ {0} /\ DOMAIN tlbMap = {} /\ K >= 0
  BY DEF TestCase, EmptyMap
<1>2. Ring(tlbQueue) /\ Queued = <<>> /\ Lists(<<>>, {})
  BY <1>1, NoPages, QueuedIs
<1>3. RingInv
  BY <1>1, <1>2 DEF RingInv
<1>4. UseInv(<<>>, EmptyMap) /\ Forgotten(<<>>, EmptyMap) /\ LinkedBy(list, <<>>)
  BY <1>1, <1>2, NothingUsed, NewListLinked DEF UseInv
<1>5. LRUInv
  BY <1>1, <1>4, Zenon DEF LRUInv
<1>6. OptimalInv
  BY <1>1, <1>4, Zenon DEF OptimalInv
<1>. QED  BY <1>3, <1>5, <1>6

-----------------------------------------------------------------------------
(* Which entry each policy takes.                                          *)
LEMMA VictimsAre ==
    ASSUME NEW k \in DOMAIN Order,
           \/ turn \in {1, 3} /\ k = 1
           \/ turn = 2 /\ k = Len(Order)
           \/ turn = 4 /\ Definition!LongestUnused(Order[k])
    PROVE  k \in Definition!Victims
<1>1. /\ Definition!Policies[1] = "FIFO" /\ Definition!Policies[2] = "LIFO"
      /\ Definition!Policies[3] = "LRU" /\ Definition!Policies[4] = "Optimal"
  BY DEF Definition!Policies
<1>2. CASE turn = 1 /\ k = 1
  BY <1>1, <1>2 DEF Definition!Victims
<1>3. CASE turn = 3 /\ k = 1
  BY <1>1, <1>3 DEF Definition!Victims
<1>4. CASE turn = 2 /\ k = Len(Order)
  BY <1>1, <1>4 DEF Definition!Victims
<1>5. CASE turn = 4 /\ Definition!LongestUnused(Order[k])
  BY <1>1, <1>5 DEF Definition!Victims
<1>. QED  BY <1>2, <1>3, <1>4, <1>5

(* Steps of the definition: a hit of FIFO and LIFO, which keeps the order, *)
LEMMA HitInPlace ==
    ASSUME NEW p \in ToSet(Order), turn \in {1, 2}, Order' = Order,
           tlbHits' = [tlbHits EXCEPT ![turn] = @ + 1]
    PROVE  Definition!Hit(p)
<1>1. Definition!Policies[1] = "FIFO" /\ Definition!Policies[2] = "LIFO"
  BY DEF Definition!Policies
<1>2. Definition!Policies[turn] \in {"FIFO", "LIFO"}
  BY <1>1
<1>3. PICK k \in DOMAIN Order : Order[k] = p
  BY DEF ToSet
<1>4. p \in Definition!ToSet(Order)
  BY DEF ToSet, Definition!ToSet
<1>. QED  BY <1>2, <1>3, <1>4 DEF Definition!Hit

(* a hit of LRU and Optimal, after which the page is the last one,         *)
LEMMA HitMoved ==
    ASSUME NEW k \in DOMAIN Order, turn \in {3, 4}, Order' = Append(RemoveAt(Order, k), Order[k]),
           tlbHits' = [tlbHits EXCEPT ![turn] = @ + 1]
    PROVE  Definition!Hit(Order[k])
<1>1. Definition!Policies[3] = "LRU" /\ Definition!Policies[4] = "Optimal"
  BY DEF Definition!Policies
<1>2. Definition!Policies[turn] \notin {"FIFO", "LIFO"}
  BY <1>1
<1>3. Definition!RemoveAt(Order, k) = RemoveAt(Order, k)
  BY DEF RemoveAt, Definition!RemoveAt
<1>. QED  BY <1>2, <1>3 DEF Definition!Hit

(* and misses, with room for the page and without.                         *)
LEMMA MissNew ==
    ASSUME NEW p, p \notin ToSet(Order), Len(Order) < K, Order' = Append(Order, p), tlbHits' = tlbHits
    PROVE  Definition!Miss(p)
BY DEF Definition!Miss, ToSet, Definition!ToSet

LEMMA MissReplaced ==
    ASSUME NEW p, p \notin ToSet(Order), ~(Len(Order) < K), tlbHits' = tlbHits,
           NEW k \in Definition!Victims, Order' = Append(RemoveAt(Order, k), p)
    PROVE  Definition!Miss(p)
<1>1. Definition!RemoveAt(Order, k) = RemoveAt(Order, k)
  BY DEF RemoveAt, Definition!RemoveAt
<1>. QED  BY <1>1 DEF Definition!Miss, ToSet, Definition!ToSet

-----------------------------------------------------------------------------
(* What all steps on an access have in common.                             *)
Accesses(p) == /\ TLBInv /\ i < N /\ i' = i + 1 /\ p = addresses[i] /\ p \in PageNumbers
               /\ UNCHANGED <<K, addresses, turn>>

LEMMA AccessFacts ==
    ASSUME NEW p, Accesses(p)
    PROVE  /\ TestCase /\ TestCase' /\ K \in Nat \ {0} /\ N \in Nat /\ N' = N
           /\ i \in 0 .. N - 1 /\ i \in Nat /\ i' \in 0 .. N
BY SameCase DEF Accesses, TLBInv, TestCase

LEMMA Counted == ASSUME NEW S, NEW f \in [S -> Nat], NEW t \in S
                 PROVE  [f EXCEPT ![t] = @ + 1] \in [S -> Nat]
OBVIOUS

(* No function counts a hit too many.                                      *)
LEMMA HitsKept ==
    ASSUME NEW p, Accesses(p), turn \in 1 .. 4,
           tlbHits' = tlbHits \/ tlbHits' = [tlbHits EXCEPT ![turn] = @ + 1]
    PROVE  HitsInv'
<1>1. /\ tlbHits \in [1 .. 4 -> Nat] /\ turn' = turn /\ i' = i + 1 /\ N' = N /\ N \in Nat
      /\ i \in 0 .. N /\ i < N
      /\ \A t \in 1 .. 4 : tlbHits[t] <= IF t < turn THEN N ELSE IF t = turn THEN i ELSE 0
  BY AccessFacts DEF Accesses, TLBInv, HitsInv
<1>2. tlbHits' \in [1 .. 4 -> Nat]
  <2>1. [tlbHits EXCEPT ![turn] = @ + 1] \in [1 .. 4 -> Nat]
    BY <1>1, Counted
  <2>. QED  BY <1>1, <2>1, Zenon
<1>3. ASSUME NEW t \in 1 .. 4
      PROVE  tlbHits'[t] <= IF t < turn THEN N ELSE IF t = turn THEN i + 1 ELSE 0
  <2>1. tlbHits[t] \in Nat /\ tlbHits[t] <= IF t < turn THEN N ELSE IF t = turn THEN i ELSE 0
    BY <1>1
  <2>2. tlbHits'[t] = tlbHits[t] \/ (t = turn /\ tlbHits'[t] = tlbHits[t] + 1)
    BY <1>1
  <2>. QED  BY <1>1, <2>1, <2>2
<1>. QED  BY <1>1, <1>2, <1>3 DEF HitsInv

(* A step of the loop of FIFO or LIFO, whose full ring gives up the page   *)
(* at place k.                                                             *)
LEMMA QueueSteps ==
    ASSUME NEW p, Accesses(p), turn \in {1, 2}, NEW old, NEW shorter, NEW k,
           QueueStep(p, old, shorter), UNCHANGED list,
           isFull(tlbQueue) =>
               /\ Ring(shorter) /\ shorter.size = K - 1 /\ Contents(shorter) = RemoveAt(Queued, k)
               /\ k \in 1 .. Len(Queued) /\ old = Queued[k] /\ k \in Definition!Victims
    PROVE  TLBInv' /\ (Definition!Hit(p) \/ Definition!Miss(p))
<1>0. /\ TestCase /\ TestCase' /\ K \in Nat \ {0} /\ N' = N /\ i' \in 0 .. N
      /\ K' = K /\ turn' = turn /\ p \in PageNumbers
  BY AccessFacts DEF Accesses
<1>1. RingInv
  BY DEF Accesses, TLBInv
<1>2. /\ Ring(tlbQueue) /\ Lists(Queued, DOMAIN tlbMap) /\ Queued = Contents(tlbQueue)
      /\ Len(Queued) = tlbQueue.size /\ tlbQueue.size \in 0 .. K
      /\ \A q \in DOMAIN tlbMap : tlbMap[q] = 0
  <2>1. Ring(tlbQueue) /\ Lists(Queued, DOMAIN tlbMap)
    BY <1>1 DEF RingInv
  <2>2. tlbQueue.size \in 0 .. K
    BY <2>1 DEF Ring, Queues
  <2>. QED  BY <1>0, <1>1, <2>1, <2>2, QueuedIs, ContentsType DEF RingInv
<1>3. Order = Queued /\ Order' = Queued' /\ Queued' = Contents(tlbQueue')
  BY <1>0, SameRing DEF Order
<1>4. list' = NewList
  BY <1>1 DEF RingInv
<1>5. /\ HitsInv'
  <2>1. turn \in 1 .. 4
    OBVIOUS
  <2>2. tlbHits' = tlbHits \/ tlbHits' = [tlbHits EXCEPT ![turn] = @ + 1]
    BY DEF QueueStep
  <2>. QED  BY <2>1, <2>2, HitsKept
<1>6. ToSet(Queued) = DOMAIN tlbMap
  BY <1>2 DEF Lists
(* The ring and the map after the step are enough.                         *)
<1>7. ASSUME Ring(tlbQueue'), Lists(Contents(tlbQueue'), DOMAIN tlbMap'),
             \A q \in DOMAIN tlbMap' : tlbMap'[q] = 0
      PROVE  TLBInv'
  <2>1. RingInv'
    BY <1>0, <1>3, <1>4, <1>7, SameRing DEF RingInv
  <2>. QED  BY <1>0, <1>5, <2>1 DEF TLBInv
<1>8. CASE p \in DOMAIN tlbMap
  <2>1. tlbQueue' = tlbQueue /\ tlbMap' = tlbMap /\ tlbHits' = [tlbHits EXCEPT ![turn] = @ + 1]
    BY <1>8 DEF QueueStep
  <2>2. TLBInv'
    BY <1>2, <1>7, <2>1
  <2>3. Order' = Order /\ p \in ToSet(Order)
    BY <1>2, <1>3, <1>6, <1>8, <2>1
  <2>. QED  BY <2>1, <2>2, <2>3, HitInPlace
<1>9. CASE p \notin DOMAIN tlbMap /\ isFull(tlbQueue)
  <2>1. /\ tlbQueue' = enqueue(shorter, p) /\ tlbMap' = Put(Erase(tlbMap, old), p, 0)
        /\ tlbHits' = tlbHits
    BY <1>9 DEF QueueStep
  <2>2. Ring(shorter) /\ shorter.size < K
    BY <1>0, <1>9
  <2>3. Ring(tlbQueue') /\ Contents(tlbQueue') = Append(RemoveAt(Queued, k), p)
    BY <1>0, <1>9, <2>1, <2>2, Enqueued
  <2>4. k \in 1 .. Len(Queued) /\ old = Queued[k]
    BY <1>9
  <2>5. /\ DOMAIN tlbMap' = (DOMAIN tlbMap \ {Queued[k]}) \cup {p}
        /\ \A q \in DOMAIN tlbMap' : tlbMap'[q] = 0
    BY <1>2, <2>1, <2>4 DEF Put, Erase
  <2>6. Lists(Append(RemoveAt(Queued, k), p), (DOMAIN tlbMap \ {Queued[k]}) \cup {p})
    BY <1>0, <1>2, <1>9, <2>4, MovedLists
  <2>7. TLBInv'
    BY <1>7, <2>3, <2>5, <2>6
  <2>8. ~(Len(Order) < K) /\ p \notin ToSet(Order) /\ k \in Definition!Victims
    BY <1>0, <1>2, <1>3, <1>6, <1>9 DEF isFull
  <2>9. Order' = Append(RemoveAt(Order, k), p)
    BY <1>3, <2>3
  <2>. QED  BY <2>1, <2>7, <2>8, <2>9, MissReplaced
<1>10. CASE p \notin DOMAIN tlbMap /\ ~isFull(tlbQueue)
  <2>1. tlbQueue' = enqueue(tlbQueue, p) /\ tlbMap' = Put(tlbMap, p, 0) /\ tlbHits' = tlbHits
    BY <1>10 DEF QueueStep
  <2>2. tlbQueue.size < K
    BY <1>0, <1>2, <1>10 DEF isFull
  <2>3. Ring(tlbQueue') /\ Contents(tlbQueue') = Append(Queued, p)
    BY <1>0, <1>2, <2>1, <2>2, Enqueued
  <2>4. /\ DOMAIN tlbMap' = DOMAIN tlbMap \cup {p}
        /\ \A q \in DOMAIN tlbMap' : tlbMap'[q] = 0
    BY <1>2, <2>1 DEF Put
  <2>5. Lists(Append(Queued, p), DOMAIN tlbMap \cup {p})
    BY <1>0, <1>2, <1>10, ListsNew
  <2>6. TLBInv'
    BY <1>7, <2>3, <2>4, <2>5
  <2>7. Len(Order) < K /\ p \notin ToSet(Order) /\ Order' = Append(Order, p)
    BY <1>2, <1>3, <1>6, <1>10, <2>2, <2>3
  <2>. QED  BY <2>1, <2>6, <2>7, MissNew
<1>. QED  BY <1>8, <1>9, <1>10

LEMMA FIFOSteps ==
    ASSUME NEW p, Accesses(p), turn = 1, FIFO(p)
    PROVE  TLBInv' /\ (Definition!Hit(p) \/ Definition!Miss(p))
<1>. DEFINE old == tlbQueue.array[tlbQueue.front]
            shorter == dequeue(tlbQueue)
<1>1. QueueStep(p, old, shorter) /\ UNCHANGED list /\ turn \in {1, 2}
  BY DEF FIFO
<1>2. K \in Nat \ {0} /\ Ring(tlbQueue)
  BY AccessFacts DEF Accesses, TLBInv, RingInv
<1>3. Order = Queued /\ Queued = Contents(tlbQueue) /\ Queued \in Seq(PageNumbers)
      /\ Len(Queued) = tlbQueue.size
  BY <1>2, QueuedIs, ContentsType DEF Order
<1>4. ASSUME isFull(tlbQueue)
      PROVE  /\ Ring(shorter) /\ shorter.size = K - 1 /\ Contents(shorter) = RemoveAt(Queued, 1)
             /\ 1 \in 1 .. Len(Queued) /\ old = Queued[1] /\ 1 \in Definition!Victims
  <2>1. tlbQueue.size = K /\ tlbQueue.size > 0
    BY <1>2, <1>4 DEF isFull
  <2>2. Ring(shorter) /\ shorter.size = K - 1 /\ Contents(shorter) = RemoveAt(Queued, 1)
    BY <1>2, <1>3, <2>1, Dequeued
  <2>3. 1 \in 1 .. Len(Queued) /\ old = Queued[1]
    BY <1>2, <1>3, <2>1, Ends
  <2>4. 1 \in DOMAIN Order
    BY <1>3, <2>3, Elements
  <2>. QED  BY <2>2, <2>3, <2>4, VictimsAre
<1>. HIDE DEF old, shorter
<1>. QED  BY <1>1, <1>4, QueueSteps

LEMMA LIFOSteps ==
    ASSUME NEW p, Accesses(p), turn = 2, LIFO(p)
    PROVE  TLBInv' /\ (Definition!Hit(p) \/ Definition!Miss(p))
<1>. DEFINE old == tlbQueue.array[tlbQueue.rear]
            shorter == dequeueRear(tlbQueue)
            k == Len(Queued)
<1>1. QueueStep(p, old, shorter) /\ UNCHANGED list /\ turn \in {1, 2}
  BY DEF LIFO
<1>2. K \in Nat \ {0} /\ Ring(tlbQueue)
  BY AccessFacts DEF Accesses, TLBInv, RingInv
<1>3. Order = Queued /\ Queued = Contents(tlbQueue) /\ Queued \in Seq(PageNumbers)
      /\ Len(Queued) = tlbQueue.size
  BY <1>2, QueuedIs, ContentsType DEF Order
<1>4. ASSUME isFull(tlbQueue)
      PROVE  /\ Ring(shorter) /\ shorter.size = K - 1 /\ Contents(shorter) = RemoveAt(Queued, k)
             /\ k \in 1 .. Len(Queued) /\ old = Queued[k] /\ k \in Definition!Victims
  <2>1. tlbQueue.size = K /\ tlbQueue.size > 0
    BY <1>2, <1>4 DEF isFull
  <2>2. Ring(shorter) /\ shorter.size = K - 1 /\ Contents(shorter) = RemoveAt(Queued, k)
    BY <1>2, <1>3, <2>1, DequeuedRear
  <2>3. k \in 1 .. Len(Queued) /\ old = Queued[k]
    BY <1>2, <1>3, <2>1, Ends
  <2>4. k \in DOMAIN Order
    BY <1>3, <2>3, Elements
  <2>5. k = Len(Order)
    BY <1>3
  <2>. HIDE DEF k
  <2>. QED  BY <2>2, <2>3, <2>4, <2>5, VictimsAre
<1>. HIDE DEF old, shorter, k
<1>. QED  BY <1>1, <1>4, QueueSteps

-----------------------------------------------------------------------------
(* The list and the last uses after a step of LRU are enough.              *)
LEMMA LRUKept ==
    ASSUME NEW p, Accesses(p), turn = 3, HitsInv', tlbQueue' = tlbQueue,
           \A q \in DOMAIN tlbMap' : tlbMap'[q] = 0,
           NEW t, NEW v, LinkedBy(list', t), Lists(t, DOMAIN tlbMap'), Len(t) <= K,
           LastUses(v, i + 1), InOrder(t, v), Forgotten(t, v)
    PROVE  TLBInv' /\ Order' = t
<1>1. /\ TestCase' /\ K' = K /\ turn' = 3 /\ i' \in 0 .. N' /\ i' = i + 1
      /\ addresses' = addresses
  BY AccessFacts DEF Accesses
<1>2. tlbQueue' = NewQueue(K)
  BY DEF Accesses, TLBInv, LRUInv
<1>3. LastUses(v, i)'
  BY <1>1, SameUses
<1>4. UseInv(t, v)'
  BY <1>1, <1>3 DEF UseInv
<1>5. Forgotten(t, v)'
  BY <1>1, SameForgotten
<1>6. LinkedBy(list, t)'
  BY DEF LinkedBy
<1>7. \E s, u : LinkedBy(list', s) /\ UseInv(s, u)' /\ Forgotten(s, u)'
  BY <1>4, <1>5, <1>6, Zenon DEF LinkedBy
<1>8. LRUInv'
  BY <1>1, <1>2, <1>7 DEF LRUInv
<1>9. TLBInv'
  BY <1>1, <1>8 DEF TLBInv
<1>10. Order' = Followed(list')
  BY <1>1, ListedFollowed DEF Order
<1>11. Followed(list') = t
  BY FollowedIs
<1>. QED  BY <1>9, <1>10, <1>11

LEMMA LRUSteps ==
    ASSUME NEW p, Accesses(p), turn = 3, LRU(p)
    PROVE  TLBInv' /\ (Definition!Hit(p) \/ Definition!Miss(p))
<1>. DEFINE S == DOMAIN tlbMap
<1>0. /\ TestCase /\ K \in Nat \ {0} /\ i \in 0 .. N - 1 /\ i \in Nat /\ p \in PageNumbers
      /\ p = addresses[i] /\ LRUInv
  BY AccessFacts DEF Accesses, TLBInv
<1>1. PICK s, u : LinkedBy(list, s) /\ UseInv(s, u) /\ Forgotten(s, u)
  BY <1>0 DEF LRUInv
<1>2. /\ Lists(s, S) /\ Len(s) <= K /\ LastUses(u, i) /\ InOrder(s, u)
      /\ \A q \in S : tlbMap[q] = 0
  BY <1>0, <1>1 DEF UseInv, LRUInv
<1>3. /\ Len(s) \in Nat /\ ToSet(s) = S /\ DOMAIN s = 1 .. Len(s) /\ Cardinality(S) = Len(s)
      /\ \A q \in S : \E k \in 1 .. Len(s) : s[k] = q
  BY <1>2, Distinct, ListsSize, Elements DEF Lists
<1>4. Order = s
  BY <1>1, <1>2, ListedFollowed, FollowedIs DEF Order
<1>5. tlbQueue' = tlbQueue /\ turn \in 1 .. 4
  BY DEF LRU
<1>6. HitsInv'
  <2>1. tlbHits' = tlbHits \/ tlbHits' = [tlbHits EXCEPT ![turn] = @ + 1]
    BY DEF LRU
  <2>. QED  BY <1>5, <2>1, HitsKept
<1>. DEFINE v == Put(u, p, i)
<1>7. LastUses(v, i + 1)
  BY <1>0, <1>2, UsedNext
<1>. HIDE DEF v
<1>8. CASE p \in S
  <2>1. PICK k \in 1 .. Len(s) : s[k] = p
    BY <1>3, <1>8
  <2>. DEFINE t == Append(RemoveAt(s, k), p)
  <2>2. /\ tlbHits' = [tlbHits EXCEPT ![turn] = @ + 1] /\ list' = MoveToFront(list, p)
        /\ tlbMap' = tlbMap
    BY <1>8 DEF LRU
  <2>3. LinkedBy(list', t)
    BY <1>1, <1>2, <2>1, <2>2, Moved
  <2>4. Lists(t, S) /\ Len(t) = Len(s)
    <3>1. p \notin S \ {s[k]}
      BY <2>1
    <3>2. Lists(t, (S \ {s[k]}) \cup {p}) /\ Len(t) = Len(s)
      BY <1>0, <1>2, <3>1, MovedLists, MovedPlaces
    <3>3. (S \ {s[k]}) \cup {p} = S
      BY <1>8, <2>1
    <3>. QED  BY <3>2, <3>3
  <2>5. InOrder(t, v) /\ Forgotten(t, v)
    BY <1>0, <1>1, <1>2, <2>1, InOrderMoved, ForgottenMoved DEF v
  <2>6. Order[k] = p /\ k \in DOMAIN Order
    BY <1>3, <1>4, <2>1
  <2>7. t = Append(RemoveAt(Order, k), Order[k])
    BY <1>4, <2>6
  <2>. HIDE DEF t
  <2>8. TLBInv' /\ Order' = t
    BY <1>2, <1>5, <1>6, <1>7, <2>2, <2>3, <2>4, <2>5, LRUKept
  <2>. QED  BY <2>2, <2>6, <2>7, <2>8, HitMoved
<1>9. CASE p \notin S /\ Cardinality(S) = K
  <2>1. /\ tlbHits' = tlbHits /\ list' = PushFront(DropTail(list), p)
        /\ tlbMap' = Put(Erase(tlbMap, list.tail), p, 0)
    BY <1>9 DEF LRU
  <2>. DEFINE r == RemoveAt(s, 1)
              t == Append(r, p)
  <2>2. Len(s) = K /\ Len(s) # 0 /\ 1 \in 1 .. Len(s)
    <3>1. Len(s) = K
      BY <1>3, <1>9
    <3>2. K \in Nat \ {0}
      BY <1>0
    <3>. QED  BY <3>1, <3>2
  <2>3. LinkedBy(DropTail(list), r) /\ list.tail = s[1]
    BY <1>1, <1>2, <2>2, Dropped
  <2>4. Lists(r, S \ {s[1]}) /\ s[1] \in S
    BY <1>2, <2>2, ListsWithout
  <2>5. LinkedBy(list', t)
    BY <1>0, <1>9, <2>1, <2>3, <2>4, Pushed
  <2>6. Lists(t, (S \ {s[1]}) \cup {p}) /\ Len(t) = Len(s)
    BY <1>0, <1>2, <1>9, <2>2, MovedLists, MovedPlaces
  <2>7. InOrder(t, v) /\ Forgotten(t, v)
    BY <1>0, <1>1, <1>2, <1>9, <2>2, InOrderMoved, ForgottenMoved DEF v
  <2>8. /\ DOMAIN tlbMap' = (S \ {s[1]}) \cup {p}
        /\ \A q \in DOMAIN tlbMap' : tlbMap'[q] = 0
    BY <1>2, <2>1, <2>3 DEF Put, Erase
  <2>9. t = Append(RemoveAt(Order, 1), p)
    BY <1>4
  <2>. HIDE DEF r, t
  <2>10. TLBInv' /\ Order' = t
    BY <1>2, <1>5, <1>6, <1>7, <2>5, <2>6, <2>7, <2>8, LRUKept
  <2>11. 1 \in Definition!Victims
    BY <1>3, <1>4, <2>2, VictimsAre
  <2>12. p \notin ToSet(Order) /\ ~(Len(Order) < K)
    BY <1>3, <1>4, <1>9, <2>2
  <2>. QED  BY <2>1, <2>9, <2>10, <2>11, <2>12, MissReplaced
<1>10. CASE p \notin S /\ Cardinality(S) # K
  <2>1. tlbHits' = tlbHits /\ list' = PushFront(list, p) /\ tlbMap' = Put(tlbMap, p, 0)
    BY <1>10 DEF LRU
  <2>. DEFINE t == Append(s, p)
  <2>2. Len(s) # K /\ Len(s) < K
    <3>1. Len(s) # K
      BY <1>3, <1>10
    <3>2. Len(s) \in Nat /\ K \in Nat /\ Len(s) <= K
      BY <1>0, <1>2, <1>3
    <3>. QED  BY <3>1, <3>2
  <2>3. LinkedBy(list', t)
    BY <1>0, <1>1, <1>2, <1>10, <2>1, Pushed
  <2>4. Lists(t, S \cup {p}) /\ Len(t) <= K
    <3>1. Lists(t, S \cup {p})
      BY <1>0, <1>2, <1>10, ListsNew
    <3>2. Len(t) = Len(s) + 1
      BY <1>0, <1>2, <1>10, NewPlaces
    <3>3. Len(s) \in Nat /\ K \in Nat
      BY <1>0, <1>3
    <3>. HIDE DEF t
    <3>. QED  BY <2>2, <3>1, <3>2, <3>3
  <2>5. InOrder(t, v) /\ Forgotten(t, v)
    BY <1>0, <1>1, <1>2, <1>10, <2>2, InOrderNew, ForgottenNew DEF v
  <2>6. /\ DOMAIN tlbMap' = S \cup {p}
        /\ \A q \in DOMAIN tlbMap' : tlbMap'[q] = 0
    BY <1>2, <2>1 DEF Put
  <2>7. t = Append(Order, p)
    BY <1>4
  <2>. HIDE DEF t
  <2>8. TLBInv' /\ Order' = t
    BY <1>2, <1>5, <1>6, <1>7, <2>3, <2>4, <2>5, <2>6, LRUKept
  <2>9. p \notin ToSet(Order) /\ Len(Order) < K
    BY <1>3, <1>4, <1>10, <2>2
  <2>. QED  BY <2>1, <2>7, <2>8, <2>9, MissNew
<1>. QED  BY <1>8, <1>9, <1>10

-----------------------------------------------------------------------------
(* The next use of a page after its last one is the first one ahead.       *)
LEMMA NextUseIs ==
    ASSUME TestCase, i \in 0 .. N - 1, NEW u, LastUses(u, i), NEW q \in DOMAIN u
    PROVE  \/ nextUse(u[q]) = -1 /\ Definition!Ahead(q) = {}
           \/ /\ nextUse(u[q]) \in Definition!Ahead(q) /\ nextUse(u[q]) # -1
              /\ \A j \in Definition!Ahead(q) : nextUse(u[q]) <= j
<1>. DEFINE m == u[q] + 1
            n == page_map[m][q]
<1>1. /\ N \in Nat /\ i \in Nat /\ i < N /\ DOMAIN addresses = 0 .. N - 1
      /\ u[q] \in 0 .. i - 1 /\ addresses[u[q]] = q
      /\ \A k \in m .. i - 1 : addresses[k] # q
  BY DEF TestCase, LastUses
<1>2. q \in PageNumbers /\ m \in 0 .. N /\ m <= i
  BY <1>1 DEF TestCase
<1>3. nextUse(u[q]) = n
  BY <1>1 DEF nextUse
<1>4. \A j : j \in Definition!Ahead(q) <=> j \in 0 .. N - 1 /\ j >= i /\ addresses[j] = q
  BY <1>1 DEF Definition!Ahead
<1>5. \/ n = -1 /\ \A j \in m .. N - 1 : addresses[j] # q
      \/ FirstUse(q, m, n)
  BY <1>2, PageMapIs
<1>. HIDE DEF n
<1>6. CASE n = -1 /\ \A j \in m .. N - 1 : addresses[j] # q
  <2>1. \A j \in 0 .. N - 1 : j >= i => j \in m .. N - 1
    BY <1>1, <1>2
  <2>2. Definition!Ahead(q) = {}
    BY <1>4, <1>6, <2>1
  <2>. QED  BY <1>3, <1>6, <2>2
<1>7. CASE FirstUse(q, m, n)
  <2>1. n \in m .. N - 1 /\ addresses[n] = q /\ \A k \in m .. n - 1 : addresses[k] # q
    BY <1>7 DEF FirstUse
  <2>2. n >= i
    BY <1>1, <1>2, <2>1
  <2>3. n \in Definition!Ahead(q) /\ n # -1
    BY <1>1, <1>4, <2>1, <2>2
  <2>4. ASSUME NEW j \in Definition!Ahead(q) PROVE n <= j
    <3>1. j \in 0 .. N - 1 /\ j >= i /\ addresses[j] = q
      BY <1>4
    <3>. QED  BY <1>1, <1>2, <2>1, <3>1
  <2>. QED  BY <1>3, <2>3, <2>4
<1>. QED  BY <1>5, <1>6, <1>7

(* An entry that is farthest away is one that is unused the longest.       *)
LEMMA FarthestUnused ==
    ASSUME TestCase, i \in 0 .. N - 1, NEW u, LastUses(u, i), DOMAIN tlbMap \subseteq DOMAIN u,
           \A q \in DOMAIN tlbMap : tlbMap[q] = u[q], ToSet(Order) = DOMAIN tlbMap,
           NEW old \in Farthest
    PROVE  old \in DOMAIN tlbMap /\ Definition!LongestUnused(old)
<1>. DEFINE S == DOMAIN tlbMap
            next(q) == nextUse(tlbMap[q])
            Ahead(q) == Definition!Ahead(q)
<1>1. ASSUME NEW q \in S
      PROVE  \/ next(q) = -1 /\ Ahead(q) = {}
             \/ next(q) \in Ahead(q) /\ next(q) # -1 /\ \A j \in Ahead(q) : next(q) <= j
  BY NextUseIs
<1>2. /\ old \in S
      /\ next(old) # -1 => \A q \in S : next(q) # -1 /\ next(old) >= next(q)
  BY DEF Farthest
<1>3. \A q \in S : \A j \in Ahead(q) : j \in Int /\ addresses[j] = q
  BY DEF Definition!Ahead, TestCase
<1>4. Definition!ToSet(Order) = S
  BY DEF ToSet, Definition!ToSet
<1>. HIDE DEF next, Ahead, S
<1>5. ASSUME NEW w \in S \ {old}, Ahead(old) # {}
      PROVE  \E j \in Ahead(w) : \A k \in Ahead(old) : j < k
  <2>1. next(old) # -1 /\ next(old) \in Ahead(old) /\ \A k \in Ahead(old) : next(old) <= k
    BY <1>1, <1>2, <1>5
  <2>2. next(w) # -1 /\ next(old) >= next(w) /\ next(w) \in Ahead(w)
    BY <1>1, <1>2, <2>1
  <2>3. next(w) # next(old)
    BY <1>2, <1>3, <2>1, <2>2
  <2>4. \A k \in Ahead(old) : next(w) < k
    BY <1>2, <1>3, <2>1, <2>2, <2>3
  <2>. QED  BY <2>2, <2>4
<1>6. Definition!LongestUnused(old)
  BY <1>4, <1>5 DEF Definition!LongestUnused, Ahead
<1>. QED  BY <1>2, <1>6 DEF S

(* The map after a step of Optimal is enough.                              *)
LEMMA OptimalKept ==
    ASSUME NEW p, Accesses(p), turn = 4, HitsInv', tlbQueue' = tlbQueue, list' = list,
           NEW t, NEW v, Lists(t, DOMAIN tlbMap'), Len(t) <= K,
           \A q \in DOMAIN tlbMap' : tlbMap'[q] = v[q],
           LastUses(v, i + 1), InOrder(t, v)
    PROVE  TLBInv' /\ Order' = t
<1>1. /\ TestCase' /\ K' = K /\ turn' = 4 /\ i' \in 0 .. N' /\ i' = i + 1
      /\ addresses' = addresses /\ i \in Nat
  BY AccessFacts DEF Accesses
<1>2. tlbQueue' = NewQueue(K) /\ list' = NewList
  BY DEF Accesses, TLBInv, OptimalInv
<1>3. LastUses(v, i)'
  BY <1>1, SameUses
<1>4. UseInv(t, v)'
  BY <1>1, <1>3 DEF UseInv
<1>5. \E s, u : UseInv(s, u)' /\ \A q \in DOMAIN tlbMap' : tlbMap'[q] = u[q]
  BY <1>4, Zenon
<1>6. OptimalInv'
  BY <1>1, <1>2, <1>5 DEF OptimalInv
<1>7. TLBInv'
  BY <1>1, <1>6 DEF TLBInv
<1>8. Order' = Ranked(tlbMap')
  BY <1>1, ByLastUseRanked DEF Order
<1>9. /\ \A x \in 1 .. Len(t) : t[x] \in DOMAIN tlbMap'
      /\ \A q \in DOMAIN tlbMap' : \E x \in 1 .. Len(t) : t[x] = q
  BY Distinct
<1>10. ASSUME NEW q \in DOMAIN tlbMap' PROVE tlbMap'[q] \in Int
  <2>1. q \in DOMAIN v
    BY <1>9 DEF InOrder
  <2>2. v[q] \in 0 .. (i + 1) - 1
    BY <2>1 DEF LastUses
  <2>. QED  BY <2>2
<1>11. \A x, y \in 1 .. Len(t) : x < y => tlbMap'[t[x]] < tlbMap'[t[y]]
  BY <1>9 DEF InOrder
<1>12. Ranked(tlbMap') = t
  BY <1>10, <1>11, RankedIs
<1>. QED  BY <1>7, <1>8, <1>12

(* What the steps of Optimal use of the invariant.                         *)
LEMMA OptimalOrder ==
    ASSUME TLBInv, turn = 4
    PROVE  \E s, u : /\ UseInv(s, u) /\ Order = s
                     /\ \A q \in DOMAIN tlbMap : q \in DOMAIN u /\ tlbMap[q] = u[q]
<1>. DEFINE S == DOMAIN tlbMap
<1>1. PICK s, u : UseInv(s, u) /\ \A q \in S : tlbMap[q] = u[q]
  BY DEF TLBInv, OptimalInv
<1>2. Lists(s, S) /\ LastUses(u, i) /\ InOrder(s, u)
  BY <1>1 DEF UseInv
<1>3. ASSUME NEW q \in S PROVE q \in DOMAIN u /\ tlbMap[q] \in Int
  <2>1. q \in DOMAIN u
    BY <1>2, Distinct DEF InOrder
  <2>2. u[q] \in 0 .. i - 1
    BY <1>2, <2>1 DEF LastUses
  <2>. QED  BY <1>1, <2>1, <2>2
<1>4. Order = Ranked(tlbMap)
  BY ByLastUseRanked DEF Order
<1>5. \A x, y \in 1 .. Len(s) : x < y => tlbMap[s[x]] < tlbMap[s[y]]
  BY <1>1, <1>2, Distinct DEF InOrder
<1>6. Order = s
  BY <1>2, <1>3, <1>4, <1>5, RankedIs
<1>. QED  BY <1>1, <1>3, <1>6, Zenon

LEMMA OptimalSteps ==
    ASSUME NEW p, Accesses(p), turn = 4, Optimal(p)
    PROVE  TLBInv' /\ (Definition!Hit(p) \/ Definition!Miss(p))
<1>. DEFINE S == DOMAIN tlbMap
<1>0. /\ TestCase /\ K \in Nat \ {0} /\ i \in 0 .. N - 1 /\ i \in Nat /\ p \in PageNumbers
      /\ p = addresses[i] /\ TLBInv
  BY AccessFacts DEF Accesses
<1>1. PICK s, u : /\ UseInv(s, u) /\ Order = s
                  /\ \A q \in S : q \in DOMAIN u /\ tlbMap[q] = u[q]
  BY <1>0, OptimalOrder, Zenon
<1>2. Lists(s, S) /\ Len(s) <= K /\ LastUses(u, i) /\ InOrder(s, u)
  BY <1>1 DEF UseInv
<1>3. /\ Len(s) \in Nat /\ ToSet(s) = S /\ DOMAIN s = 1 .. Len(s) /\ Cardinality(S) = Len(s)
      /\ \A q \in S : \E k \in 1 .. Len(s) : s[k] = q
      /\ \A k \in 1 .. Len(s) : s[k] \in S
  BY <1>2, Distinct, ListsSize, Elements DEF Lists
<1>4. S \subseteq DOMAIN u
  BY <1>1
<1>5. Order = s
  BY <1>1
<1>6. tlbQueue' = tlbQueue /\ list' = list /\ turn \in 1 .. 4
  BY DEF Optimal
<1>7. HitsInv'
  <2>1. tlbHits' = tlbHits \/ tlbHits' = [tlbHits EXCEPT ![turn] = @ + 1]
    BY DEF Optimal
  <2>. QED  BY <1>6, <2>1, HitsKept
<1>. DEFINE v == Put(u, p, i)
<1>8. LastUses(v, i + 1)
  BY <1>0, <1>2, UsedNext
<1>9. \A q \in DOMAIN u \cup {p} : v[q] = IF q = p THEN i ELSE u[q]
  BY DEF Put
<1>. HIDE DEF v
<1>10. CASE p \in S
  <2>1. PICK k \in 1 .. Len(s) : s[k] = p
    BY <1>3, <1>10
  <2>. DEFINE t == Append(RemoveAt(s, k), p)
  <2>2. tlbHits' = [tlbHits EXCEPT ![turn] = @ + 1] /\ tlbMap' = Put(tlbMap, p, i)
    BY <1>10 DEF Optimal
  <2>3. Lists(t, S) /\ Len(t) = Len(s)
    <3>1. p \notin S \ {s[k]}
      BY <2>1
    <3>2. Lists(t, (S \ {s[k]}) \cup {p}) /\ Len(t) = Len(s)
      BY <1>0, <1>2, <3>1, MovedLists, MovedPlaces
    <3>3. (S \ {s[k]}) \cup {p} = S
      BY <1>10, <2>1
    <3>. QED  BY <3>2, <3>3
  <2>4. InOrder(t, v)
    <3>1. p \notin S \ {s[k]}
      BY <2>1
    <3>. QED  BY <1>0, <1>2, <3>1, InOrderMoved DEF v
  <2>5. DOMAIN tlbMap' = S /\ \A q \in DOMAIN tlbMap' : tlbMap'[q] = v[q]
    BY <1>1, <1>4, <1>9, <1>10, <2>2 DEF Put
  <2>6. Order[k] = p /\ k \in DOMAIN Order
    BY <1>3, <1>5, <2>1
  <2>7. t = Append(RemoveAt(Order, k), Order[k])
    BY <1>5, <2>6
  <2>. HIDE DEF t
  <2>8. TLBInv' /\ Order' = t
    BY <1>2, <1>6, <1>7, <1>8, <2>3, <2>4, <2>5, OptimalKept
  <2>. QED  BY <2>2, <2>6, <2>7, <2>8, HitMoved
<1>11. CASE p \notin S /\ Cardinality(S) = K
  <2>1. PICK old \in Farthest : tlbMap' = Put(Erase(tlbMap, old), p, i)
    BY <1>11 DEF Optimal
  <2>2. tlbHits' = tlbHits
    BY <1>11 DEF Optimal
  <2>3. old \in S /\ Definition!LongestUnused(old)
    BY <1>0, <1>1, <1>2, <1>3, <1>4, <1>5, FarthestUnused
  <2>4. PICK k \in 1 .. Len(s) : s[k] = old
    BY <1>3, <2>3
  <2>. DEFINE t == Append(RemoveAt(s, k), p)
  <2>5. Lists(t, (S \ {s[k]}) \cup {p}) /\ Len(t) = Len(s)
    <3>1. p \in PageNumbers /\ p \notin S \ {s[k]} /\ Lists(s, S)
      BY <1>0, <1>2, <1>11
    <3>2. Lists(t, (S \ {s[k]}) \cup {p})
      BY <3>1, MovedLists
    <3>3. Len(t) = Len(s)
      BY <3>1, MovedPlaces
    <3>. QED  BY <3>2, <3>3
  <2>6. InOrder(t, v)
    BY <1>0, <1>2, <1>11, InOrderMoved DEF v
  <2>7. /\ DOMAIN tlbMap' = (S \ {s[k]}) \cup {p}
        /\ \A q \in DOMAIN tlbMap' : tlbMap'[q] = v[q]
    BY <1>1, <1>4, <1>9, <2>1, <2>4 DEF Put, Erase
  <2>8. t = Append(RemoveAt(Order, k), p) /\ k \in DOMAIN Order /\ Definition!LongestUnused(Order[k])
    BY <1>3, <1>5, <2>3, <2>4
  <2>. HIDE DEF t
  <2>9. TLBInv' /\ Order' = t
    BY <1>2, <1>6, <1>7, <1>8, <2>5, <2>6, <2>7, OptimalKept
  <2>10. k \in Definition!Victims
    BY <2>8, VictimsAre
  <2>11. p \notin ToSet(Order) /\ ~(Len(Order) < K)
    <3>1. Len(s) = K /\ Len(s) \in Nat
      BY <1>3, <1>11
    <3>. QED  BY <1>3, <1>5, <1>11, <3>1
  <2>. QED  BY <2>2, <2>8, <2>9, <2>10, <2>11, MissReplaced
<1>12. CASE p \notin S /\ Cardinality(S) # K
  <2>1. tlbHits' = tlbHits /\ tlbMap' = Put(tlbMap, p, i)
    BY <1>12 DEF Optimal
  <2>. DEFINE t == Append(s, p)
  <2>2. Len(s) < K
    <3>1. Len(s) # K
      BY <1>3, <1>12
    <3>2. Len(s) \in Nat /\ K \in Nat /\ Len(s) <= K
      BY <1>0, <1>2, <1>3
    <3>. QED  BY <3>1, <3>2
  <2>3. Lists(t, S \cup {p}) /\ Len(t) <= K
    <3>1. Lists(t, S \cup {p})
      BY <1>0, <1>2, <1>12, ListsNew
    <3>2. Len(t) = Len(s) + 1
      BY <1>0, <1>2, <1>12, NewPlaces
    <3>3. Len(s) \in Nat /\ K \in Nat
      BY <1>0, <1>3
    <3>. HIDE DEF t
    <3>. QED  BY <2>2, <3>1, <3>2, <3>3
  <2>4. InOrder(t, v)
    BY <1>0, <1>2, <1>12, InOrderNew DEF v
  <2>5. DOMAIN tlbMap' = S \cup {p} /\ \A q \in DOMAIN tlbMap' : tlbMap'[q] = v[q]
    BY <1>1, <1>4, <1>9, <2>1 DEF Put
  <2>6. t = Append(Order, p)
    BY <1>5
  <2>. HIDE DEF t
  <2>7. TLBInv' /\ Order' = t
    BY <1>2, <1>6, <1>7, <1>8, <2>3, <2>4, <2>5, OptimalKept
  <2>8. p \notin ToSet(Order) /\ Len(Order) < K
    BY <1>3, <1>5, <1>12, <2>2
  <2>. QED  BY <2>1, <2>6, <2>7, <2>8, MissNew
<1>. QED  BY <1>10, <1>11, <1>12

-----------------------------------------------------------------------------
(* A function that returns leaves an empty buffer to the next one.         *)
LEMMA EmptyOrder ==
    ASSUME TestCase, K' = K, tlbMap' = EmptyMap, tlbQueue' = NewQueue(K), list' = NewList
    PROVE  Order' = <<>>
<1>1. Queued' = <<>> /\ Lists(<<>>, {})
  BY SameRing, NoPages DEF TestCase
<1>2. Listed' = <<>>
  BY <1>1, NewListLinked, ListedFollowed, FollowedIs
<1>3. DOMAIN EmptyMap = {} /\ Len(<<>>) = 0
  BY DEF EmptyMap
<1>4. ByLastUse' = <<>>
  BY <1>1, <1>3, ByLastUseRanked, RankedIs
<1>. QED  BY <1>1, <1>2, <1>4 DEF Order

LEMMA Returns == ASSUME TLBInv, Return PROVE TLBInv' /\ Definition!Switch
<1>1. /\ TestCase /\ TestCase' /\ N' = N /\ N \in Nat /\ DOMAIN addresses = 0 .. N - 1
      /\ K' = K /\ addresses' = addresses /\ tlbHits' = tlbHits /\ i = N /\ i' = 0
      /\ turn \in 1 .. 4 /\ turn' = turn + 1
      /\ tlbMap' = EmptyMap /\ tlbQueue' = NewQueue(K) /\ list' = NewList
  BY SameCase DEF TLBInv, Return, TestCase
<1>2. HitsInv'
  <2>1. HitsInv
    BY DEF TLBInv
  <2>2. ASSUME NEW t \in 1 .. 4
        PROVE  tlbHits[t] <= IF t < turn + 1 THEN N ELSE IF t = turn + 1 THEN 0 ELSE 0
    <3>1. tlbHits[t] \in Nat /\ tlbHits[t] <= IF t < turn THEN N ELSE IF t = turn THEN N ELSE 0
      BY <1>1, <2>1 DEF HitsInv
    <3>. QED  BY <1>1, <3>1
  <2>. QED  BY <1>1, <2>1, <2>2 DEF HitsInv
<1>3. RingInv' /\ LRUInv' /\ OptimalInv'
  <2>1. /\ TestCase' /\ (i = 0)' /\ (tlbMap = EmptyMap)' /\ (tlbQueue = NewQueue(K))'
        /\ (list = NewList)'
    BY <1>1 DEF NewQueue
  <2>. QED  BY <2>1, Starts, PTL
<1>4. TLBInv'
  BY <1>1, <1>2, <1>3 DEF TLBInv
<1>5. Definition!Switch
  BY <1>1, EmptyOrder DEF Definition!Switch
<1>. QED  BY <1>4, <1>5

LEMMA TLBStarts == Init => TLBInv /\ Definition!Init
<1>. SUFFICES ASSUME Init PROVE TLBInv /\ Definition!Init
  OBVIOUS
<1>1. /\ TestCase /\ turn = 1 /\ i = 0 /\ tlbHits = [t \in 1 .. 4 |-> 0]
      /\ tlbMap = EmptyMap /\ tlbQueue = NewQueue(K) /\ list = NewList
  BY SomeCase DEF Init
<1>2. HitsInv
  BY <1>1 DEF HitsInv, TestCase
<1>3. TLBInv
  BY <1>1, <1>2, Starts DEF TLBInv, TestCase
<1>4. Queued = <<>>
  BY <1>1, QueuedIs, NoPages DEF TestCase
<1>. QED  BY <1>1, <1>3, <1>4 DEF Definition!Init, Order

LEMMA TLBSteps ==
    ASSUME TLBInv, [Next]_vars
    PROVE  TLBInv' /\ [Definition!Next]_(Definition!vars)
<1>1. CASE Access
  <2>. DEFINE p == addresses[i]
  <2>1. Accesses(p) /\ i \in DOMAIN addresses
    BY <1>1 DEF Access, Accesses, TLBInv, TestCase
  <2>2. /\ turn \in 1 .. 4
        /\ \/ turn = 1 /\ FIFO(p)
           \/ turn = 2 /\ LIFO(p)
           \/ turn = 3 /\ LRU(p)
           \/ turn = 4 /\ Optimal(p)
    BY <1>1 DEF Access
  <2>3. TLBInv' /\ (Definition!Hit(p) \/ Definition!Miss(p))
    <3>. HIDE DEF p
    <3>. QED  BY <2>1, <2>2, FIFOSteps, LIFOSteps, LRUSteps, OptimalSteps
  <2>4. Definition!Access
    BY <2>1, <2>3 DEF Definition!Access, Accesses
  <2>5. Definition!Next
    BY <2>2, <2>4 DEF Definition!Next, Definition!Policies
  <2>. QED  BY <2>3, <2>5
<1>2. CASE Return
  <2>1. TLBInv' /\ Definition!Switch
    BY <1>2, Returns
  <2>2. turn \in 1 .. 4
    BY <1>2 DEF Return, TLBInv
  <2>. QED  BY <2>1, <2>2 DEF Definition!Next, Definition!Policies
<1>3. CASE UNCHANGED vars
  <2>1. /\ K' = K /\ addresses' = addresses /\ turn' = turn /\ i' = i /\ tlbHits' = tlbHits
        /\ tlbMap' = tlbMap /\ tlbQueue' = tlbQueue /\ list' = list
    BY <1>3 DEF vars
  <2>2. Queued' = Queued /\ Listed' = Listed /\ ByLastUse' = ByLastUse
    BY <2>1 DEF Queued, Listed, ByLastUse
  <2>3. UNCHANGED Definition!vars
    BY <2>1, <2>2 DEF Definition!vars, Order
  <2>4. TestCase' /\ N' = N /\ HitsInv'
    BY <2>1, SameCase DEF TLBInv, HitsInv
  <2>5. RingInv => RingInv'
    BY <2>1, <2>2, SameRing DEF RingInv
  <2>6. ASSUME NEW s, NEW u
        PROVE  (UseInv(s, u) => UseInv(s, u)') /\ (Forgotten(s, u) => Forgotten(s, u)')
               /\ (LinkedBy(list, s) => LinkedBy(list, s)')
    BY <2>1, SameUses, SameForgotten DEF UseInv, LinkedBy
  <2>7. LRUInv => LRUInv'
    BY <2>1, <2>6 DEF LRUInv, NewQueue
  <2>8. OptimalInv => OptimalInv'
    BY <2>1, <2>6 DEF OptimalInv, NewQueue
  <2>9. TLBInv'
    BY <2>1, <2>4, <2>5, <2>7, <2>8 DEF TLBInv, NewQueue
  <2>. QED  BY <2>3, <2>9
<1>. QED  BY <1>1, <1>2, <1>3 DEF Next

-----------------------------------------------------------------------------
(* What the invariant says of the order of the pages, in every turn.       *)
LEMMA SomeOrder ==
    ASSUME TLBInv
    PROVE  \E s : /\ Lists(s, DOMAIN tlbMap) /\ Len(s) <= K
                  /\ turn \in {1, 2} => s = Queued
                  /\ turn = 3 => LinkedBy(list, s) /\ s = Listed /\ LastK = DOMAIN tlbMap
<1>1. TestCase /\ turn \in 1 .. 5 /\ i \in 0 .. N /\ K \in Nat \ {0}
  BY DEF TLBInv, TestCase
<1>2. CASE turn \in {1, 2}
  <2>1. RingInv
    BY <1>2 DEF TLBInv
  <2>2. Lists(Queued, DOMAIN tlbMap) /\ Ring(tlbQueue)
    BY <2>1 DEF RingInv
  <2>3. Len(Queued) = tlbQueue.size /\ tlbQueue.size <= K
    BY <1>1, <2>2, QueuedIs, ContentsType DEF Ring, Queues
  <2>4. turn # 3
    BY <1>2
  <2>. QED  BY <2>2, <2>3, <2>4, Zenon
<1>3. CASE turn = 3
  <2>1. LRUInv
    BY <1>3 DEF TLBInv
  <2>2. PICK s, u : LinkedBy(list, s) /\ UseInv(s, u) /\ Forgotten(s, u)
    BY <2>1 DEF LRUInv
  <2>3. Lists(s, DOMAIN tlbMap) /\ Len(s) <= K /\ LastUses(u, i) /\ InOrder(s, u)
    BY <2>2 DEF UseInv
  <2>4. s = Listed
    BY <2>2, <2>3, ListedFollowed, FollowedIs
  <2>5. LastK = DOMAIN tlbMap
    BY <1>1, <2>2, <2>3, ListedAreLastK
  <2>6. turn \notin {1, 2}
    BY <1>3
  <2>. QED  BY <2>2, <2>3, <2>4, <2>5, <2>6, Zenon
<1>4. CASE turn = 4
  <2>1. OptimalInv
    BY <1>4 DEF TLBInv
  <2>2. PICK s, u : UseInv(s, u)
    BY <2>1 DEF OptimalInv
  <2>3. turn # 3 /\ turn \notin {1, 2}
    BY <1>4
  <2>. QED  BY <2>2, <2>3, Zenon DEF UseInv
<1>5. CASE turn = 5
  <2>1. DOMAIN tlbMap = {} /\ Lists(<<>>, {}) /\ Len(<<>>) <= K
    BY <1>1, <1>5, NoPages DEF TLBInv, EmptyMap
  <2>2. turn # 3 /\ turn \notin {1, 2}
    BY <1>5
  <2>. QED  BY <2>1, <2>2, Zenon
<1>. QED  BY <1>1, <1>2, <1>3, <1>4, <1>5

LEMMA TLBTypes == ASSUME TLBInv PROVE TypeOK
<1>1. PICK s : /\ Lists(s, DOMAIN tlbMap)
               /\ turn = 3 => LinkedBy(list, s)
  BY SomeOrder, Zenon
<1>2. /\ TestCase /\ turn \in 1 .. 5 /\ i \in 0 .. N /\ K \in Nat \ {0} /\ N \in Nat /\ HitsInv
  BY DEF TLBInv, TestCase
<1>3. tlbHits \in [1 .. 4 -> 0 .. N]
  <2>1. ASSUME NEW t \in 1 .. 4 PROVE tlbHits[t] \in 0 .. N
    <3>1. tlbHits[t] \in Nat /\ tlbHits[t] <= IF t < turn THEN N ELSE IF t = turn THEN i ELSE 0
      BY <1>2 DEF HitsInv
    <3>. QED  BY <1>2, <3>1
  <2>2. tlbHits \in [1 .. 4 -> Nat]
    BY <1>2 DEF HitsInv
  <2>. QED  BY <2>1, <2>2
<1>4. tlbQueue \in Queues
  <2>1. turn \in {1, 2} => tlbQueue \in Queues
    BY DEF TLBInv, RingInv, Ring
  <2>2. turn \in {3, 4, 5} => tlbQueue = NewQueue(K)
    BY DEF TLBInv, LRUInv, OptimalInv
  <2>3. NewQueue(K) \in Queues
    BY <1>2, NoPages DEF Ring
  <2>. QED  BY <1>2, <2>1, <2>2, <2>3
<1>5. {list.head, list.tail} \subseteq PageNumbers \cup {NULL}
  <2>1. CASE turn = 3
    <3>1. LinkedBy(list, s) /\ Len(s) \in Nat /\ \A x \in 1 .. Len(s) : s[x] \in PageNumbers
      BY <1>1, <2>1, Distinct
    <3>. QED  BY <3>1 DEF LinkedBy
  <2>2. CASE turn # 3
    <3>1. list = NewList
      BY <1>2, <2>2 DEF TLBInv, RingInv, OptimalInv
    <3>. QED  BY <3>1 DEF NewList
  <2>. QED  BY <2>1, <2>2
<1>6. ASSUME NEW p \in DOMAIN tlbMap PROVE p \in PageNumbers /\ tlbMap[p] \in 0 .. N
  <2>1. p \in PageNumbers
    BY <1>1, ListsSize
  <2>2. CASE turn \in {1, 2, 3}
    <3>1. RingInv \/ LRUInv
      BY <2>2 DEF TLBInv
    <3>2. tlbMap[p] = 0
      BY <3>1 DEF RingInv, LRUInv
    <3>. QED  BY <1>2, <2>1, <3>2
  <2>3. CASE turn = 4
    <3>1. PICK r, u : UseInv(r, u) /\ tlbMap[p] = u[p]
      BY <2>3 DEF TLBInv, OptimalInv
    <3>2. Lists(r, DOMAIN tlbMap) /\ InOrder(r, u) /\ LastUses(u, i)
      BY <3>1 DEF UseInv
    <3>3. p \in DOMAIN u
      BY <3>2, Distinct DEF InOrder
    <3>4. u[p] \in 0 .. i - 1
      BY <3>2, <3>3 DEF LastUses
    <3>. QED  BY <1>2, <2>1, <3>1, <3>4
  <2>4. CASE turn = 5
    BY <2>4 DEF TLBInv, EmptyMap
  <2>. QED  BY <1>2, <2>1, <2>2, <2>3, <2>4
<1>. QED  BY <1>2, <1>3, <1>4, <1>5, <1>6 DEF TypeOK, Queues

LEMMA TLBMatches == ASSUME TLBInv PROVE MapMatchesOrder /\ LRUExact
<1>1. PICK s : /\ Lists(s, DOMAIN tlbMap) /\ Len(s) <= K
               /\ turn \in {1, 2} => s = Queued
               /\ turn = 3 => LinkedBy(list, s) /\ s = Listed /\ LastK = DOMAIN tlbMap
  BY SomeOrder, Zenon
<1>2. Cardinality(DOMAIN tlbMap) <= K
  BY <1>1, ListsSize
<1>3. IsInjective(s) /\ ToSet(s) = DOMAIN tlbMap
  BY <1>1 DEF Lists
<1>4. ASSUME turn = 3
      PROVE  /\ DOMAIN list.next = DOMAIN tlbMap /\ DOMAIN list.prev = DOMAIN tlbMap
             /\ \A p \in DOMAIN tlbMap : list.next[p] # NULL => list.prev[list.next[p]] = p
  <2>1. /\ Len(s) \in Nat /\ \A p \in DOMAIN tlbMap : \E x \in 1 .. Len(s) : s[x] = p
    BY <1>1, Distinct
  <2>2. /\ DOMAIN list.next = ToSet(s) /\ DOMAIN list.prev = ToSet(s)
        /\ \A x \in 1 .. Len(s) : /\ list.next[s[x]] = IF x = 1 THEN NULL ELSE s[x - 1]
                                  /\ list.prev[s[x]] = IF x = Len(s) THEN NULL ELSE s[x + 1]
    BY <1>1, <1>4 DEF LinkedBy
  <2>3. ASSUME NEW p \in DOMAIN tlbMap, list.next[p] # NULL PROVE list.prev[list.next[p]] = p
    <3>1. PICK x \in 1 .. Len(s) : s[x] = p
      BY <2>1
    <3>2. x # 1 /\ list.next[p] = s[x - 1]
      BY <2>2, <2>3, <3>1
    <3>3. x - 1 \in 1 .. Len(s) /\ x - 1 # Len(s) /\ (x - 1) + 1 = x
      BY <2>1, <3>2
    <3>4. list.prev[s[x - 1]] = s[(x - 1) + 1]
      BY <2>2, <3>3
    <3>. QED  BY <3>1, <3>2, <3>3, <3>4
  <2>. QED  BY <1>3, <2>2, <2>3
<1>. QED  BY <1>1, <1>2, <1>3, <1>4 DEF MapMatchesOrder, LRUExact

-----------------------------------------------------------------------------
(* What the recursion says of the most hits from j on with the hits h from *)
(* there on, and all its equations.                                        *)
MostAt(j, pages, h) ==
    IF j = N THEN 0
    ELSE IF addresses[j] \in pages THEN 1 + h[pages]
    ELSE IF Cardinality(pages) < K THEN h[pages \cup {addresses[j]}]
    ELSE Max({h[(pages \ {q}) \cup {addresses[j]}] : q \in pages})

MostFrom(f) == [j \in 0 .. N |-> [pages \in SUBSET PageNumbers |-> MostAt(j, pages, f[j + 1])]]

LEMMA BestChosen == best = CHOOSE f : f = MostFrom(f)
BY DEF best, MostFrom, MostAt

LEMMA SameMost ==
    ASSUME TestCase, NEW j \in 0 .. N - 1, NEW pages \in SUBSET PageNumbers, NEW g, NEW h,
           \A X \in SUBSET PageNumbers : g[X] = h[X]
    PROVE  MostAt(j, pages, g) = MostAt(j, pages, h)
<1>1. addresses[j] \in PageNumbers /\ j # N
  BY DEF TestCase
<1>2. g[pages] = h[pages] /\ g[pages \cup {addresses[j]}] = h[pages \cup {addresses[j]}]
  BY <1>1
<1>3. \A q \in pages : g[(pages \ {q}) \cup {addresses[j]}] = h[(pages \ {q}) \cup {addresses[j]}]
  BY <1>1
<1>4. {g[(pages \ {q}) \cup {addresses[j]}] : q \in pages} = {h[(pages \ {q}) \cup {addresses[j]}] : q \in pages}
  BY <1>3
<1>. QED  BY <1>1, <1>2, <1>4 DEF MostAt

(* There is such a function: one for d accesses gives one for d + 1.       *)
LEMMA BestExists == ASSUME TestCase PROVE \E f : f = MostFrom(f)
<1>. DEFINE Solves(f, d) == \A j \in N - d .. N : \A pages \in SUBSET PageNumbers :
                                f[j][pages] = MostAt(j, pages, f[j + 1])
            Missing == {d \in Nat : d <= N /\ ~\E f : Solves(f, d)}
<1>0. N \in Nat
  BY DEF TestCase
<1>1. ASSUME NEW d \in Nat, d <= N PROVE \E f : Solves(f, d)
  <2>. SUFFICES ASSUME Missing # {} PROVE FALSE
    BY <1>1
  <2>1. PICK e \in Missing : \A k \in Missing : e <= k
    <3>1. Missing \in SUBSET Nat
      OBVIOUS
    <3>. HIDE DEF Missing
    <3>. QED  BY <3>1, LeastNatural
  <2>2. e \in Nat /\ e <= N /\ ~\E f : Solves(f, e)
    BY <2>1
  <2>3. CASE e = 0
    <3>. DEFINE f == [j \in 0 .. N |-> [pages \in SUBSET PageNumbers |-> 0]]
    <3>1. \A j \in N - e .. N : j = N /\ j \in 0 .. N
      BY <1>0, <2>3
    <3>2. Solves(f, e)
      BY <3>1 DEF MostAt
    <3>. HIDE DEF f, Solves
    <3>. QED  BY <2>2, <3>2
  <2>4. CASE e # 0
    <3>1. e - 1 \in Nat /\ e - 1 <= N /\ ~(e <= e - 1)
      BY <1>0, <2>2, <2>4
    <3>2. PICK g : Solves(g, e - 1)
      BY <2>1, <3>1
    <3>. DEFINE m == N - e
                f == [j \in Nat |-> IF j = m
                        THEN [pages \in SUBSET PageNumbers |-> MostAt(m, pages, g[m + 1])]
                        ELSE g[j]]
    <3>3. m \in 0 .. N /\ m \in Nat /\ m + 1 \in Nat /\ m + 1 # m /\ N - (e - 1) = m + 1
      BY <1>0, <2>2, <2>4
    <3>4. f[m + 1] = g[m + 1]
      BY <3>3
    <3>5. ASSUME NEW j \in m .. N, NEW pages \in SUBSET PageNumbers
          PROVE  f[j][pages] = MostAt(j, pages, f[j + 1])
      <4>1. CASE j = m
        <5>1. f[j][pages] = MostAt(m, pages, g[m + 1])
          BY <3>3, <4>1
        <5>. HIDE DEF f, m
        <5>. QED  BY <3>4, <4>1, <5>1
      <4>2. CASE j # m
        <5>1. j \in m + 1 .. N /\ j \in Nat /\ j + 1 \in Nat /\ j + 1 # m
          BY <1>0, <3>3, <4>2
        <5>2. f[j] = g[j] /\ f[j + 1] = g[j + 1]
          BY <4>2, <5>1
        <5>3. g[j][pages] = MostAt(j, pages, g[j + 1])
          BY <3>2, <3>3, <5>1
        <5>. HIDE DEF f, m
        <5>. QED  BY <5>2, <5>3
      <4>. QED  BY <4>1, <4>2
    <3>6. Solves(f, e)
      BY <3>5
    <3>. HIDE DEF f, Solves
    <3>. QED  BY <2>2, <3>6
  <2>. QED  BY <2>3, <2>4
<1>2. PICK g : Solves(g, N)
  <2>. HIDE DEF Solves
  <2>. QED  BY <1>0, <1>1
<1>. DEFINE f == [j \in 0 .. N |-> [pages \in SUBSET PageNumbers |-> g[j][pages]]]
<1>3. ASSUME NEW j \in 0 .. N, NEW pages \in SUBSET PageNumbers
      PROVE  g[j][pages] = MostAt(j, pages, g[j + 1])
  <2>1. j \in N - N .. N
    BY <1>0
  <2>. QED  BY <1>2, <2>1
<1>4. ASSUME NEW j \in 0 .. N, NEW pages \in SUBSET PageNumbers
      PROVE  f[j][pages] = MostAt(j, pages, f[j + 1])
  <2>1. f[j][pages] = MostAt(j, pages, g[j + 1])
    BY <1>3
  <2>2. CASE j = N
    BY <2>1, <2>2 DEF MostAt
  <2>3. CASE j # N
    <3>1. j \in 0 .. N - 1 /\ j + 1 \in 0 .. N
      BY <1>0, <2>3
    <3>2. \A X \in SUBSET PageNumbers : f[j + 1][X] = g[j + 1][X]
      BY <3>1
    <3>. HIDE DEF f
    <3>. QED  BY <2>1, <3>1, <3>2, SameMost
  <2>. QED  BY <2>2, <2>3
<1>5. f = [j \in 0 .. N |-> [pages \in SUBSET PageNumbers |-> f[j][pages]]]
  OBVIOUS
<1>. HIDE DEF f
<1>6. f = MostFrom(f)
  BY <1>4, <1>5 DEF MostFrom
<1>. QED  BY <1>6

LEMMA BestIs ==
    ASSUME TestCase, NEW j \in 0 .. N, NEW pages \in SUBSET PageNumbers
    PROVE  best[j][pages] = MostAt(j, pages, best[j + 1])
<1>1. best = MostFrom(best)
  BY BestChosen, BestExists, Zenon
<1>2. best[j][pages] = MostFrom(best)[j][pages]
  BY <1>1, Zenon
<1>3. \A f : MostFrom(f)[j][pages] = MostAt(j, pages, f[j + 1])
  BY DEF MostFrom
<1>. QED  BY <1>2, <1>3, Zenon

(* The greatest of some numbers up to n.                                   *)
LEMMA GreatestIs ==
    ASSUME NEW n \in Nat, NEW S \in SUBSET (0 .. n), S # {}
    PROVE  Max(S) \in S /\ \A y \in S : Max(S) >= y
<1>. DEFINE T == {n - y : y \in S}
<1>1. T \in SUBSET Nat /\ T # {}
  <2>1. ASSUME NEW y \in S PROVE n - y \in Nat
    <3>1. y \in 0 .. n
      OBVIOUS
    <3>. QED  BY <3>1
  <2>2. \E y \in S : n - y \in T
    OBVIOUS
  <2>. QED  BY <2>1, <2>2
<1>2. PICK m \in T : \A k \in T : m <= k
  <2>. HIDE DEF T
  <2>. QED  BY <1>1, LeastNatural
<1>3. PICK x \in S : m = n - x
  OBVIOUS
<1>4. ASSUME NEW y \in S PROVE x >= y
  <2>1. n - x <= n - y
    BY <1>2, <1>3
  <2>2. x \in 0 .. n /\ y \in 0 .. n
    OBVIOUS
  <2>. QED  BY <2>1, <2>2
<1>. QED  BY <1>4 DEF Max

(* Induction from the last access down to the first.                       *)
LEMMA Countdown ==
    ASSUME N \in Nat, NEW S \in SUBSET (0 .. N), N \in S,
           \A j \in 0 .. N - 1 : j + 1 \in S => j \in S
    PROVE  S = 0 .. N
<1>. DEFINE Wrong == {d \in 0 .. N : N - d \notin S}
<1>1. Wrong = {}
  <2>. SUFFICES ASSUME Wrong # {} PROVE FALSE
    OBVIOUS
  <2>1. PICK d \in Wrong : \A k \in Wrong : d <= k
    <3>1. Wrong \in SUBSET Nat
      OBVIOUS
    <3>. HIDE DEF Wrong
    <3>. QED  BY <3>1, LeastNatural
  <2>2. d \in 0 .. N /\ N - d \notin S
    BY <2>1
  <2>3. d # 0
    BY <2>2
  <2>4. d - 1 \in 0 .. N /\ ~(d <= d - 1) /\ N - (d - 1) = (N - d) + 1 /\ N - d \in 0 .. N - 1
    BY <2>2, <2>3
  <2>5. (N - d) + 1 \in S
    BY <2>1, <2>4
  <2>. QED  BY <2>2, <2>4, <2>5
<1>2. ASSUME NEW j \in 0 .. N PROVE j \in S
  <2>1. N - j \in 0 .. N /\ N - (N - j) = j
    OBVIOUS
  <2>. QED  BY <1>1, <2>1
<1>. QED  BY <1>2

(* No more hits than accesses.                                             *)
LEMMA BestBounded ==
    ASSUME TestCase
    PROVE  \A j \in 0 .. N : \A pages \in SUBSET PageNumbers : best[j][pages] \in 0 .. N - j
<1>. DEFINE S == {j \in 0 .. N : \A X \in SUBSET PageNumbers : best[j][X] \in 0 .. N - j}
<1>0. N \in Nat /\ K \in Nat \ {0}
  BY DEF TestCase
<1>1. N \in S
  <2>1. N \in 0 .. N
    BY <1>0
  <2>2. \A X \in SUBSET PageNumbers : best[N][X] = 0
    BY <2>1, BestIs DEF MostAt
  <2>. QED  BY <1>0, <2>1, <2>2
<1>2. ASSUME NEW j \in 0 .. N - 1, j + 1 \in S PROVE j \in S
  <2>. DEFINE a == addresses[j]
              n == N - (j + 1)
  <2>1. j \in 0 .. N /\ j # N /\ n \in Nat /\ n + 1 = N - j /\ a \in PageNumbers
    BY <1>0 DEF TestCase
  <2>2. \A X \in SUBSET PageNumbers : best[j + 1][X] \in 0 .. n
    BY <1>2
  <2>. HIDE DEF n, S
  <2>3. ASSUME NEW X \in SUBSET PageNumbers PROVE best[j][X] \in 0 .. n + 1
    <3>. DEFINE R == {best[j + 1][(X \ {q}) \cup {a}] : q \in X}
    <3>0. best[j][X] = MostAt(j, X, best[j + 1])
      BY <2>1, BestIs
    <3>1. CASE a \in X
      <4>1. best[j][X] = 1 + best[j + 1][X]
        BY <2>1, <3>0, <3>1 DEF MostAt
      <4>2. best[j + 1][X] \in 0 .. n
        BY <2>2
      <4>. QED  BY <2>1, <4>1, <4>2
    <3>2. CASE a \notin X /\ Cardinality(X) < K
      <4>1. best[j][X] = best[j + 1][X \cup {a}]
        BY <2>1, <3>0, <3>2 DEF MostAt
      <4>2. best[j + 1][X \cup {a}] \in 0 .. n
        BY <2>1, <2>2
      <4>. QED  BY <2>1, <4>1, <4>2
    <3>3. CASE a \notin X /\ ~(Cardinality(X) < K)
      <4>1. best[j][X] = Max(R)
        BY <2>1, <3>0, <3>3 DEF MostAt
      <4>2. X # {}
        BY <1>0, <3>3, FS_EmptySet
      <4>3. R \in SUBSET (0 .. n) /\ R # {}
        <5>1. ASSUME NEW q \in X PROVE best[j + 1][(X \ {q}) \cup {a}] \in 0 .. n
          <6>1. (X \ {q}) \cup {a} \in SUBSET PageNumbers
            BY <2>1
          <6>. QED  BY <2>2, <6>1
        <5>. QED  BY <4>2, <5>1
      <4>. HIDE DEF R
      <4>4. Max(R) \in 0 .. n
        BY <2>1, <4>3, GreatestIs
      <4>. QED  BY <2>1, <4>1, <4>4
    <3>. QED  BY <3>1, <3>2, <3>3
  <2>. QED  BY <2>1, <2>3 DEF S
<1>3. S = 0 .. N
  <2>. HIDE DEF S
  <2>1. S \in SUBSET (0 .. N)
    BY DEF S
  <2>. QED  BY <1>0, <1>1, <1>2, <2>1, Countdown
<1>. QED  BY <1>3

(* A full buffer, and what it is after one page has been replaced.         *)
Buffer(X) == X \in SUBSET PageNumbers /\ IsFiniteSet(X) /\ Cardinality(X) = K

LEMMA Replaced ==
    ASSUME K \in Nat, NEW X, Buffer(X), NEW q \in X, NEW p \in PageNumbers \ X
    PROVE  Buffer((X \ {q}) \cup {p})
<1>1. IsFiniteSet(X \ {q}) /\ Cardinality(X \ {q}) = K - 1
  BY FS_RemoveElement DEF Buffer
<1>2. p \notin X \ {q} /\ (X \ {q}) \cup {p} \in SUBSET PageNumbers
  BY DEF Buffer
<1>3. IsFiniteSet((X \ {q}) \cup {p}) /\ Cardinality((X \ {q}) \cup {p}) = (K - 1) + 1
  BY <1>1, <1>2, FS_AddElement
<1>. QED  BY <1>2, <1>3 DEF Buffer

(* A full buffer hits, or the best victim is taken.                        *)
LEMMA BestOfFull ==
    ASSUME TestCase, NEW j \in 0 .. N - 1, NEW X, Buffer(X)
    PROVE  /\ addresses[j] \in X => best[j][X] = 1 + best[j + 1][X]
           /\ addresses[j] \notin X =>
                  /\ \A q \in X : best[j][X] >= best[j + 1][(X \ {q}) \cup {addresses[j]}]
                  /\ \E q \in X : best[j][X] = best[j + 1][(X \ {q}) \cup {addresses[j]}]
<1>. DEFINE a == addresses[j]
            R == {best[j + 1][(X \ {q}) \cup {a}] : q \in X}
            n == N - (j + 1)
<1>1. /\ K \in Nat \ {0} /\ j # N /\ j \in 0 .. N /\ j + 1 \in 0 .. N /\ n \in Nat /\ a \in PageNumbers
      /\ X \in SUBSET PageNumbers /\ Cardinality(X) = K /\ ~(Cardinality(X) < K)
  BY DEF TestCase, Buffer
<1>2. best[j][X] = MostAt(j, X, best[j + 1])
  BY <1>1, BestIs
<1>3. a \in X => best[j][X] = 1 + best[j + 1][X]
  BY <1>1, <1>2 DEF MostAt
<1>4. ASSUME a \notin X
      PROVE  /\ \A q \in X : best[j][X] >= best[j + 1][(X \ {q}) \cup {a}]
             /\ \E q \in X : best[j][X] = best[j + 1][(X \ {q}) \cup {a}]
  <2>1. best[j][X] = Max(R)
    BY <1>1, <1>2, <1>4 DEF MostAt
  <2>2. X # {}
    BY <1>1, FS_EmptySet
  <2>3. R \in SUBSET (0 .. n) /\ R # {}
    <3>1. ASSUME NEW q \in X PROVE best[j + 1][(X \ {q}) \cup {a}] \in 0 .. n
      <4>1. (X \ {q}) \cup {a} \in SUBSET PageNumbers
        BY <1>1
      <4>. QED  BY <1>1, <4>1, BestBounded
    <3>. QED  BY <2>2, <3>1
  <2>4. Max(R) \in R /\ \A y \in R : Max(R) >= y
    <3>. HIDE DEF R
    <3>. QED  BY <1>1, <2>3, GreatestIs
  <2>. QED  BY <2>1, <2>4
<1>. QED  BY <1>3, <1>4

(* c instead of b in a full buffer has at most e hits more.                *)
Worse(j, X, b, c, e) == best[j][(X \ {b}) \cup {c}] <= best[j][X] + e

(* One access, from what holds for the ones behind it.                     *)
LEMMA Compared ==
    ASSUME TestCase, NEW j \in 0 .. N - 1, NEW e \in {0, 1}, NEW X, Buffer(X),
           NEW b \in X, NEW c \in PageNumbers \ X,
           \A q \in X : Worse(j + 1, X, q, c, 1),
           addresses[j] \notin {b, c} =>
               \A Z : Buffer(Z) /\ b \in Z /\ c \notin Z => Worse(j + 1, Z, b, c, e),
           addresses[j] = c => e = 1
    PROVE  Worse(j, X, b, c, e)
<1>. DEFINE a == addresses[j]
            Y == (X \ {b}) \cup {c}
            here(Z) == best[j][Z]
            next(Z) == best[j + 1][Z]
<1>1. /\ K \in Nat /\ a \in PageNumbers /\ Buffer(Y) /\ j \in 0 .. N /\ j + 1 \in 0 .. N /\ N \in Nat
      /\ Y \ {c} = X \ {b} /\ c # b
  <2>1. /\ K \in Nat /\ a \in PageNumbers /\ j \in 0 .. N /\ j + 1 \in 0 .. N /\ N \in Nat
    BY DEF TestCase
  <2>2. Buffer(Y)
    BY <2>1, Replaced
  <2>. QED  BY <2>1, <2>2
<1>2. \A Z : Buffer(Z) => here(Z) \in Int /\ next(Z) \in Int
  <2>1. ASSUME NEW Z, Buffer(Z) PROVE here(Z) \in Int /\ next(Z) \in Int
    <3>1. best[j][Z] \in 0 .. N - j /\ best[j + 1][Z] \in 0 .. N - (j + 1)
      BY <1>1, <2>1, BestBounded DEF Buffer
    <3>. QED  BY <3>1
  <2>. QED  BY <2>1
<1>3. ASSUME NEW Z, Buffer(Z)
      PROVE  /\ a \in Z => here(Z) = 1 + next(Z)
             /\ a \notin Z => /\ \A q \in Z : here(Z) >= next((Z \ {q}) \cup {a})
                              /\ \E q \in Z : here(Z) = next((Z \ {q}) \cup {a})
  BY <1>3, BestOfFull
<1>4. \A q \in X : next((X \ {q}) \cup {c}) <= next(X) + 1
  BY DEF Worse
<1>5. \A Z : a \notin {b, c} /\ Buffer(Z) /\ b \in Z /\ c \notin Z => next((Z \ {b}) \cup {c}) <= next(Z) + e
  BY DEF Worse
<1>6. ASSUME here(Y) <= here(X) + e PROVE Worse(j, X, b, c, e)
  BY <1>6 DEF Worse
<1>. HIDE DEF here, next, a
<1>7. CASE a = b
  <2>1. here(X) = 1 + next(X) /\ a \notin Y
    BY <1>1, <1>3, <1>7
  <2>2. PICK q \in Y : here(Y) = next((Y \ {q}) \cup {a})
    BY <1>1, <1>3, <2>1
  <2>3. CASE q = c
    <3>1. (Y \ {q}) \cup {a} = X
      BY <1>1, <1>7, <2>3
    <3>2. here(Y) = next(X)
      BY <2>2, <3>1
    <3>. HIDE DEF Y
    <3>. QED  BY <1>1, <1>2, <1>6, <2>1, <3>2
  <2>4. CASE q # c
    <3>1. q \in X /\ (Y \ {q}) \cup {a} = (X \ {q}) \cup {c}
      BY <1>1, <1>7, <2>4
    <3>2. here(Y) <= next(X) + 1
      BY <1>4, <2>2, <3>1
    <3>. QED  BY <1>1, <1>2, <1>6, <2>1, <3>2
  <2>. QED  BY <2>3, <2>4
<1>8. CASE a = c
  <2>1. e = 1 /\ here(Y) = 1 + next(Y) /\ here(X) >= next((X \ {b}) \cup {a})
    BY <1>1, <1>3, <1>8 DEF a
  <2>2. here(X) >= next(Y)
    BY <1>8, <2>1
  <2>. HIDE DEF Y
  <2>. QED  BY <1>1, <1>2, <1>6, <2>1, <2>2
<1>9. CASE a \in X \ {b}
  <2>1. here(X) = 1 + next(X) /\ here(Y) = 1 + next(Y)
    BY <1>1, <1>3, <1>9
  <2>2. next(Y) <= next(X) + e
    BY <1>5, <1>9
  <2>. HIDE DEF Y
  <2>. QED  BY <1>1, <1>2, <1>6, <2>1, <2>2
<1>10. CASE a \notin X /\ a # c
  <2>1. a \notin Y /\ a \notin {b, c}
    BY <1>10
  <2>2. PICK q \in Y : here(Y) = next((Y \ {q}) \cup {a})
    BY <1>1, <1>3, <2>1
  <2>3. CASE q = c
    <3>1. (Y \ {q}) \cup {a} = (X \ {b}) \cup {a}
      BY <1>1, <2>3
    <3>2. here(X) >= next((X \ {b}) \cup {a})
      BY <1>3, <1>10
    <3>3. here(X) >= here(Y)
      BY <2>2, <3>1, <3>2
    <3>. HIDE DEF Y
    <3>. QED  BY <1>1, <1>2, <1>6, <3>3
  <2>4. CASE q # c
    <3>. DEFINE Z == (X \ {q}) \cup {a}
    <3>1. q \in X /\ q # b /\ (Y \ {q}) \cup {a} = (Z \ {b}) \cup {c}
      BY <1>1, <2>1, <2>4
    <3>2. Buffer(Z) /\ b \in Z /\ c \notin Z
      BY <1>1, <1>10, <3>1, Replaced
    <3>3. here(X) >= next(Z)
      BY <1>3, <1>10, <3>1
    <3>. HIDE DEF Z
    <3>4. here(Y) <= next(Z) + e
      BY <1>5, <2>1, <2>2, <3>1, <3>2
    <3>. HIDE DEF Y
    <3>. QED  BY <1>1, <1>2, <1>6, <3>2, <3>3, <3>4
  <2>. QED  BY <2>3, <2>4
<1>. QED  BY <1>7, <1>8, <1>9, <1>10

(* Any page is worth one hit at most.                                      *)
LEMMA OneMore ==
    ASSUME TestCase
    PROVE  \A j \in 0 .. N : \A X : \A b \in X : \A c \in PageNumbers \ X :
               Buffer(X) => Worse(j, X, b, c, 1)
<1>. DEFINE Holds(j) == \A X : \A b \in X : \A c \in PageNumbers \ X : Buffer(X) => Worse(j, X, b, c, 1)
            S == {j \in 0 .. N : Holds(j)}
<1>0. N \in Nat /\ N \in 0 .. N /\ K \in Nat
  BY DEF TestCase
<1>1. Holds(N)
  <2>1. ASSUME NEW X, NEW b \in X, NEW c \in PageNumbers \ X, Buffer(X) PROVE Worse(N, X, b, c, 1)
    <3>1. Buffer((X \ {b}) \cup {c})
      BY <1>0, <2>1, Replaced
    <3>2. best[N][X] \in 0 .. N - N /\ best[N][(X \ {b}) \cup {c}] \in 0 .. N - N
      BY <1>0, <2>1, <3>1, BestBounded DEF Buffer
    <3>. QED  BY <1>0, <3>2 DEF Worse
  <2>. QED  BY <2>1
<1>2. ASSUME NEW j \in 0 .. N - 1, Holds(j + 1) PROVE Holds(j)
  <2>1. ASSUME NEW X, NEW b \in X, NEW c \in PageNumbers \ X, Buffer(X) PROVE Worse(j, X, b, c, 1)
    <3>1. \A q \in X : Worse(j + 1, X, q, c, 1)
      BY <1>2, <2>1
    <3>2. \A Z : Buffer(Z) /\ b \in Z /\ c \notin Z => Worse(j + 1, Z, b, c, 1)
      BY <1>2
    <3>. HIDE DEF Holds
    <3>. QED  BY <2>1, <3>1, <3>2, Compared
  <2>. QED  BY <2>1
<1>. HIDE DEF Holds
<1>3. S = 0 .. N
  <2>1. S \in SUBSET (0 .. N) /\ N \in S /\ \A j \in 0 .. N - 1 : j + 1 \in S => j \in S
    BY <1>0, <1>1, <1>2
  <2>. HIDE DEF S
  <2>. QED  BY <1>0, <2>1, Countdown
<1>4. \A j \in 0 .. N : Holds(j)
  BY <1>3
<1>. QED  BY <1>4 DEF Holds

(* c is not used before b is, from j on.                                   *)
NotBefore(c, b, j) == \A k \in j .. N - 1 : addresses[k] = c => \E h \in j .. k - 1 : addresses[h] = b

(* A page that is not used before another is not worth more than it.       *)
LEMMA NoMore ==
    ASSUME TestCase
    PROVE  \A j \in 0 .. N : \A X : \A b \in X : \A c \in PageNumbers \ X :
               Buffer(X) /\ NotBefore(c, b, j) => Worse(j, X, b, c, 0)
<1>. DEFINE Holds(j) == \A X : \A b \in X : \A c \in PageNumbers \ X :
                            Buffer(X) /\ NotBefore(c, b, j) => Worse(j, X, b, c, 0)
            S == {j \in 0 .. N : Holds(j)}
<1>0. N \in Nat /\ N \in 0 .. N /\ K \in Nat
  BY DEF TestCase
<1>1. Holds(N)
  <2>1. ASSUME NEW X, NEW b \in X, NEW c \in PageNumbers \ X, Buffer(X) PROVE Worse(N, X, b, c, 0)
    <3>1. Buffer((X \ {b}) \cup {c})
      BY <1>0, <2>1, Replaced
    <3>2. best[N][X] \in 0 .. N - N /\ best[N][(X \ {b}) \cup {c}] \in 0 .. N - N
      BY <1>0, <2>1, <3>1, BestBounded DEF Buffer
    <3>. QED  BY <1>0, <3>2 DEF Worse
  <2>. QED  BY <2>1
<1>2. ASSUME NEW j \in 0 .. N - 1, Holds(j + 1) PROVE Holds(j)
  <2>1. ASSUME NEW X, NEW b \in X, NEW c \in PageNumbers \ X, Buffer(X), NotBefore(c, b, j)
        PROVE  Worse(j, X, b, c, 0)
    <3>1. \A q \in X : Worse(j + 1, X, q, c, 1)
      <4>1. j + 1 \in 0 .. N
        BY <1>0
      <4>. QED  BY <2>1, <4>1, OneMore
    <3>2. addresses[j] # c
      <4>1. j \in j .. N - 1 /\ ~\E h \in j .. j - 1 : TRUE
        BY <1>0
      <4>. QED  BY <2>1, <4>1 DEF NotBefore
    <3>3. ASSUME addresses[j] # b PROVE NotBefore(c, b, j + 1)
      <4>1. ASSUME NEW k \in j + 1 .. N - 1, addresses[k] = c
            PROVE  \E h \in j + 1 .. k - 1 : addresses[h] = b
        <5>1. k \in j .. N - 1
          BY <1>0
        <5>2. PICK h \in j .. k - 1 : addresses[h] = b
          BY <2>1, <4>1, <5>1 DEF NotBefore
        <5>3. h \in j + 1 .. k - 1
          BY <1>0, <3>3, <5>2
        <5>. QED  BY <5>2, <5>3
      <4>. QED  BY <4>1 DEF NotBefore
    <3>4. addresses[j] # b => \A Z : Buffer(Z) /\ b \in Z /\ c \notin Z => Worse(j + 1, Z, b, c, 0)
      BY <1>2, <3>3
    <3>. HIDE DEF Holds
    <3>. QED  BY <2>1, <3>1, <3>2, <3>4, Compared
  <2>. QED  BY <2>1
<1>. HIDE DEF Holds
<1>3. S = 0 .. N
  <2>1. S \in SUBSET (0 .. N) /\ N \in S /\ \A j \in 0 .. N - 1 : j + 1 \in S => j \in S
    BY <1>0, <1>1, <1>2
  <2>. HIDE DEF S
  <2>. QED  BY <1>0, <2>1, Countdown
<1>4. \A j \in 0 .. N : Holds(j)
  BY <1>3
<1>. QED  BY <1>4 DEF Holds

-----------------------------------------------------------------------------
(* The victim of Optimal costs no hits.                                    *)
LEMMA FarthestIsBest ==
    ASSUME TestCase, i \in 0 .. N - 1, Buffer(DOMAIN tlbMap), ToSet(Order) = DOMAIN tlbMap,
           addresses[i] \notin DOMAIN tlbMap, NEW old \in DOMAIN tlbMap, Definition!LongestUnused(old)
    PROVE  best[i][DOMAIN tlbMap] = best[i + 1][(DOMAIN tlbMap \ {old}) \cup {addresses[i]}]
<1>. DEFINE S == DOMAIN tlbMap
            p == addresses[i]
            X == (S \ {old}) \cup {p}
<1>1. /\ N \in Nat /\ K \in Nat /\ p \in PageNumbers /\ i \in Nat /\ i + 1 \in 0 .. N /\ i \in 0 .. N
      /\ DOMAIN addresses = 0 .. N - 1
  BY DEF TestCase
<1>2. Buffer(X) /\ old \in PageNumbers \ X
  BY <1>1, Replaced DEF Buffer
<1>3. best[i][S] >= best[i + 1][X]
  BY BestOfFull
<1>4. PICK q \in S : best[i][S] = best[i + 1][(S \ {q}) \cup {p}]
  BY BestOfFull
<1>5. CASE q = old
  BY <1>4, <1>5
<1>6. CASE q # old
  <2>1. q \in X /\ (S \ {q}) \cup {p} = (X \ {q}) \cup {old}
    BY <1>6
  <2>2. NotBefore(old, q, i + 1)
    <3>1. q \in Definition!ToSet(Order) \ {old}
      BY <1>6 DEF ToSet, Definition!ToSet
    <3>2. ASSUME NEW k \in i + 1 .. N - 1, addresses[k] = old
          PROVE  \E h \in i + 1 .. k - 1 : addresses[h] = q
      <4>1. k \in Definition!Ahead(old)
        BY <1>1, <3>2 DEF Definition!Ahead
      <4>2. PICK h \in Definition!Ahead(q) : \A m \in Definition!Ahead(old) : h < m
        BY <3>1, <4>1 DEF Definition!LongestUnused
      <4>3. h \in 0 .. N - 1 /\ h >= i /\ addresses[h] = q /\ h < k
        BY <1>1, <4>1, <4>2 DEF Definition!Ahead
      <4>4. h # i
        BY <4>3
      <4>. QED  BY <1>1, <4>3, <4>4
    <3>. QED  BY <3>2 DEF NotBefore
  <2>. HIDE DEF X
  <2>3. Worse(i + 1, X, q, old, 0)
    BY <1>1, <1>2, <2>1, <2>2, NoMore
  <2>4. best[i + 1][(X \ {q}) \cup {old}] <= best[i + 1][X] + 0
    BY <2>3 DEF Worse
  <2>5. best[i][S] \in 0 .. N - i /\ best[i + 1][X] \in 0 .. N - (i + 1)
    BY <1>1, <1>2, BestBounded DEF Buffer
  <2>6. best[i][S] = best[i + 1][(X \ {q}) \cup {old}]
    BY <1>4, <2>1
  <2>7. best[i][S] \in Int /\ best[i + 1][X] \in Int
    BY <1>1, <2>5
  <2>8. best[i][S] = best[i + 1][X]
    BY <1>3, <2>4, <2>6, <2>7
  <2>. QED  BY <2>8 DEF X
<1>. QED  BY <1>5, <1>6

(* While Optimal runs, the hits it has and the most that can follow are    *)
(* the most there can be.                                                  *)
BestInv == /\ turn = 4 => tlbHits[4] + best[i][DOMAIN tlbMap] = best[0][{}]
           /\ turn = 5 => tlbHits[4] = best[0][{}]

LEMMA SameBest == ASSUME K' = K, addresses' = addresses PROVE best' = best
BY DEF best, N

LEMMA BestStarts == Init => BestInv
BY DEF Init, BestInv

LEMMA BestAccess ==
    ASSUME NEW p, Accesses(p), turn = 4, BestInv, Optimal(p)
    PROVE  BestInv'
<1>. DEFINE S == DOMAIN tlbMap
<1>0. /\ TestCase /\ K \in Nat \ {0} /\ N \in Nat /\ i \in 0 .. N - 1 /\ i \in 0 .. N /\ i + 1 \in 0 .. N
      /\ p \in PageNumbers /\ p = addresses[i] /\ TLBInv /\ i # N
  BY AccessFacts DEF Accesses
<1>1. PICK s, u : /\ UseInv(s, u) /\ Order = s
                  /\ \A q \in S : q \in DOMAIN u /\ tlbMap[q] = u[q]
  BY <1>0, OptimalOrder, Zenon
<1>2. Lists(s, S) /\ LastUses(u, i) /\ Len(s) <= K
  BY <1>1 DEF UseInv
<1>3. /\ IsFiniteSet(S) /\ S \in SUBSET PageNumbers /\ ToSet(Order) = S /\ Cardinality(S) \in Nat
      /\ Cardinality(S) <= K
  BY <1>1, <1>2, Distinct, ListsSize
<1>4. tlbHits \in [1 .. 4 -> Nat]
  BY <1>0 DEF TLBInv, HitsInv
<1>5. best[i][S] = MostAt(i, S, best[i + 1])
  BY <1>0, <1>3, BestIs
<1>6. \A X \in SUBSET PageNumbers : best[i + 1][X] \in Nat
  <2>1. ASSUME NEW X \in SUBSET PageNumbers PROVE best[i + 1][X] \in Nat
    <3>1. best[i + 1][X] \in 0 .. N - (i + 1)
      BY <1>0, BestBounded
    <3>. QED  BY <3>1
  <2>. QED  BY <2>1
<1>7. tlbHits[4] + best[i][S] = best[0][{}]
  BY DEF BestInv
<1>8. ASSUME tlbHits'[4] + best[i + 1][DOMAIN tlbMap'] = best[0][{}] PROVE BestInv'
  <2>1. turn' = 4 /\ i' = i + 1 /\ best' = best
    BY SameBest DEF Accesses
  <2>. QED  BY <1>8, <2>1 DEF BestInv
<1>9. CASE p \in S
  <2>1. tlbHits'[4] = tlbHits[4] + 1 /\ DOMAIN tlbMap' = S
    <3>1. tlbHits' = [tlbHits EXCEPT ![4] = @ + 1] /\ tlbMap' = Put(tlbMap, p, i)
      BY <1>9 DEF Optimal
    <3>2. tlbHits'[4] = tlbHits[4] + 1
      BY <1>4, <3>1
    <3>3. DOMAIN tlbMap' = S
      BY <1>9, <3>1 DEF Put
    <3>. QED  BY <3>2, <3>3
  <2>2. best[i][S] = 1 + best[i + 1][S]
    BY <1>0, <1>5, <1>9 DEF MostAt
  <2>3. tlbHits[4] \in Nat /\ best[i + 1][S] \in Nat
    BY <1>3, <1>4, <1>6
  <2>. HIDE DEF S
  <2>. QED  BY <1>7, <1>8, <2>1, <2>2, <2>3
<1>10. CASE p \notin S /\ Cardinality(S) # K
  <2>1. tlbHits' = tlbHits /\ DOMAIN tlbMap' = S \cup {p}
    BY <1>10 DEF Optimal, Put
  <2>2. Cardinality(S) < K
    BY <1>0, <1>3, <1>10
  <2>3. best[i][S] = best[i + 1][S \cup {p}]
    BY <1>0, <1>5, <1>10, <2>2 DEF MostAt
  <2>. QED  BY <1>7, <1>8, <2>1, <2>3
<1>11. CASE p \notin S /\ Cardinality(S) = K
  <2>1. PICK old \in Farthest : tlbMap' = Put(Erase(tlbMap, old), p, i)
    BY <1>11 DEF Optimal
  <2>2. tlbHits' = tlbHits
    BY <1>11 DEF Optimal
  <2>3. DOMAIN tlbMap' = (S \ {old}) \cup {p}
    BY <2>1 DEF Put, Erase
  <2>4. S \subseteq DOMAIN u /\ \A q \in S : tlbMap[q] = u[q]
    BY <1>1
  <2>5. old \in S /\ Definition!LongestUnused(old)
    BY <1>0, <1>2, <1>3, <2>4, FarthestUnused
  <2>6. Buffer(S)
    BY <1>3, <1>11 DEF Buffer
  <2>7. best[i][S] = best[i + 1][(S \ {old}) \cup {p}]
    BY <1>0, <1>3, <1>11, <2>5, <2>6, FarthestIsBest
  <2>. QED  BY <1>7, <1>8, <2>2, <2>3, <2>7
<1>. QED  BY <1>9, <1>10, <1>11

LEMMA BestSteps == ASSUME TLBInv, BestInv, [Next]_vars PROVE BestInv'
<1>1. CASE Access
  <2>1. K' = K /\ addresses' = addresses /\ turn' = turn
    BY <1>1 DEF Access
  <2>2. turn # 5
    BY <1>1 DEF Access
  <2>3. CASE turn = 4
    <3>1. i \in DOMAIN addresses /\ Accesses(addresses[i]) /\ Optimal(addresses[i])
      BY <1>1, <2>3 DEF Access, Accesses, TLBInv, TestCase
    <3>. QED  BY <2>3, <3>1, BestAccess
  <2>4. CASE turn # 4
    BY <2>1, <2>2, <2>4 DEF BestInv
  <2>. QED  BY <2>3, <2>4
<1>2. CASE Return
  <2>1. /\ turn \in 1 .. 4 /\ turn' = turn + 1 /\ i = N /\ i' = 0 /\ tlbHits' = tlbHits
        /\ tlbMap' = EmptyMap /\ best' = best /\ TestCase /\ HitsInv
    BY <1>2, SameBest DEF Return, TLBInv
  <2>2. CASE turn = 3
    <3>1. tlbHits[4] = 0
      <4>1. tlbHits[4] \in Nat /\ tlbHits[4] <= 0
        BY <2>1, <2>2 DEF HitsInv
      <4>. QED  BY <4>1
    <3>2. turn' = 4 /\ DOMAIN tlbMap' = {}
      BY <2>1, <2>2 DEF EmptyMap
    <3>3. best[0][{}] \in Nat
      <4>1. best[0][{}] \in 0 .. N - 0
        BY <2>1, BestBounded DEF TestCase
      <4>. QED  BY <4>1
    <3>4. tlbHits'[4] + best'[i'][DOMAIN tlbMap'] = best'[0][{}]
      BY <2>1, <3>1, <3>2, <3>3
    <3>. QED  BY <3>2, <3>4 DEF BestInv
  <2>3. CASE turn = 4
    <3>1. turn' = 5 /\ tlbHits[4] + best[N][DOMAIN tlbMap] = best[0][{}]
      BY <2>1, <2>3 DEF BestInv
    <3>2. best[N][DOMAIN tlbMap] = 0
      <4>1. PICK s : Lists(s, DOMAIN tlbMap)
        BY SomeOrder, Zenon
      <4>2. DOMAIN tlbMap \in SUBSET PageNumbers /\ N \in 0 .. N
        BY <2>1, <4>1, ListsSize DEF TestCase
      <4>. QED  BY <2>1, <4>2, BestIs DEF MostAt
    <3>3. tlbHits[4] \in Nat
      BY <2>1 DEF HitsInv
    <3>. QED  BY <2>1, <3>1, <3>2, <3>3 DEF BestInv
  <2>4. CASE turn \in 1 .. 2
    BY <2>1, <2>4 DEF BestInv
  <2>. QED  BY <2>1, <2>2, <2>3, <2>4
<1>3. CASE UNCHANGED vars
  BY <1>3, SameBest DEF vars, BestInv
<1>. QED  BY <1>1, <1>2, <1>3 DEF Next

-----------------------------------------------------------------------------
(* The inductive invariant: the ring (FIFO, LIFO) and the links (LRU) lead *)
(* through the pages of the map, each once, those of LRU and of Optimal by *)
(* their last uses, and no function has counted more hits than accesses.   *)
THEOREM TLBInvariant == Spec => []TLBInv
<1>1. Init => TLBInv
  BY TLBStarts
<1>2. TLBInv /\ [Next]_vars => TLBInv'
  BY TLBSteps
<1>. QED  BY <1>1, <1>2, PTL DEF Spec

(* The structure behind each policy holds the pages of the buffer, each    *)
(* once and at most K, with links that agree in both directions, and LRU   *)
(* keeps exactly the pages since whose last use fewer than K others have   *)
(* been used: for every sequence of accesses and every number of entries.  *)
THEOREM TLBSound == Spec => []Inv
<1>1. TLBInv => Inv
  BY TLBTypes, TLBMatches DEF Inv
<1>. QED  BY <1>1, TLBInvariant, PTL

(* The ring, the list and the map hit exactly when the definitions of the  *)
(* four policies hit, and replace exactly a page that they may replace.    *)
THEOREM TLBImplementsPolicies == Spec => ImplementsPolicies
<1>1. Init => Definition!Init
  BY TLBStarts
<1>2. TLBInv /\ [Next]_vars => [Definition!Next]_(Definition!vars)
  BY TLBSteps
<1>. QED  BY <1>1, <1>2, TLBInvariant, PTL DEF Spec, ImplementsPolicies, Definition!Spec

(* No way to choose what is replaced has more hits than Optimal: it has    *)
(* been at the most that its past choices leave after every access.        *)
THEOREM TLBOptimalIsBest == Spec => []OptimalIsBest
<1>1. Init => BestInv
  BY BestStarts
<1>2. TLBInv /\ BestInv /\ [Next]_vars => BestInv'
  BY BestSteps
<1>3. TLBInv /\ BestInv => OptimalIsBest
  BY DEF TLBInv, BestInv, OptimalIsBest
<1>. QED  BY <1>1, <1>2, <1>3, TLBInvariant, PTL DEF Spec
=============================================================================
