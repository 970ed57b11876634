---------------------------- MODULE OnlineProofs -----------------------------
(***************************************************************************)
(* Proofs about the two online schedulers: for any number of processes     *)
(* that arrive at any time, any commands, needs, fates and failed forks.   *)
(***************************************************************************)
EXTENDS OnlineSchedulers, FiniteSetTheorems, SequenceTheorems, TLAPS

-----------------------------------------------------------------------------
(* A set of natural numbers has a least element.                           *)
LEMMA LeastNatural == ASSUME NEW S \in SUBSET Nat, S # {}
                      PROVE  \E m \in S : \A k \in S : m <= k
<1>1. PICK m \in S : \A k \in S : ~(<<k, m>> \in OpToRel(<, Nat))
  BY WFMin, NatLessThanWellFounded, Zenon
<1>2. \A k \in S : ~(k < m)
  BY <1>1, Zenon DEF OpToRel
<1>. QED  BY <1>2

(* And a largest one, if it has a bound.                                   *)
LEMMA GreatestNatural == ASSUME NEW S \in SUBSET Nat, S # {}, NEW b \in Nat, \A x \in S : x <= b
                         PROVE  \E m \in S : \A k \in S : m >= k
<1>. DEFINE T == {b - x : x \in S}
<1>1. T \in SUBSET Nat
  <2>1. ASSUME NEW x \in S PROVE b - x \in Nat
    BY x <= b
  <2>. QED  BY <2>1
<1>2. PICK m \in T : \A k \in T : m <= k
  <2>1. T # {}
    OBVIOUS
  <2>. HIDE DEF T
  <2>. QED  BY <1>1, <2>1, LeastNatural
<1>3. PICK y \in S : m = b - y
  OBVIOUS
<1>4. ASSUME NEW x \in S PROVE y >= x
  <2>1. b - x \in T
    OBVIOUS
  <2>2. b - y <= b - x
    BY <1>2, <1>3, <2>1
  <2>. QED  BY <2>2
<1>. QED  BY <1>4

(* The numbers that a function has for the processes are bounded.          *)
LEMMA Bounded == ASSUME NEW f \in [Jobs -> Nat]
                 PROVE  \E b \in Nat : \A j \in Jobs : f[j] <= b
<1>0. N \in Nat
  BY ChildrenAssumption
<1>. DEFINE Bad == {n \in 0 .. N : \A b \in Nat : \E j \in 1 .. n : f[j] > b}
<1>1. Bad = {}
  <2>1. SUFFICES ASSUME Bad # {} PROVE FALSE
    OBVIOUS
  <2>2. PICK n \in Bad : \A k \in Bad : n <= k
    <3>1. Bad \in SUBSET Nat
      BY <1>0
    <3>. HIDE DEF Bad
    <3>. QED  BY <2>1, <3>1, LeastNatural
  <2>3. n \in 0 .. N /\ \A b \in Nat : \E j \in 1 .. n : f[j] > b
    OBVIOUS
  <2>4. n # 0
    <3>1. SUFFICES ASSUME n = 0 PROVE FALSE
      OBVIOUS
    <3>2. \E j \in 1 .. n : f[j] > 0
      BY <2>3
    <3>. QED  BY <3>1, <3>2
  <2>5. n - 1 \in 0 .. N /\ n - 1 \notin Bad
    <3>1. n - 1 \in 0 .. N /\ ~(n <= n - 1)
      BY <1>0, <2>3, <2>4
    <3>. HIDE DEF Bad
    <3>. QED  BY <2>2, <3>1
  <2>6. PICK b \in Nat : \A j \in 1 .. n - 1 : ~(f[j] > b)
    BY <2>5
  <2>7. f[n] \in Nat
    BY <1>0, <2>3, <2>4 DEF Jobs
  <2>8. PICK c \in Nat : c >= b /\ c >= f[n]
    <3>1. CASE b >= f[n]
      BY <3>1
    <3>2. CASE f[n] >= b
      BY <2>7, <3>2
    <3>. QED  BY <2>7, <3>1, <3>2
  <2>9. PICK j \in 1 .. n : f[j] > c
    BY <2>3
  <2>10. f[j] \in Nat
    BY <1>0, <2>3 DEF Jobs
  <2>11. j \in 1 .. n - 1
    <3>1. j # n
      BY <2>7, <2>8, <2>9
    <3>. QED  BY <2>3, <3>1
  <2>. QED  BY <2>6, <2>8, <2>9, <2>10, <2>11
<1>2. N \notin Bad
  BY <1>1
<1>3. PICK b \in Nat : \A j \in 1 .. N : ~(f[j] > b)
  BY <1>0, <1>2
<1>4. \A j \in Jobs : f[j] \in Nat /\ ~(f[j] > b)
  BY <1>3 DEF Jobs
<1>. QED  BY <1>4

(* The weighted mean of two numbers, rounded down, lies between them.      *)
LEMMA MeanBetween ==
    ASSUME NEW x \in Nat, NEW y \in Nat, NEW c \in Nat \ {0}, NEW lo \in Nat, NEW hi \in Nat,
           lo <= x, lo <= y, x <= hi, y <= hi
    PROVE  (x * c + y) \div (c + 1) \in lo .. hi
<1>1. x * c \in Nat /\ lo * c \in Nat /\ hi * c \in Nat
  OBVIOUS
<1>2. lo * c <= x * c /\ x * c <= hi * c
  OBVIOUS
<1>3. lo * (c + 1) = lo * c + lo /\ hi * (c + 1) = hi * c + hi
  OBVIOUS
<1>. DEFINE q == (x * c + y) \div (c + 1)
<1>4. q \in Int /\ q * (c + 1) <= x * c + y /\ x * c + y < q * (c + 1) + (c + 1)
  OBVIOUS
<1>. HIDE DEF q
<1>5. q < lo => FALSE
  <2>1. SUFFICES ASSUME q < lo PROVE FALSE
    OBVIOUS
  <2>2. (q + 1) * (c + 1) <= lo * (c + 1)
    BY <1>4, <2>1
  <2>3. (q + 1) * (c + 1) = q * (c + 1) + (c + 1)
    BY <1>4
  <2>. QED  BY <1>1, <1>2, <1>3, <1>4, <2>2, <2>3
<1>6. q > hi => FALSE
  <2>1. SUFFICES ASSUME q > hi PROVE FALSE
    OBVIOUS
  <2>2. (hi + 1) * (c + 1) <= q * (c + 1)
    BY <1>4, <2>1
  <2>3. (hi + 1) * (c + 1) = hi * (c + 1) + (c + 1)
    OBVIOUS
  <2>. QED  BY <1>1, <1>2, <1>3, <1>4, <2>2, <2>3
<1>. QED  BY <1>4, <1>5, <1>6 DEF q

-----------------------------------------------------------------------------
(* The elements of a sequence, by their places.                            *)
LEMMA Elements == ASSUME NEW S, NEW s \in Seq(S)
                  PROVE  /\ Len(s) \in Nat /\ DOMAIN s = 1 .. Len(s)
                         /\ \A a \in 1 .. Len(s) : s[a] \in S /\ s[a] \in ToSet(s)
                         /\ \A x \in ToSet(s) : x \in S /\ \E a \in 1 .. Len(s) : s[a] = x
<1>1. Len(s) \in Nat /\ DOMAIN s = 1 .. Len(s) /\ \A a \in 1 .. Len(s) : s[a] \in S
  BY LenProperties, ElementOfSeq
<1>. QED  BY <1>1 DEF ToSet

(* An element is appended that is not there yet.                           *)
LEMMA AppendElement ==
    ASSUME NEW S, NEW s \in Seq(S), NEW e \in S
    PROVE  /\ Append(s, e) \in Seq(S) /\ ToSet(Append(s, e)) = ToSet(s) \cup {e}
           /\ IsInjective(s) /\ e \notin ToSet(s) => IsInjective(Append(s, e))
<1>. DEFINE t == Append(s, e)
<1>1. /\ t \in Seq(S) /\ Len(t) = Len(s) + 1 /\ t[Len(s) + 1] = e
      /\ \A a \in 1 .. Len(s) : t[a] = s[a]
  BY AppendProperties
<1>. HIDE DEF t
<1>2. Len(s) \in Nat /\ DOMAIN s = 1 .. Len(s) /\ DOMAIN t = 1 .. Len(s) + 1
  BY <1>1, Elements
<1>3. \A a \in 1 .. Len(s) + 1 : a \in 1 .. Len(s) \/ a = Len(s) + 1
  BY <1>2
<1>4. ToSet(t) = ToSet(s) \cup {e}
  <2>1. \A x \in ToSet(t) : x \in ToSet(s) \cup {e}
    BY <1>1, <1>2, <1>3 DEF ToSet
  <2>2. \A a \in 1 .. Len(s) : a \in 1 .. Len(s) + 1
    BY <1>2
  <2>3. \A x \in ToSet(s) : x \in ToSet(t)
    BY <1>1, <1>2, <2>2 DEF ToSet
  <2>4. e \in ToSet(t)
    <3>1. Len(s) + 1 \in 1 .. Len(s) + 1
      BY <1>2
    <3>. QED  BY <1>1, <1>2, <3>1 DEF ToSet
  <2>. QED  BY <2>1, <2>3, <2>4
<1>5. ASSUME IsInjective(s), e \notin ToSet(s) PROVE IsInjective(t)
  <2>1. \A a \in 1 .. Len(s) : s[a] # e
    BY <1>2, <1>5 DEF ToSet
  <2>. QED  BY <1>1, <1>2, <1>3, <1>5, <2>1 DEF IsInjective
<1>. QED  BY <1>1, <1>4, <1>5 DEF t

(* The head is taken off a sequence without repetitions.                   *)
LEMMA TakeHead ==
    ASSUME NEW S, NEW s \in Seq(S), s # <<>>, IsInjective(s)
    PROVE  /\ Head(s) \in ToSet(s) /\ Tail(s) \in Seq(S) /\ IsInjective(Tail(s))
           /\ ToSet(Tail(s)) = ToSet(s) \ {Head(s)}
<1>. DEFINE t == Tail(s)
<1>1. /\ t \in Seq(S) /\ Len(t) = Len(s) - 1 /\ \A a \in 1 .. Len(t) : t[a] = s[a + 1]
  BY HeadTailProperties
<1>. HIDE DEF t
<1>2. Len(s) \in Nat /\ Len(s) # 0 /\ DOMAIN s = 1 .. Len(s) /\ DOMAIN t = 1 .. Len(s) - 1
  BY <1>1, Elements, EmptySeq
<1>3. Head(s) = s[1] /\ 1 \in 1 .. Len(s)
  BY <1>2
<1>4. \A a \in 1 .. Len(s) - 1 : a + 1 \in 1 .. Len(s) /\ a + 1 # 1
  BY <1>2
<1>5. IsInjective(t)
  <2>1. SUFFICES ASSUME NEW a \in 1 .. Len(s) - 1, NEW b \in 1 .. Len(s) - 1, t[a] = t[b]
                 PROVE  a = b
    BY <1>2 DEF IsInjective
  <2>2. s[a + 1] = s[b + 1]
    BY <1>1, <2>1
  <2>3. a + 1 = b + 1
    BY <1>2, <1>4, <2>2 DEF IsInjective
  <2>. QED  BY <2>3
<1>6. ASSUME NEW x \in ToSet(t) PROVE x \in ToSet(s) \ {Head(s)}
  <2>1. PICK a \in 1 .. Len(s) - 1 : x = s[a + 1]
    BY <1>1, <1>2 DEF ToSet
  <2>2. x \in ToSet(s)
    BY <1>2, <1>4, <2>1 DEF ToSet
  <2>3. x # s[1]
    BY <1>2, <1>3, <1>4, <2>1 DEF IsInjective
  <2>. QED  BY <1>3, <2>2, <2>3
<1>7. ASSUME NEW x \in ToSet(s), x # Head(s) PROVE x \in ToSet(t)
  <2>1. PICK a \in 1 .. Len(s) : x = s[a]
    BY <1>2 DEF ToSet
  <2>2. a - 1 \in 1 .. Len(s) - 1 /\ (a - 1) + 1 = a
    BY <1>2, <1>3, <1>7, <2>1
  <2>. QED  BY <1>1, <1>2, <2>1, <2>2 DEF ToSet
<1>8. Head(s) \in ToSet(s)
  BY <1>2, <1>3 DEF ToSet
<1>. QED  BY <1>1, <1>5, <1>6, <1>7, <1>8 DEF t

(* Two sequences that share nothing are put one behind the other.          *)
LEMMA ConcatElements ==
    ASSUME NEW S, NEW s \in Seq(S), NEW t \in Seq(S)
    PROVE  /\ s \o t \in Seq(S) /\ ToSet(s \o t) = ToSet(s) \cup ToSet(t)
           /\ IsInjective(s) /\ IsInjective(t) /\ ToSet(s) \cap ToSet(t) = {} => IsInjective(s \o t)
<1>. DEFINE u == s \o t
<1>1. /\ u \in Seq(S) /\ Len(u) = Len(s) + Len(t)
      /\ \A a \in 1 .. Len(s) + Len(t) : u[a] = IF a <= Len(s) THEN s[a] ELSE t[a - Len(s)]
  BY ConcatProperties
<1>. HIDE DEF u
<1>2. /\ Len(s) \in Nat /\ DOMAIN s = 1 .. Len(s) /\ Len(t) \in Nat /\ DOMAIN t = 1 .. Len(t)
      /\ DOMAIN u = 1 .. Len(s) + Len(t)
  BY <1>1, Elements
<1>3. \A a \in 1 .. Len(s) + Len(t) :
         \/ a \in 1 .. Len(s) /\ u[a] = s[a]
         \/ a - Len(s) \in 1 .. Len(t) /\ u[a] = t[a - Len(s)]
  BY <1>1, <1>2
<1>4. /\ \A a \in 1 .. Len(s) : a \in 1 .. Len(s) + Len(t) /\ u[a] = s[a]
      /\ \A a \in 1 .. Len(t) : a + Len(s) \in 1 .. Len(s) + Len(t) /\ u[a + Len(s)] = t[a]
  <2>1. \A a \in 1 .. Len(s) : a \in 1 .. Len(s) + Len(t) /\ a <= Len(s)
    BY <1>2
  <2>2. \A a \in 1 .. Len(t) : /\ a + Len(s) \in 1 .. Len(s) + Len(t)
                               /\ ~(a + Len(s) <= Len(s)) /\ (a + Len(s)) - Len(s) = a
    BY <1>2
  <2>3. \A a \in 1 .. Len(t) : u[a + Len(s)] = t[(a + Len(s)) - Len(s)]
    BY <1>1, <2>2
  <2>. QED  BY <1>1, <2>1, <2>2, <2>3
<1>5. ToSet(u) = ToSet(s) \cup ToSet(t)
  <2>1. \A x \in ToSet(u) : x \in ToSet(s) \cup ToSet(t)
    BY <1>2, <1>3 DEF ToSet
  <2>2. \A x \in ToSet(s) \cup ToSet(t) : x \in ToSet(u)
    BY <1>2, <1>4 DEF ToSet
  <2>. QED  BY <2>1, <2>2
<1>6. ASSUME IsInjective(s), IsInjective(t), ToSet(s) \cap ToSet(t) = {},
             NEW a \in 1 .. Len(s) + Len(t), NEW b \in 1 .. Len(s) + Len(t), u[a] = u[b]
      PROVE  a = b
  <2>1. \A c \in 1 .. Len(s), d \in 1 .. Len(t) : s[c] # t[d]
    BY <1>2, <1>6 DEF ToSet
  <2>2. CASE a \in 1 .. Len(s) /\ b \in 1 .. Len(s) /\ u[a] = s[a] /\ u[b] = s[b]
    BY <1>2, <1>6, <2>2 DEF IsInjective
  <2>3. CASE /\ a - Len(s) \in 1 .. Len(t) /\ u[a] = t[a - Len(s)]
             /\ b - Len(s) \in 1 .. Len(t) /\ u[b] = t[b - Len(s)]
    <3>1. a - Len(s) = b - Len(s)
      BY <1>2, <1>6, <2>3, Zenon DEF IsInjective
    <3>. QED  BY <1>2, <3>1
  <2>. QED  BY <1>3, <1>6, <2>1, <2>2, <2>3
<1>. QED  BY <1>1, <1>2, <1>5, <1>6 DEF u, IsInjective

(* A stretch of a sequence.                                                *)
LEMMA PartOfSeq ==
    ASSUME NEW S, NEW s \in Seq(S), NEW m \in 1 .. Len(s) + 1, NEW n \in m - 1 .. Len(s)
    PROVE  /\ SubSeq(s, m, n) \in Seq(S) /\ Len(SubSeq(s, m, n)) = n + 1 - m
           /\ \A a \in 1 .. n + 1 - m : SubSeq(s, m, n)[a] = s[m + a - 1]
<1>0. Len(s) \in Nat /\ m \in Int /\ n \in Int /\ m >= 1 /\ n <= Len(s) /\ n >= m - 1
  <2>1. Len(s) \in Nat
    BY LenProperties
  <2>. QED  BY <2>1
<1>1. \A a \in m .. n : s[a] \in S
  <2>1. \A a \in m .. n : a \in 1 .. Len(s)
    BY <1>0
  <2>. QED  BY <2>1, ElementOfSeq
<1>2. /\ SubSeq(s, m, n) \in Seq(S) /\ Len(SubSeq(s, m, n)) = IF m <= n THEN n - m + 1 ELSE 0
      /\ \A a \in 1 .. n - m + 1 : SubSeq(s, m, n)[a] = s[m + a - 1]
  BY <1>0, <1>1, SubSeqProperties
<1>3. (IF m <= n THEN n - m + 1 ELSE 0) = n + 1 - m /\ n - m + 1 = n + 1 - m
  BY <1>0
<1>. QED  BY <1>2, <1>3, Zenon

(* Each element is larger than the ones before it.                         *)
Increasing(s) == \A a, b \in DOMAIN s : a < b => s[a] < s[b]

(* One element is taken out of an increasing sequence, which stays         *)
(* increasing.                                                             *)
LEMMA TakeOut ==
    ASSUME NEW S \in SUBSET Nat, NEW s \in Seq(S), NEW k \in 1 .. Len(s), Increasing(s)
    PROVE  /\ RemoveAt(s, k) \in Seq(S) /\ Increasing(RemoveAt(s, k))
           /\ ToSet(RemoveAt(s, k)) = ToSet(s) \ {s[k]}
<1>. DEFINE x == SubSeq(s, 1, k - 1)
            y == SubSeq(s, k + 1, Len(s))
            t == x \o y
<1>0. /\ Len(s) \in Nat /\ DOMAIN s = 1 .. Len(s) /\ k \in Nat /\ k >= 1 /\ k <= Len(s)
      /\ \A a \in 1 .. Len(s) : s[a] \in S /\ s[a] \in Nat
  <2>1. Len(s) \in Nat /\ DOMAIN s = 1 .. Len(s) /\ \A a \in 1 .. Len(s) : s[a] \in S
    BY Elements
  <2>2. \A e \in S : e \in Nat
    OBVIOUS
  <2>3. k \in Nat /\ k >= 1 /\ k <= Len(s)
    BY <2>1
  <2>. QED  BY <2>1, <2>2, <2>3, Zenon
<1>1. x \in Seq(S) /\ Len(x) = k - 1 /\ \A a \in 1 .. k - 1 : x[a] = s[a]
  <2>1. /\ 1 \in 1 .. Len(s) + 1 /\ k - 1 \in 1 - 1 .. Len(s) /\ (k - 1) + 1 - 1 = k - 1
        /\ \A a \in 1 .. k - 1 : 1 + a - 1 = a
    BY <1>0
  <2>2. /\ x \in Seq(S) /\ Len(x) = (k - 1) + 1 - 1
        /\ \A a \in 1 .. (k - 1) + 1 - 1 : x[a] = s[1 + a - 1]
    BY <2>1, PartOfSeq
  <2>. HIDE DEF x
  <2>. QED  BY <2>1, <2>2
<1>2. y \in Seq(S) /\ Len(y) = Len(s) - k /\ \A a \in 1 .. Len(s) - k : y[a] = s[k + a]
  <2>1. /\ k + 1 \in 1 .. Len(s) + 1 /\ Len(s) \in (k + 1) - 1 .. Len(s)
        /\ Len(s) + 1 - (k + 1) = Len(s) - k
    <3>1. \A p, n \in Nat : p >= 1 /\ p <= n => /\ p + 1 \in 1 .. n + 1 /\ n \in (p + 1) - 1 .. n
                                              /\ n + 1 - (p + 1) = n - p
      OBVIOUS
    <3>. QED  BY <1>0, <3>1, Zenon
  <2>3. \A a \in 1 .. Len(s) - k : (k + 1) + a - 1 = k + a
    <3>1. \A p \in Nat, a \in Int : (p + 1) + a - 1 = p + a
      OBVIOUS
    <3>2. \A a \in 1 .. Len(s) - k : a \in Int
      OBVIOUS
    <3>. QED  BY <1>0, <3>1, <3>2, Zenon
  <2>2. /\ y \in Seq(S) /\ Len(y) = Len(s) + 1 - (k + 1)
        /\ \A a \in 1 .. Len(s) + 1 - (k + 1) : y[a] = s[(k + 1) + a - 1]
    BY <2>1, PartOfSeq
  <2>. HIDE DEF y
  <2>. QED  BY <2>1, <2>2, <2>3, Zenon
<1>. HIDE DEF x, y
<1>3. /\ t \in Seq(S) /\ Len(t) = Len(s) - 1
      /\ \A a \in 1 .. Len(s) - 1 : t[a] = IF a <= k - 1 THEN x[a] ELSE y[a - (k - 1)]
  <2>1. (k - 1) + (Len(s) - k) = Len(s) - 1
    BY <1>0
  <2>2. /\ t \in Seq(S) /\ Len(t) = Len(x) + Len(y)
        /\ \A a \in 1 .. Len(x) + Len(y) : t[a] = IF a <= Len(x) THEN x[a] ELSE y[a - Len(x)]
    BY <1>1, <1>2, ConcatProperties
  <2>. QED  BY <1>1, <1>2, <2>1, <2>2, Zenon
<1>. HIDE DEF t
<1>4. DOMAIN t = 1 .. Len(s) - 1
  BY <1>3, Elements
<1>5. \A a \in 1 .. Len(s) - 1 : t[a] = IF a < k THEN s[a] ELSE s[a + 1]
  <2>1. ASSUME NEW a \in 1 .. Len(s) - 1, a < k PROVE t[a] = s[a]
    <3>1. a <= k - 1 /\ a \in 1 .. k - 1
      BY <1>0, <2>1
    <3>. QED  BY <1>1, <1>3, <3>1
  <2>2. ASSUME NEW a \in 1 .. Len(s) - 1, ~(a < k) PROVE t[a] = s[a + 1]
    <3>1. ~(a <= k - 1) /\ a - (k - 1) \in 1 .. Len(s) - k /\ k + (a - (k - 1)) = a + 1
      BY <1>0, <2>2
    <3>2. t[a] = y[a - (k - 1)]
      BY <1>3, <3>1
    <3>3. y[a - (k - 1)] = s[k + (a - (k - 1))]
      BY <1>2, <3>1
    <3>. QED  BY <3>1, <3>2, <3>3
  <2>. QED  BY <2>1, <2>2
<1>. DEFINE at(a) == IF a < k THEN a ELSE a + 1
<1>6. \A a \in 1 .. Len(s) - 1 : at(a) \in 1 .. Len(s) /\ at(a) # k /\ t[a] = s[at(a)]
  BY <1>0, <1>5
<1>7. \A a, b \in 1 .. Len(s) - 1 : a < b => at(a) < at(b)
  BY <1>0
<1>8. \A b \in 1 .. Len(s) : b # k => \E a \in 1 .. Len(s) - 1 : at(a) = b
  <2>1. ASSUME NEW b \in 1 .. Len(s), b < k PROVE \E a \in 1 .. Len(s) - 1 : at(a) = b
    <3>1. b \in 1 .. Len(s) - 1
      BY <1>0, <2>1
    <3>. QED  BY <2>1, <3>1
  <2>2. ASSUME NEW b \in 1 .. Len(s), b > k PROVE \E a \in 1 .. Len(s) - 1 : at(a) = b
    <3>1. b - 1 \in 1 .. Len(s) - 1 /\ ~(b - 1 < k) /\ (b - 1) + 1 = b
      BY <1>0, <2>2
    <3>. QED  BY <3>1
  <2>. QED  BY <1>0, <2>1, <2>2
<1>. HIDE DEF at
<1>9. Increasing(t)
  BY <1>0, <1>4, <1>6, <1>7 DEF Increasing
<1>10. \A a \in 1 .. Len(s) : a # k => s[a] # s[k]
  <2>1. \A a \in 1 .. Len(s) : a # k => a < k \/ k < a
    BY <1>0
  <2>. QED  BY <1>0, <2>1 DEF Increasing
<1>11. ToSet(t) = ToSet(s) \ {s[k]}
  <2>1. ASSUME NEW v \in ToSet(t) PROVE v \in ToSet(s) \ {s[k]}
    <3>1. PICK a \in 1 .. Len(s) - 1 : v = t[a]
      BY <1>4 DEF ToSet
    <3>. QED  BY <1>0, <1>6, <1>10, <3>1 DEF ToSet
  <2>2. ASSUME NEW v \in ToSet(s), v # s[k] PROVE v \in ToSet(t)
    <3>1. PICK b \in 1 .. Len(s) : v = s[b]
      BY <1>0 DEF ToSet
    <3>2. b # k
      BY <2>2, <3>1
    <3>3. PICK a \in 1 .. Len(s) - 1 : at(a) = b
      BY <1>8, <3>2
    <3>. QED  BY <1>4, <1>6, <3>1, <3>3 DEF ToSet
  <2>. QED  BY <2>1, <2>2
<1>. QED  BY <1>3, <1>9, <1>11 DEF t, x, y, RemoveAt

(* A queue without repetitions has room for one more of the processes that *)
(* is not in it.                                                           *)
LEMMA RoomInQueue ==
    ASSUME NEW s \in Seq(Jobs), IsInjective(s), NEW c \in Jobs, c \notin ToSet(s)
    PROVE  Len(s) < N
<1>0. /\ Len(s) \in Nat /\ DOMAIN s = 1 .. Len(s) /\ s \in [1 .. Len(s) -> Jobs]
      /\ \A a \in 1 .. Len(s) : s[a] \in Jobs /\ s[a] # c
  BY Elements, LenProperties
<1>1. IsFiniteSet(1 .. Len(s)) /\ Cardinality(1 .. Len(s)) = Len(s)
  <2>1. \A n \in Nat : IsFiniteSet(1 .. n) /\ Cardinality(1 .. n) = n  BY FS_Interval
  <2>. QED  BY <1>0, <2>1
<1>2. IsFiniteSet(Jobs) /\ Cardinality(Jobs) = N
  BY FS_Interval, ChildrenAssumption DEF Jobs
<1>3. SUFFICES ASSUME ~(Len(s) < N) PROVE FALSE
  OBVIOUS
<1>4. IsFiniteSet(Jobs \ {c}) /\ Cardinality(Jobs \ {c}) = N - 1
  BY <1>2, FS_RemoveElement
<1>5. s \in [1 .. Len(s) -> Jobs \ {c}]
  BY <1>0
<1>6. Cardinality(Jobs \ {c}) < Cardinality(1 .. Len(s))
  BY <1>0, <1>1, <1>3, <1>4, ChildrenAssumption
<1>7. \E a, b \in 1 .. Len(s) : a # b /\ s[a] = s[b]
  BY <1>1, <1>4, <1>5, <1>6, FS_PigeonHole
<1>. QED  BY <1>0, <1>7 DEF IsInjective

-----------------------------------------------------------------------------
(* The types of the state, finer than TypeOK where the steps need it.      *)
ChildTyped ==
    /\ child \in [Jobs -> {"none", "running", "stopped", "zombie", "reaped"}]
    /\ left \in [Jobs -> Nat] /\ pid \in [Jobs -> 0 .. N + 1] /\ failures \in Nat /\ now \in Nat

FieldsTyped ==
    /\ arrived \in 0 .. N /\ cur \in Jobs /\ command \in [Submitted -> Commands]
    /\ arrivalTime \in [Jobs -> Nat] /\ startTime \in [Jobs -> Nat]
    /\ \A j \in Jobs : arrivalTime[j] <= now /\ startTime[j] <= now
    /\ burstTime \in [Jobs -> Nat] /\ error \in [Jobs -> BOOLEAN]
    /\ row \in [Jobs -> {<<>>} \cup [turnaround : Nat, burst : Nat, error : BOOLEAN]]

HistoryTyped ==
    /\ DOMAIN commandCount = DOMAIN commandBurstTimes
    /\ commandBurstTimes \in [DOMAIN commandBurstTimes -> Nat]
    /\ commandCount \in [DOMAIN commandBurstTimes -> Nat \ {0}]
    /\ \A j \in Submitted : command[j] \in DOMAIN commandBurstTimes

FeedbackTyped ==
    /\ queue \in [Levels -> Seq(Jobs)] /\ priority \in [Jobs -> Levels]
    /\ started \in [Jobs -> BOOLEAN] /\ finished \in [Jobs -> BOOLEAN]
    /\ level \in Levels /\ quantum_end \in Nat /\ lastBoostTime \in 0 .. now
    /\ garbled \subseteq Submitted

SJFPlaces == {"fork", "wait"}

MLFQPlaces == {"dispatch", "poll", "recheck", "stop", "account", "halted"}

(* A process has the processor.                                            *)
Working == pc \in SJFPlaces \cup MLFQPlaces

ControlTyped ==
    /\ priorityQueue \in Seq(Jobs)
    /\ \/ scheduler = "ShortestJobFirst" /\ pc \in SJFPlaces \cup {"input", "exited"}
       \/ scheduler = "MultiLevelFeedbackQueue"
          /\ pc \in MLFQPlaces \cup {"input", "boost", "exited"}

(* The feedback queues share nothing.                                      *)
Separate(q) ==
    /\ q \in [Levels -> Seq(Jobs)] /\ \A k \in Levels : IsInjective(q[k])
    /\ \A k, m \in Levels : k # m => ToSet(q[k]) \cap ToSet(q[m]) = {}

InQueues(q, j) == \E k \in Levels : j \in ToSet(q[k])

(* A process is in one of the queues.                                      *)
Waits(j) == j \in ToSet(priorityQueue) \/ InQueues(queue, j)

(* The process that has the processor has no row, and no process has that  *)
(* has not arrived; what is queued has no row and is in one place only.    *)
(* Shortest job first keeps the order of arrival. The queues of the        *)
(* scheduler that is not used are empty.                                   *)
Apart ==
    /\ \A j \in Jobs : j > arrived => row[j] = <<>>
    /\ Working => cur \in Submitted /\ row[cur] = <<>> /\ ~Waits(cur)
    /\ \A j \in Jobs : Waits(j) => j \in Submitted /\ row[j] = <<>>
    /\ Increasing(priorityQueue) /\ Separate(queue)
    /\ scheduler = "ShortestJobFirst" => \A k \in Levels : queue[k] = <<>>
    /\ scheduler = "MultiLevelFeedbackQueue" => priorityQueue = <<>>

Typed == ChildTyped /\ FieldsTyped /\ HistoryTyped /\ FeedbackTyped /\ ControlTyped

State == Typed /\ Apart

-----------------------------------------------------------------------------
(* What fork, kill, waitpid and a sleep leave behind.                      *)
ClockMoves == ChildTyped' /\ now' >= now /\ failures' >= failures

(* A fork, whether or not it fails, keeps the types of the children.       *)
LEMMA ForkMoves == ASSUME ChildTyped, NEW j \in Jobs, Fork(j) \/ ForkFails PROVE ClockMoves
<1>0. N \in Nat  BY ChildrenAssumption
<1>1. CASE Fork(j)
  <2>1. j \in 0 .. N + 1  BY <1>0 DEF Jobs
  <2>. QED  BY <1>1, <2>1 DEF Fork, ChildTyped, ClockMoves
<1>2. CASE ForkFails  BY <1>2 DEF ForkFails, ChildTyped, ClockMoves
<1>. QED  BY <1>1, <1>2

(* So does a signal that stops or continues.                               *)
LEMMA SignalMoves == ASSUME ChildTyped, NEW q, Stop(q) \/ Continue(q) PROVE ClockMoves
<1>1. PICK from, to \in {"stopped", "running"} : Signal(q, from, to)
  BY DEF Stop, Continue
<1>2. child' \in [Jobs -> {"none", "running", "stopped", "zombie", "reaped"}]
  BY <1>1 DEF Signal, ChildTyped
<1>. QED  BY <1>1, <1>2 DEF Signal, ChildTyped, ClockMoves

(* So does a child that ends before it is stopped.                         *)
LEMMA UnstoppedMoves == ASSUME ChildTyped, NEW q, EndsUnstopped(q) PROVE ClockMoves
<1>1. PICK j \in Jobs : /\ child' = [child EXCEPT ![j] = "zombie"]
                        /\ left' = [left EXCEPT ![j] = 0]
                        /\ UNCHANGED <<fate, pid, failures, now>>
  BY DEF EndsUnstopped, Targets
<1>. QED  BY <1>1 DEF ChildTyped, ClockMoves

(* So does waiting for a zombie.                                           *)
LEMMA ReapMoves == ASSUME ChildTyped, NEW j \in Jobs, Reap(j) PROVE ClockMoves
BY DEF Reap, ChildTyped, ClockMoves

(* A sleep keeps them and moves the clock forward.                         *)
LEMMA SleepMoves == ASSUME ChildTyped, Sleep(1) PROVE ClockMoves
<1>1. PICK e \in 1 .. 1 + Overrun :
         /\ now' = now + e
         /\ left' = [j \in Jobs |-> IF child[j] # "running" THEN left[j]
                                    ELSE IF left[j] > e THEN left[j] - e ELSE 0]
         /\ child' = [j \in Jobs |-> IF child[j] = "running" /\ left[j] <= e
                                     THEN "zombie" ELSE child[j]]
         /\ UNCHANGED <<fate, pid, failures>>
  BY DEF Sleep
<1>2. e \in Nat  BY ChildrenAssumption
<1>3. child' \in [Jobs -> {"none", "running", "stopped", "zombie", "reaped"}]
  BY <1>1 DEF ChildTyped
<1>4. left' \in [Jobs -> Nat]  BY <1>1, <1>2 DEF ChildTyped
<1>. QED  BY <1>1, <1>2, <1>3, <1>4 DEF ChildTyped, ClockMoves

(* So does a blocking wait.                                                *)
LEMMA BlockMoves == ASSUME ChildTyped, NEW j \in Jobs, SleepUntilDone(j) PROVE ClockMoves
BY DEF SleepUntilDone, ChildTyped, ClockMoves

(* And so does a step that leaves the children alone.                      *)
LEMMA StillMoves == ASSUME ChildTyped, UNCHANGED childVars PROVE ClockMoves
BY DEF childVars, ChildTyped, ClockMoves

(* What is learnt keeps the history what it is.                            *)
LEMMA LearnTyped ==
    ASSUME HistoryTyped, NEW c \in DOMAIN commandBurstTimes, NEW b \in Nat, Learn(c, b)
    PROVE  /\ DOMAIN commandBurstTimes' = DOMAIN commandBurstTimes
           /\ DOMAIN commandCount' = DOMAIN commandBurstTimes
           /\ commandBurstTimes' \in [DOMAIN commandBurstTimes -> Nat]
           /\ commandCount' \in [DOMAIN commandBurstTimes -> Nat \ {0}]
           /\ commandCount'[c] = commandCount[c] + 1
           /\ commandBurstTimes'[c]
                 = (commandBurstTimes[c] * commandCount[c] + b) \div (commandCount[c] + 1)
           /\ \A d \in DOMAIN commandBurstTimes : d # c =>
                 commandCount'[d] = commandCount[d] /\ commandBurstTimes'[d] = commandBurstTimes[d]
<1>. DEFINE D == DOMAIN commandBurstTimes
            mean == (commandBurstTimes[c] * commandCount[c] + b) \div commandCount'[c]
<1>1. /\ DOMAIN commandCount = D /\ commandBurstTimes \in [D -> Nat] /\ c \in D
      /\ commandCount \in [D -> Nat \ {0}]
  BY DEF HistoryTyped
<1>2. /\ commandCount' = [commandCount EXCEPT ![c] = @ + 1]
      /\ commandBurstTimes' = [commandBurstTimes EXCEPT ![c] = mean]
  BY DEF Learn
<1>. HIDE DEF D
<1>3. /\ commandBurstTimes[c] \in Nat /\ commandCount[c] \in Nat \ {0}
      /\ commandCount[c] + 1 \in Nat \ {0} /\ commandCount'[c] = commandCount[c] + 1
  BY <1>1, <1>2
<1>4. mean \in Nat
  <2>1. \A x, y \in Nat : x * y \in Nat
    OBVIOUS
  <2>2. commandBurstTimes[c] * commandCount[c] + b \in Nat
    BY <1>3, <2>1
  <2>3. \A x \in Nat, y \in Nat \ {0} : x \div y \in Nat
    OBVIOUS
  <2>. QED  BY <1>3, <2>2, <2>3
<1>. HIDE DEF mean
<1>5. /\ DOMAIN commandBurstTimes' = D /\ DOMAIN commandCount' = D
      /\ commandBurstTimes' \in [D -> Nat] /\ commandCount' \in [D -> Nat \ {0}]
      /\ commandBurstTimes'[c] = mean
      /\ \A d \in D : d # c =>
            commandCount'[d] = commandCount[d] /\ commandBurstTimes'[d] = commandBurstTimes[d]
  BY <1>1, <1>2, <1>3, <1>4
<1>. QED  BY <1>3, <1>5 DEF D, mean

-----------------------------------------------------------------------------
(* The steps of both schedulers, by what they do to the processes.         *)
(* A line is read.                                                         *)
Reads == \E j \in Jobs, c \in Commands :
    /\ ReadLine(j, c) /\ ClockMoves /\ now' = now
    /\ burstTime' \in [Jobs -> Nat] /\ error' = error
    /\ \/ /\ scheduler = "ShortestJobFirst" /\ UNCHANGED mlfqVars
          /\ priorityQueue' = Enqueue(priorityQueue, j)
       \/ /\ scheduler = "MultiLevelFeedbackQueue" /\ UNCHANGED priorityQueue
          /\ \E k \in Levels : /\ queue' = [queue EXCEPT ![k] = Enqueue(@, j)]
                               /\ priority' = [priority EXCEPT ![j] = k]
          /\ started' \in [Jobs -> BOOLEAN] /\ finished' \in [Jobs -> BOOLEAN]
          /\ garbled \subseteq garbled' /\ garbled' \subseteq garbled \cup {j}
          /\ UNCHANGED <<level, quantum_end, lastBoostTime>>
    /\ UNCHANGED scheduler

(* A process is taken out of a queue.                                      *)
Pops ==
    /\ ~Working /\ Working'
    /\ \/ /\ scheduler = "ShortestJobFirst" /\ pc' = "fork" /\ UNCHANGED mlfqVars
          /\ \E k \in DOMAIN priorityQueue :
                cur' = priorityQueue[k] /\ priorityQueue' = RemoveAt(priorityQueue, k)
       \/ /\ scheduler = "MultiLevelFeedbackQueue" /\ pc' = "dispatch"
          /\ \E k \in Levels : /\ queue[k] # <<>> /\ cur' = Head(queue[k]) /\ level' = k
                               /\ queue' = [queue EXCEPT ![k] = Tail(@)]
          /\ quantum_end' \in Nat
          /\ UNCHANGED <<priorityQueue, priority, started, finished, lastBoostTime, garbled>>
    /\ startTime' = [startTime EXCEPT ![cur'] = now]
    /\ UNCHANGED <<childVars, arrived, command, arrivalTime, burstTime, error, history, row,
                   scheduler>>

(* The process that has the processor keeps it.                            *)
Runs ==
    /\ Working /\ Working' /\ ClockMoves /\ ControlTyped'
    /\ error' \in [Jobs -> BOOLEAN] /\ started' \in [Jobs -> BOOLEAN]
    /\ finished' \in [Jobs -> BOOLEAN]
    /\ UNCHANGED <<arrived, command, arrivalTime, startTime, burstTime, history, row, cur,
                   priorityQueue, queue, priority, level, quantum_end, lastBoostTime, garbled,
                   scheduler>>

(* The process that has the processor is recorded.                         *)
Records ==
    /\ Working /\ ~Working' /\ ClockMoves /\ ControlTyped' /\ now' = now
    /\ \E t, b \in Nat, e \in BOOLEAN :
          /\ row' = [row EXCEPT ![cur] = [turnaround |-> t, burst |-> b, error |-> e]]
          /\ Learn(command[cur], b)
    /\ error' \in [Jobs -> BOOLEAN] /\ burstTime' \in [Jobs -> Nat]
    /\ UNCHANGED <<arrived, command, arrivalTime, startTime, cur, priorityQueue, mlfqVars,
                   scheduler>>

(* The process that has the processor goes back to a queue.                *)
Returns ==
    /\ Working /\ ~Working' /\ ControlTyped' /\ scheduler = "MultiLevelFeedbackQueue"
    /\ \E k \in Levels : /\ queue' = [queue EXCEPT ![k] = Enqueue(@, cur)]
                         /\ priority' = [priority EXCEPT ![cur] = k]
    /\ burstTime' \in [Jobs -> Nat]
    /\ UNCHANGED <<childVars, arrived, command, arrivalTime, startTime, error, history, row, cur,
                   priorityQueue, started, finished, level, quantum_end, lastBoostTime, garbled,
                   scheduler>>

(* The queues are merged.                                                  *)
Boosts ==
    /\ ~Working /\ ~Working' /\ ControlTyped' /\ scheduler = "MultiLevelFeedbackQueue"
    /\ queue' = [k \in Levels |-> IF k = 0 THEN queue[0] \o queue[1] \o queue[2] ELSE <<>>]
    /\ priority' \in [Jobs -> Levels] /\ lastBoostTime' = now
    /\ UNCHANGED <<childVars, arrived, fields, history, row, cur, priorityQueue, started,
                   finished, level, quantum_end, garbled, scheduler>>

(* Nothing happens to any process.                                         *)
Rests ==
    /\ Working' <=> Working
    /\ ControlTyped'
    /\ UNCHANGED <<childVars, arrived, fields, history, row, cur, priorityQueue, mlfqVars,
                   scheduler>>

(* A quantum is a number.                                                  *)
LEMMA QuantumTyped == \A k \in Levels : Quantum[k] \in Nat
<1>1. quantum0 \in Nat /\ quantum1 \in Nat /\ quantum2 \in Nat
  BY OnlineMLFQAssumption
<1>. QED  BY <1>1 DEF Quantum

(* Every step of shortest job first is one of these.                       *)
LEMMA SJFKinds == ASSUME State, SJFRead \/ SJFWork, scheduler = "ShortestJobFirst",
                         UNCHANGED <<mlfqVars, scheduler>>
                  PROVE  Reads \/ Pops \/ Runs \/ Records
<1>0. ChildTyped /\ FieldsTyped /\ HistoryTyped /\ FeedbackTyped /\ ControlTyped
  BY DEF State, Typed
<1>1. CASE SJFRead
  <2>1. PICK j \in Jobs, c \in Commands :
           /\ ReadLine(j, c) /\ burstTime' = [burstTime EXCEPT ![j] = Estimate(c)]
           /\ priorityQueue' = Enqueue(priorityQueue, j) /\ UNCHANGED <<childVars, error>>
    BY <1>1 DEF SJFRead
  <2>2. Estimate(c) \in Nat
    BY <1>0, OnlineAssumption DEF Estimate, HistoryTyped
  <2>3. burstTime' \in [Jobs -> Nat]
    BY <1>0, <2>1, <2>2 DEF FieldsTyped
  <2>4. ClockMoves /\ now' = now
    BY <1>0, <2>1, StillMoves DEF childVars
  <2>. QED  BY <2>1, <2>3, <2>4 DEF Reads
<1>2. CASE SJFPop
  <2>. QED  BY <1>2 DEF SJFPop, Goto, Pops, Working, SJFPlaces, MLFQPlaces
<1>3. CASE SJFFork
  <2>1. ClockMoves
    BY <1>0, <1>3, ForkMoves DEF SJFFork, FieldsTyped
  <2>2. /\ pc = "fork" /\ pc' = "wait"
        /\ UNCHANGED <<arrived, fields, history, row, cur, priorityQueue>>
    BY <1>3 DEF SJFFork, Goto
  <2>. QED  BY <1>0, <2>1, <2>2 DEF Runs, Working, SJFPlaces, MLFQPlaces, ControlTyped, fields,
                FieldsTyped, FeedbackTyped, mlfqVars
<1>4. CASE SJFBlock
  <2>1. ClockMoves
    BY <1>0, <1>4, BlockMoves DEF SJFBlock, FieldsTyped
  <2>2. /\ pc = "wait" /\ pc' = "wait"
        /\ UNCHANGED <<arrived, fields, history, row, cur, priorityQueue>>
    BY <1>4 DEF SJFBlock
  <2>. QED  BY <1>0, <2>1, <2>2 DEF Runs, Working, SJFPlaces, MLFQPlaces, ControlTyped, fields,
                FieldsTyped, FeedbackTyped, mlfqVars
<1>5. CASE SJFCollect
  <2>1. /\ pc = "wait" /\ pc' = "input" /\ Learn(command[cur], now - startTime[cur])
        /\ row' = [row EXCEPT ![cur] = [turnaround |-> now - arrivalTime[cur],
                                        burst |-> now - startTime[cur], error |-> error'[cur]]]
        /\ UNCHANGED <<arrived, command, arrivalTime, startTime, cur, priorityQueue>>
    BY <1>5 DEF SJFCollect, Goto
  <2>2. /\ ClockMoves /\ now' = now
        /\ \E e \in BOOLEAN : error' = [error EXCEPT ![cur] = e]
    <3>1. CASE Reap(cur) /\ error' = [error EXCEPT ![cur] = fate[cur] # "ok"]
      BY <1>0, <3>1, ReapMoves DEF FieldsTyped, Reap
    <3>2. CASE /\ error' \in {[error EXCEPT ![cur] = e] : e \in BOOLEAN}
               /\ UNCHANGED childVars
      BY <1>0, <3>2, StillMoves DEF childVars
    <3>. QED  BY <1>5, <3>1, <3>2 DEF SJFCollect
  <2>3. error' \in [Jobs -> BOOLEAN] /\ error'[cur] \in BOOLEAN
    BY <1>0, <2>2 DEF FieldsTyped
  <2>4. now - arrivalTime[cur] \in Nat /\ now - startTime[cur] \in Nat
    BY <1>0 DEF FieldsTyped, ChildTyped
  <2>5. Working /\ ~Working' /\ ControlTyped'
    BY <1>0, <2>1 DEF Working, SJFPlaces, MLFQPlaces, ControlTyped
  <2>6. burstTime' \in [Jobs -> Nat]
    <3>1. command[cur] \in DOMAIN commandBurstTimes
      BY <1>0, <2>5 DEF State, Apart, HistoryTyped
    <3>2. commandBurstTimes'[command[cur]] \in Nat
      BY <1>0, <2>1, <2>4, <3>1, LearnTyped
    <3>. QED  BY <1>0, <1>5, <2>4, <3>2 DEF SJFCollect, Propagate, FieldsTyped
  <2>. QED  BY <2>1, <2>2, <2>3, <2>4, <2>5, <2>6 DEF Records
<1>. QED  BY <1>1, <1>2, <1>3, <1>4, <1>5 DEF SJFWork

(* Every step of the feedback queues is one of these.                      *)
LEMMA MLFQKinds == ASSUME State, MLFQRead \/ MLFQWork, scheduler = "MultiLevelFeedbackQueue",
                          UNCHANGED <<priorityQueue, scheduler>>
                   PROVE  Reads \/ Pops \/ Runs \/ Records \/ Returns \/ Boosts \/ Rests
<1>0. ChildTyped /\ FieldsTyped /\ HistoryTyped /\ FeedbackTyped /\ ControlTyped /\ cur \in Jobs
  BY DEF State, Typed, FieldsTyped
<1>1. CASE MLFQRead
  <2>1. PICK j \in Jobs, c \in Commands :
           /\ ReadLine(j, c) /\ burstTime' = [burstTime EXCEPT ![j] = 0]
           /\ priority' = [priority EXCEPT ![j] = FirstLevel(c)]
           /\ queue' = [queue EXCEPT ![FirstLevel(c)] = Enqueue(@, j)]
           /\ finished' = [finished EXCEPT ![j] = FALSE]
           /\ \/ UNCHANGED <<pid, started, garbled>>
              \/ /\ garbled' = garbled \cup {j}
                 /\ \E p \in {0, N + 1}, s \in BOOLEAN :
                      pid' = [pid EXCEPT ![j] = p] /\ started' = [started EXCEPT ![j] = s]
           /\ UNCHANGED <<child, left, fate, failures, now, error, level, quantum_end,
                          lastBoostTime>>
    BY <1>1 DEF MLFQRead
  <2>2. FirstLevel(c) \in Levels
    BY DEF FirstLevel, Levels
  <2>3. burstTime' \in [Jobs -> Nat] /\ finished' \in [Jobs -> BOOLEAN]
    BY <1>0, <2>1 DEF FieldsTyped, FeedbackTyped
  <2>4. /\ pid' \in [Jobs -> 0 .. N + 1] /\ started' \in [Jobs -> BOOLEAN]
        /\ garbled \subseteq garbled' /\ garbled' \subseteq garbled \cup {j}
    <3>1. CASE UNCHANGED <<pid, started, garbled>>
      BY <1>0, <3>1 DEF ChildTyped, FeedbackTyped
    <3>2. ASSUME NEW p \in {0, N + 1}, NEW s \in BOOLEAN, garbled' = garbled \cup {j},
                 pid' = [pid EXCEPT ![j] = p], started' = [started EXCEPT ![j] = s]
          PROVE  /\ pid' \in [Jobs -> 0 .. N + 1] /\ started' \in [Jobs -> BOOLEAN]
                 /\ garbled \subseteq garbled' /\ garbled' \subseteq garbled \cup {j}
      <4>1. p \in 0 .. N + 1  BY ChildrenAssumption
      <4>. QED  BY <1>0, <3>2, <4>1 DEF ChildTyped, FeedbackTyped
    <3>. QED  BY <2>1, <3>1, <3>2
  <2>5. ClockMoves /\ now' = now
    BY <1>0, <2>1, <2>4 DEF ClockMoves, ChildTyped
  <2>. QED  BY <2>1, <2>2, <2>3, <2>4, <2>5 DEF Reads
<1>2. CASE MLFQPop
  <2>1. PICK k \in Levels :
           /\ queue[k] # <<>> /\ level' = k /\ cur' = Head(queue[k])
           /\ queue' = [queue EXCEPT ![k] = Tail(@)] /\ quantum_end' = now + Quantum[k]
    BY <1>2 DEF MLFQPop
  <2>2. quantum_end' \in Nat
    <3>1. now \in Nat /\ Quantum[k] \in Nat
      BY <1>0, QuantumTyped DEF ChildTyped
    <3>. QED  BY <2>1, <3>1
  <2>3. /\ pc = "input" /\ pc' = "dispatch" /\ startTime' = [startTime EXCEPT ![cur'] = now]
        /\ UNCHANGED <<childVars, arrived, command, arrivalTime, burstTime, error, history, row,
                       priority, started, finished, lastBoostTime, garbled>>
    BY <1>2 DEF MLFQPop, Goto
  <2>. QED  BY <2>1, <2>2, <2>3 DEF Pops, Working, SJFPlaces, MLFQPlaces
<1>3. CASE MLFQDispatch
  <2>1. /\ pc = "dispatch" /\ pc' \in {"poll", "account"}
        /\ UNCHANGED <<arrived, command, arrivalTime, startTime, burstTime, history, row, cur,
                       queue, priority, finished, level, quantum_end, lastBoostTime, garbled>>
    BY <1>3 DEF MLFQDispatch, Goto
  <2>2. /\ started' = [started EXCEPT ![cur] = TRUE] \/ UNCHANGED started
        /\ error' = [error EXCEPT ![cur] = TRUE] \/ UNCHANGED error
    BY <1>3 DEF MLFQDispatch
  <2>3. ClockMoves
    <3>1. Fork(cur) \/ ForkFails \/ Continue(pid[cur]) \/ UNCHANGED childVars
      BY <1>3 DEF MLFQDispatch
    <3>. QED  BY <1>0, <3>1, ForkMoves, SignalMoves, StillMoves
  <2>4. started' \in [Jobs -> BOOLEAN] /\ error' \in [Jobs -> BOOLEAN]
    BY <1>0, <2>2 DEF FieldsTyped, FeedbackTyped
  <2>5. Working /\ Working' /\ ControlTyped'
    BY <1>0, <2>1 DEF Working, SJFPlaces, MLFQPlaces, ControlTyped
  <2>. QED  BY <1>0, <2>1, <2>3, <2>4, <2>5 DEF Runs, FeedbackTyped
<1>. DEFINE Waited == ClockMoves /\ finished' \in [Jobs -> BOOLEAN]
<1>4. Gone => Waited
  <2>1. SUFFICES ASSUME Gone PROVE Waited
    OBVIOUS
  <2>2. finished' \in [Jobs -> BOOLEAN]
    BY <1>0, <2>1 DEF Gone, FeedbackTyped
  <2>3. CASE \E j \in Zombies(pid[cur]) : Reap(j)
    <3>1. PICK j \in Jobs : Reap(j)
      BY <2>3 DEF Zombies, Targets
    <3>. QED  BY <1>0, <2>2, <3>1, ReapMoves
  <2>4. CASE UNCHANGED childVars
    BY <1>0, <2>2, <2>4, StillMoves
  <2>. QED  BY <2>1, <2>3, <2>4 DEF Gone
<1>5. UNCHANGED <<childVars, finished>> => Waited
  BY <1>0, StillMoves DEF FeedbackTyped
<1>. HIDE DEF Waited
<1>6. CASE MLFQPoll
  <2>1. /\ pc = "poll" /\ pc' \in {"poll", "recheck"}
        /\ UNCHANGED <<arrived, fields, history, row, cur, queue, priority, started, level,
                       quantum_end, lastBoostTime, garbled>>
    BY <1>6 DEF MLFQPoll
  <2>2. Waited
    <3>1. CASE Sleep(1) /\ UNCHANGED finished
      BY <1>0, <3>1, SleepMoves DEF Waited, FeedbackTyped
    <3>. QED  BY <1>4, <1>6, <3>1 DEF MLFQPoll
  <2>3. Working /\ Working' /\ ControlTyped'
    BY <1>0, <2>1 DEF Working, SJFPlaces, MLFQPlaces, ControlTyped
  <2>. QED  BY <1>0, <2>1, <2>2, <2>3 DEF Runs, Waited, fields, FieldsTyped, FeedbackTyped
<1>7. CASE EndSlice
  <2>1. /\ pc \in MLFQPlaces /\ pc' \in MLFQPlaces
        /\ UNCHANGED <<arrived, fields, history, row, cur, queue, priority, started, level,
                       quantum_end, lastBoostTime, garbled>>
    BY <1>7 DEF EndSlice, Recheck, StopSlice, Goto, MLFQPlaces
  <2>2. Waited
    <3>1. CASE Recheck
      BY <1>4, <1>5, <3>1 DEF Recheck
    <3>2. CASE StopSlice /\ UNCHANGED finished
      <4>1. ClockMoves
        BY <1>0, <3>2, SignalMoves, UnstoppedMoves, StillMoves DEF StopSlice
      <4>. QED  BY <1>0, <3>2, <4>1 DEF Waited, FeedbackTyped
    <3>. QED  BY <1>7, <3>1, <3>2 DEF EndSlice
  <2>3. Working /\ Working' /\ ControlTyped'
    BY <1>0, <2>1 DEF Working, ControlTyped
  <2>. QED  BY <1>0, <2>1, <2>2, <2>3 DEF Runs, Waited, fields, FieldsTyped, FeedbackTyped
<1>8. CASE MLFQAccount
  <2>1. /\ pc = "account" /\ pc' = "boost" /\ burstTime' = [burstTime EXCEPT ![cur] = Charge]
        /\ UNCHANGED <<childVars, arrived, command, arrivalTime, startTime, error, cur, started,
                       finished, level, quantum_end, lastBoostTime, garbled>>
    BY <1>8 DEF MLFQAccount, Goto
  <2>2. Charge \in Nat
    <3>1. burstTime[cur] \in Nat /\ now - startTime[cur] \in Nat /\ Quantum[level] \in Nat
      <4>1. now \in Nat /\ startTime[cur] \in Nat /\ startTime[cur] <= now
        BY <1>0 DEF ChildTyped, FieldsTyped
      <4>2. burstTime[cur] \in Nat /\ level \in Levels
        BY <1>0 DEF FieldsTyped, FeedbackTyped
      <4>. QED  BY <4>1, <4>2, QuantumTyped
    <3>2. (N + 1) * MaxNeed + quantum2 \in Nat
      BY ChildrenAssumption, OnlineMLFQAssumption
    <3>3. \A a, b \in Nat : Min({a, b}) \in Nat
      <4>. SUFFICES ASSUME NEW a \in Nat, NEW b \in Nat PROVE Min({a, b}) \in Nat
        OBVIOUS
      <4>1. \E x \in {a, b} : \A y \in {a, b} : x <= y
        OBVIOUS
      <4>2. Min({a, b}) \in {a, b}
        BY <4>1 DEF Min
      <4>. QED  BY <4>2
    <3>4. burstTime[cur] + Quantum[level] \in Nat
      BY <3>1
    <3>. QED  BY <3>1, <3>2, <3>3, <3>4 DEF Charge
  <2>3. burstTime' \in [Jobs -> Nat] /\ burstTime'[cur] = Charge
    BY <1>0, <2>1, <2>2 DEF FieldsTyped
  <2>4. Working /\ ~Working' /\ ControlTyped'
    BY <1>0, <2>1 DEF Working, SJFPlaces, MLFQPlaces, ControlTyped
  <2>5. CASE finished[cur]
    <3>1. /\ Learn(command[cur], burstTime'[cur])
          /\ row' = [row EXCEPT ![cur] = [turnaround |-> now - arrivalTime[cur],
                                          burst |-> burstTime'[cur], error |-> error[cur]]]
          /\ UNCHANGED <<queue, priority>>
      BY <1>8, <2>5 DEF MLFQAccount
    <3>2. ClockMoves /\ now' = now
      BY <1>0, <2>1, StillMoves DEF childVars
    <3>3. now - arrivalTime[cur] \in Nat /\ error[cur] \in BOOLEAN
      BY <1>0 DEF FieldsTyped, ChildTyped
    <3>4. error' \in [Jobs -> BOOLEAN]
      BY <1>0, <2>1 DEF FieldsTyped
    <3>5. UNCHANGED mlfqVars
      BY <2>1, <3>1 DEF mlfqVars
    <3>. QED  BY <2>1, <2>2, <2>3, <2>4, <3>1, <3>2, <3>3, <3>4, <3>5 DEF Records
  <2>6. CASE ~finished[cur]
    <3>1. /\ priority' = [priority EXCEPT ![cur] = Demoted(level)]
          /\ queue' = [queue EXCEPT ![priority'[cur]] = Enqueue(@, cur)]
          /\ UNCHANGED <<history, row>>
      BY <1>8, <2>6 DEF MLFQAccount
    <3>2. Demoted(level) \in Levels
      BY DEF Demoted, Levels
    <3>3. priority'[cur] = Demoted(level)
      BY <1>0, <3>1 DEF FeedbackTyped
    <3>. QED  BY <2>1, <2>3, <2>4, <3>1, <3>2, <3>3 DEF Returns
  <2>. QED  BY <2>5, <2>6
<1>9. CASE MLFQBoost
  <2>1. /\ pc = "boost" /\ pc' = "input"
        /\ UNCHANGED <<childVars, arrived, fields, history, row, cur, started, finished, level,
                       quantum_end, garbled>>
    BY <1>9 DEF MLFQBoost, Goto
  <2>2. ~Working /\ ~Working' /\ ControlTyped'
    BY <1>0, <2>1 DEF Working, SJFPlaces, MLFQPlaces, ControlTyped
  <2>3. CASE BoostQueues /\ lastBoostTime' = now
    <3>1. priority' \in [Jobs -> Levels]
      <4>1. 0 \in Levels  BY DEF Levels
      <4>. QED  BY <1>0, <2>3, <4>1 DEF BoostQueues, FeedbackTyped
    <3>. QED  BY <2>1, <2>2, <2>3, <3>1 DEF Boosts, BoostQueues
  <2>4. CASE UNCHANGED <<queue, priority, lastBoostTime>>
    BY <2>1, <2>2, <2>4 DEF Rests, mlfqVars
  <2>. QED  BY <1>9, <2>3, <2>4 DEF MLFQBoost
<1>. QED  BY <1>1, <1>2, <1>3, <1>6, <1>7, <1>8, <1>9 DEF MLFQWork

(* Every step of the program is one of these.                              *)
LEMMA StepKinds == ASSUME State, [Next]_vars
                   PROVE  Reads \/ Pops \/ Runs \/ Records \/ Returns \/ Boosts \/ Rests
<1>1. CASE Read
  BY <1>1, SJFKinds, MLFQKinds DEF Read
<1>2. CASE Work
  BY <1>2, SJFKinds, MLFQKinds DEF Work
<1>3. CASE Exit
  BY <1>3 DEF Exit, ReadExit, Goto, Rests, Working, SJFPlaces, MLFQPlaces, State, Typed, ControlTyped
<1>4. CASE UNCHANGED vars
  BY <1>4 DEF vars, onlineVars, Rests, Working, State, Typed, ControlTyped
<1>. QED  BY <1>1, <1>2, <1>3, <1>4 DEF Next, Idle

-----------------------------------------------------------------------------
(* Enqueue appends at most the new process.                                *)
LEMMA EnqueueElements ==
    ASSUME NEW s \in Seq(Jobs), NEW e \in Jobs
    PROVE  /\ Enqueue(s, e) \in Seq(Jobs) /\ ToSet(s) \subseteq ToSet(Enqueue(s, e))
           /\ ToSet(Enqueue(s, e)) \subseteq ToSet(s) \cup {e}
           /\ IsInjective(s) /\ e \notin ToSet(s) => IsInjective(Enqueue(s, e))
           /\ Len(s) < MAX_QUEUE_SIZE => e \in ToSet(Enqueue(s, e))
<1>1. CASE Len(s) < MAX_QUEUE_SIZE
  <2>1. Enqueue(s, e) = Append(s, e)
    BY <1>1 DEF Enqueue
  <2>2. /\ Append(s, e) \in Seq(Jobs) /\ ToSet(Append(s, e)) = ToSet(s) \cup {e}
        /\ IsInjective(s) /\ e \notin ToSet(s) => IsInjective(Append(s, e))
    BY AppendElement
  <2>. QED  BY <2>1, <2>2, Zenon
<1>2. CASE ~(Len(s) < MAX_QUEUE_SIZE)
  <2>1. Enqueue(s, e) = s
    BY <1>2 DEF Enqueue
  <2>. QED  BY <1>2, <2>1, Zenon
<1>. QED  BY <1>1, <1>2

(* It keeps an increasing queue increasing if the process is the latest.   *)
LEMMA EnqueueLatest ==
    ASSUME NEW s \in Seq(Jobs), NEW e \in Jobs, Increasing(s), \A x \in ToSet(s) : x < e
    PROVE  Increasing(Enqueue(s, e))
<1>1. CASE Enqueue(s, e) = s
  BY <1>1
<1>2. CASE Enqueue(s, e) = Append(s, e)
  <2>. DEFINE t == Append(s, e)
  <2>1. /\ t \in Seq(Jobs) /\ Len(t) = Len(s) + 1 /\ t[Len(s) + 1] = e
        /\ \A a \in 1 .. Len(s) : t[a] = s[a]
    BY AppendProperties
  <2>. HIDE DEF t
  <2>2. /\ Len(s) \in Nat /\ DOMAIN s = 1 .. Len(s) /\ \A a \in 1 .. Len(s) : s[a] \in ToSet(s)
        /\ DOMAIN t = 1 .. Len(s) + 1
    BY <2>1, Elements
  <2>3. ASSUME NEW a \in 1 .. Len(s) + 1, NEW b \in 1 .. Len(s) + 1, a < b PROVE t[a] < t[b]
    <3>1. a \in 1 .. Len(s)
      BY <2>2, <2>3
    <3>2. CASE b \in 1 .. Len(s)
      BY <2>1, <2>2, <2>3, <3>1, <3>2 DEF Increasing
    <3>3. CASE b = Len(s) + 1
      BY <2>1, <2>2, <3>1, <3>3
    <3>. QED  BY <2>2, <3>2, <3>3
  <2>. QED  BY <1>2, <2>2, <2>3 DEF Increasing, t
<1>. QED  BY <1>1, <1>2 DEF Enqueue

(* An increasing queue has no repetitions.                                 *)
LEMMA IncreasingInjective == ASSUME NEW s \in Seq(Jobs), Increasing(s) PROVE IsInjective(s)
<1>0. /\ Len(s) \in Nat /\ DOMAIN s = 1 .. Len(s) /\ \A a \in 1 .. Len(s) : s[a] \in Jobs
  BY Elements
<1>1. \A x \in Jobs : x \in Nat
  BY ChildrenAssumption DEF Jobs
<1>2. \A a, b \in 1 .. Len(s) : a < b \/ b < a \/ a = b
  BY <1>0
<1>3. \A a, b \in 1 .. Len(s) : a < b => s[a] # s[b]
  <2>. SUFFICES ASSUME NEW a \in 1 .. Len(s), NEW b \in 1 .. Len(s), a < b PROVE s[a] # s[b]
    OBVIOUS
  <2>1. s[a] < s[b]
    BY <1>0, Zenon DEF Increasing
  <2>2. s[a] \in Nat /\ s[b] \in Nat
    BY <1>0, <1>1, Zenon
  <2>. QED  BY <2>1, <2>2
<1>. QED  BY <1>0, <1>2, <1>3 DEF IsInjective

(* One of the feedback queues changes.                                     *)
LEMMA OneQueueChanges ==
    ASSUME NEW q, Separate(q), NEW k \in Levels, NEW s \in Seq(Jobs), IsInjective(s),
           NEW E, ToSet(s) \subseteq ToSet(q[k]) \cup E, \A e \in E : ~InQueues(q, e)
    PROVE  /\ Separate([q EXCEPT ![k] = s])
           /\ \A x : InQueues([q EXCEPT ![k] = s], x) <=>
                        x \in ToSet(s) \/ \E m \in Levels \ {k} : x \in ToSet(q[m])
           /\ \A x : InQueues([q EXCEPT ![k] = s], x) => InQueues(q, x) \/ x \in E
<1>. DEFINE p == [q EXCEPT ![k] = s]
<1>1. p[k] = s /\ \A m \in Levels \ {k} : p[m] = q[m]
  BY DEF Separate
<1>2. p \in [Levels -> Seq(Jobs)]
  BY DEF Separate
<1>. HIDE DEF p
<1>3. \A m \in Levels : IsInjective(p[m])
  BY <1>1, Zenon DEF Separate
<1>4. \A m \in Levels \ {k} : ToSet(p[k]) \cap ToSet(p[m]) = {}
  <2>1. SUFFICES ASSUME NEW m \in Levels \ {k}, NEW x \in ToSet(s), x \in ToSet(q[m]) PROVE FALSE
    BY <1>1
  <2>2. x \in ToSet(q[k]) \/ x \in E
    OBVIOUS
  <2>. QED  BY <2>1, <2>2 DEF Separate, InQueues
<1>5. \A a, b \in Levels : a # b => ToSet(p[a]) \cap ToSet(p[b]) = {}
  <2>. SUFFICES ASSUME NEW a \in Levels, NEW b \in Levels, a # b
                PROVE  ToSet(p[a]) \cap ToSet(p[b]) = {}
    OBVIOUS
  <2>1. CASE a = k  BY <1>4, <2>1
  <2>2. CASE b = k  BY <1>4, <2>2
  <2>3. CASE a # k /\ b # k
    <3>1. p[a] = q[a] /\ p[b] = q[b]  BY <1>1, <2>3
    <3>. QED  BY <3>1, Zenon DEF Separate
  <2>. QED  BY <2>1, <2>2, <2>3
<1>6. Separate(p)
  BY <1>2, <1>3, <1>5, Zenon DEF Separate
<1>7. \A x : InQueues(p, x) <=> x \in ToSet(s) \/ \E m \in Levels \ {k} : x \in ToSet(q[m])
  BY <1>1, Zenon DEF InQueues
<1>8. \A x : InQueues(p, x) => InQueues(q, x) \/ x \in E
  BY <1>7 DEF InQueues
<1>. QED  BY <1>6, <1>7, <1>8, Zenon DEF p

(* All that waits is put into the first queue.                             *)
Merged(q) == [k \in Levels |-> IF k = 0 THEN q[0] \o q[1] \o q[2] ELSE <<>>]

(* The merged queues hold what the queues held, each process once.         *)
LEMMA MergedQueues ==
    ASSUME NEW q, Separate(q)
    PROVE  Separate(Merged(q)) /\ \A x : InQueues(Merged(q), x) <=> InQueues(q, x)
<1>1. /\ q[0] \in Seq(Jobs) /\ q[1] \in Seq(Jobs) /\ q[2] \in Seq(Jobs)
      /\ IsInjective(q[0]) /\ IsInjective(q[1]) /\ IsInjective(q[2])
      /\ ToSet(q[0]) \cap ToSet(q[1]) = {} /\ ToSet(q[0]) \cap ToSet(q[2]) = {}
      /\ ToSet(q[1]) \cap ToSet(q[2]) = {}
  <2>1. 0 \in Levels /\ 1 \in Levels /\ 2 \in Levels /\ 0 # 1 /\ 0 # 2 /\ 1 # 2
    BY DEF Levels
  <2>2. \A k \in Levels : q[k] \in Seq(Jobs) /\ IsInjective(q[k])
    BY DEF Separate
  <2>3. \A k, m \in Levels : k # m => ToSet(q[k]) \cap ToSet(q[m]) = {}
    BY DEF Separate
  <2>. QED  BY <2>1, <2>2, <2>3, Zenon
<1>. DEFINE a == q[0] \o q[1]
            b == a \o q[2]
<1>2. a \in Seq(Jobs) /\ ToSet(a) = ToSet(q[0]) \cup ToSet(q[1]) /\ IsInjective(a)
  BY <1>1, ConcatElements
<1>. HIDE DEF a
<1>3. b \in Seq(Jobs) /\ ToSet(b) = ToSet(a) \cup ToSet(q[2]) /\ IsInjective(b)
  <2>1. ToSet(a) \cap ToSet(q[2]) = {}
    BY <1>1, <1>2
  <2>. QED  BY <1>1, <1>2, <2>1, ConcatElements
<1>. HIDE DEF b
<1>4. <<>> \in Seq(Jobs) /\ ToSet(<<>>) = {} /\ IsInjective(<<>>)
  BY DEF ToSet, IsInjective
<1>5. Merged(q) = [k \in Levels |-> IF k = 0 THEN b ELSE <<>>]
  BY DEF Merged, a, b
<1>6. Levels = {0, 1, 2}
  BY DEF Levels
<1>7. Merged(q)[0] = b /\ \A k \in Levels : k # 0 => Merged(q)[k] = <<>>
  BY <1>5, <1>6
<1>8. Merged(q) \in [Levels -> Seq(Jobs)]
  BY <1>3, <1>4, <1>5
<1>9. \A k \in Levels : IsInjective(Merged(q)[k])
  BY <1>3, <1>4, <1>7, Zenon
<1>10. \A k, m \in Levels : k # m => ToSet(Merged(q)[k]) \cap ToSet(Merged(q)[m]) = {}
  <2>. SUFFICES ASSUME NEW k \in Levels, NEW m \in Levels, k # m
                PROVE  ToSet(Merged(q)[k]) \cap ToSet(Merged(q)[m]) = {}
    OBVIOUS
  <2>1. Merged(q)[k] = <<>> \/ Merged(q)[m] = <<>>
    BY <1>7
  <2>. QED  BY <1>4, <2>1
<1>11. \A x : InQueues(Merged(q), x) <=> InQueues(q, x)
  <2>. TAKE x
  <2>1. InQueues(Merged(q), x) <=> x \in ToSet(b)
    BY <1>4, <1>6, <1>7 DEF InQueues
  <2>2. InQueues(q, x) <=> x \in ToSet(q[0]) \/ x \in ToSet(q[1]) \/ x \in ToSet(q[2])
    BY <1>6 DEF InQueues
  <2>. QED  BY <1>2, <1>3, <2>1, <2>2
<1>. QED  BY <1>8, <1>9, <1>10, <1>11, Zenon DEF Separate

(* A process is appended to one of the feedback queues.                    *)
LEMMA OneEnqueues ==
    ASSUME NEW q, Separate(q), NEW k \in Levels, NEW e \in Jobs, ~InQueues(q, e)
    PROVE  /\ Separate([q EXCEPT ![k] = Enqueue(@, e)])
           /\ \A x : InQueues(q, x) => InQueues([q EXCEPT ![k] = Enqueue(@, e)], x)
           /\ \A x : InQueues([q EXCEPT ![k] = Enqueue(@, e)], x) => InQueues(q, x) \/ x = e
           /\ N <= MAX_QUEUE_SIZE => InQueues([q EXCEPT ![k] = Enqueue(@, e)], e)
<1>. DEFINE s == Enqueue(q[k], e)
            E == {e}
            p == [q EXCEPT ![k] = s]
<1>1. q[k] \in Seq(Jobs) /\ IsInjective(q[k]) /\ e \notin ToSet(q[k])
  BY DEF Separate, InQueues
<1>2. /\ s \in Seq(Jobs) /\ ToSet(q[k]) \subseteq ToSet(s) /\ IsInjective(s)
      /\ ToSet(s) \subseteq ToSet(q[k]) \cup E
      /\ Len(q[k]) < MAX_QUEUE_SIZE => e \in ToSet(s)
  BY <1>1, EnqueueElements, Zenon
<1>3. \A d \in E : ~InQueues(q, d)
  OBVIOUS
<1>. HIDE DEF s, E
<1>4. /\ Separate(p)
      /\ \A x : InQueues(p, x) <=> x \in ToSet(s) \/ \E m \in Levels \ {k} : x \in ToSet(q[m])
      /\ \A x : InQueues(p, x) => InQueues(q, x) \/ x \in E
  BY <1>2, <1>3, OneQueueChanges
<1>. HIDE DEF p
<1>5. \A x : InQueues(q, x) => InQueues(p, x)
  BY <1>2, <1>4 DEF InQueues
<1>6. N <= MAX_QUEUE_SIZE => Len(q[k]) < MAX_QUEUE_SIZE
  <2>1. Len(q[k]) < N
    BY <1>1, RoomInQueue
  <2>2. Len(q[k]) \in Nat
    BY <1>1, Elements
  <2>. QED  BY <2>1, <2>2, ChildrenAssumption, OnlineAssumption
<1>7. N <= MAX_QUEUE_SIZE => InQueues(p, e)
  BY <1>2, <1>4, <1>6
<1>8. \A x : InQueues(p, x) => InQueues(q, x) \/ x = e
  BY <1>4 DEF E
<1>. QED  BY <1>4, <1>5, <1>7, <1>8, Zenon DEF p, s

(* The head of one of them is taken off.                                   *)
LEMMA OneDequeues ==
    ASSUME NEW q, Separate(q), NEW k \in Levels, q[k] # <<>>
    PROVE  /\ Separate([q EXCEPT ![k] = Tail(@)])
           /\ Head(q[k]) \in Jobs /\ InQueues(q, Head(q[k]))
           /\ \A x : InQueues([q EXCEPT ![k] = Tail(@)], x) <=> InQueues(q, x) /\ x # Head(q[k])
<1>. DEFINE s == Tail(q[k])
            E == {}
            h == Head(q[k])
            p == [q EXCEPT ![k] = s]
<1>1. q[k] \in Seq(Jobs) /\ IsInjective(q[k])
  BY DEF Separate
<1>2. s \in Seq(Jobs) /\ IsInjective(s) /\ ToSet(s) = ToSet(q[k]) \ {h} /\ h \in ToSet(q[k])
  BY <1>1, TakeHead
<1>3. h \in Jobs
  BY <1>1, <1>2, Elements
<1>4. ToSet(s) \subseteq ToSet(q[k]) \cup E /\ \A d \in E : ~InQueues(q, d)
  BY <1>2
<1>. HIDE DEF s, E, h
<1>5. /\ Separate(p)
      /\ \A x : InQueues(p, x) <=> x \in ToSet(s) \/ \E m \in Levels \ {k} : x \in ToSet(q[m])
      /\ \A x : InQueues(p, x) => InQueues(q, x) \/ x \in E
  <2>1. s \in Seq(Jobs) /\ IsInjective(s)
    BY <1>2
  <2>. QED  BY <1>4, <2>1, OneQueueChanges
<1>. HIDE DEF p
<1>6. \A m \in Levels \ {k} : h \notin ToSet(q[m])
  BY <1>2 DEF Separate
<1>7. \A x : InQueues(q, x) <=> x \in ToSet(q[k]) \/ \E m \in Levels \ {k} : x \in ToSet(q[m])
  BY DEF InQueues
<1>8. \A x : InQueues(p, x) <=> InQueues(q, x) /\ x # h
  BY <1>2, <1>5, <1>6, <1>7
<1>9. InQueues(q, h)
  BY <1>2, <1>7
<1>. QED  BY <1>3, <1>5, <1>8, <1>9, Zenon DEF p, s, h

-----------------------------------------------------------------------------
(* The program starts in such a state.                                     *)
LEMMA StateInit == Init => State
<1>. SUFFICES ASSUME Init PROVE State
  OBVIOUS
<1>0. N \in Nat \ {0} /\ MaxNeed \in Nat
  BY ChildrenAssumption
<1>. USE DEF Init, SJFInit, MLFQInit, OnlineInit, ChildrenInit
<1>1. ChildTyped
  <2>1. \A n \in 1 .. MaxNeed : n \in Nat  BY <1>0
  <2>2. 0 \in 0 .. N + 1  BY <1>0
  <2>. QED  BY <2>1, <2>2 DEF ChildTyped
<1>2. Submitted = {} /\ 1 \in Jobs /\ ~Working /\ command \in [{} -> Commands]
  BY <1>0 DEF Submitted, Jobs, Working, SJFPlaces, MLFQPlaces
<1>3. FieldsTyped
  BY <1>0, <1>2 DEF FieldsTyped
<1>4. HistoryTyped
  BY <1>2 DEF HistoryTyped
<1>5. <<>> \in Seq(Jobs) /\ ToSet(<<>>) = {} /\ IsInjective(<<>>) /\ Increasing(<<>>)
  BY DEF ToSet, IsInjective, Increasing
<1>6. FeedbackTyped
  BY <1>5 DEF FeedbackTyped, Levels
<1>7. ControlTyped
  BY <1>5 DEF ControlTyped
<1>8. Separate(queue)
  BY <1>5 DEF Separate
<1>9. \A j \in Jobs : ~Waits(j) /\ row[j] = <<>>
  BY <1>5 DEF Waits, InQueues
<1>. QED  BY <1>1, <1>2, <1>3, <1>4, <1>5, <1>6, <1>7, <1>8, <1>9 DEF State, Typed, Apart

(* What is read is the next process; it is queued if there is room.        *)
LEMMA ReadsKeeps ==
    ASSUME State, Reads
    PROVE  /\ State' /\ arrived' = arrived + 1 /\ arrived' \in Jobs
           /\ \A x : Waits(x) => Waits(x)'
           /\ \A x : Waits(x)' => Waits(x) \/ x = arrived'
           /\ N <= MAX_QUEUE_SIZE => \A x : x = arrived' => Waits(x)'
<1>0. ChildTyped /\ FieldsTyped /\ HistoryTyped /\ FeedbackTyped /\ ControlTyped /\ Apart
  BY DEF State, Typed
<1>. PICK j \in Jobs, c \in Commands :
        /\ ReadLine(j, c) /\ ClockMoves /\ now' = now
        /\ burstTime' \in [Jobs -> Nat] /\ error' = error /\ UNCHANGED scheduler
        /\ \/ /\ scheduler = "ShortestJobFirst" /\ UNCHANGED mlfqVars
              /\ priorityQueue' = Enqueue(priorityQueue, j)
           \/ /\ scheduler = "MultiLevelFeedbackQueue" /\ UNCHANGED priorityQueue
              /\ \E k \in Levels : /\ queue' = [queue EXCEPT ![k] = Enqueue(@, j)]
                                   /\ priority' = [priority EXCEPT ![j] = k]
              /\ started' \in [Jobs -> BOOLEAN] /\ finished' \in [Jobs -> BOOLEAN]
              /\ garbled \subseteq garbled' /\ garbled' \subseteq garbled \cup {j}
              /\ UNCHANGED <<level, quantum_end, lastBoostTime>>
  BY DEF Reads
<1>1. /\ pc = "input" /\ j = arrived + 1 /\ arrived' = j /\ arrived \in Nat /\ j \in Nat
      /\ command' = [i \in Submitted \cup {j} |-> IF i = j THEN c ELSE command[i]]
      /\ arrivalTime' = [arrivalTime EXCEPT ![j] = now]
      /\ commandBurstTimes' = [b \in DOMAIN commandBurstTimes \cup {c} |-> Estimate(b)]
      /\ commandCount' = [b \in DOMAIN commandBurstTimes \cup {c} |->
                             IF b \in DOMAIN commandCount THEN commandCount[b] ELSE 1]
      /\ UNCHANGED <<row, cur, pc, startTime>>
  BY <1>0 DEF ReadLine, FieldsTyped
<1>2. Submitted' = Submitted \cup {j} /\ j \notin Submitted /\ arrived' \in 0 .. N
  <2>1. \A n \in Nat : 1 .. n + 1 = (1 .. n) \cup {n + 1} /\ n + 1 \notin 1 .. n
    OBVIOUS
  <2>2. \A n \in 1 .. N : n \in 0 .. N
    OBVIOUS
  <2>. QED  BY <1>1, <2>1, <2>2 DEF Submitted, Jobs
<1>3. ChildTyped'
  BY DEF ClockMoves
<1>4. FieldsTyped'
  <2>1. command' \in [Submitted' -> Commands]
    BY <1>0, <1>1, <1>2 DEF FieldsTyped
  <2>2. arrivalTime' \in [Jobs -> Nat] /\ \A x \in Jobs : arrivalTime'[x] <= now
    <3>1. now \in Nat /\ arrivalTime \in [Jobs -> Nat] /\ \A x \in Jobs : arrivalTime[x] <= now
      BY <1>0 DEF FieldsTyped, ChildTyped
    <3>. QED  BY <1>1, <3>1
  <2>. QED  BY <1>0, <1>1, <1>2, <2>1, <2>2 DEF FieldsTyped
<1>5. HistoryTyped'
  <2>1. /\ DOMAIN commandBurstTimes' = DOMAIN commandBurstTimes \cup {c}
        /\ DOMAIN commandCount' = DOMAIN commandBurstTimes \cup {c}
    BY <1>1
  <2>2. \A b : Estimate(b) \in Nat
    BY <1>0, OnlineAssumption DEF Estimate, HistoryTyped
  <2>3. commandBurstTimes' \in [DOMAIN commandBurstTimes \cup {c} -> Nat]
    BY <1>1, <2>2
  <2>4. commandCount' \in [DOMAIN commandBurstTimes \cup {c} -> Nat \ {0}]
    <3>1. \A b \in DOMAIN commandCount : commandCount[b] \in Nat \ {0}
      BY <1>0 DEF HistoryTyped
    <3>. QED  BY <1>1, <3>1
  <2>5. \A x \in Submitted' : command'[x] \in DOMAIN commandBurstTimes \cup {c}
    BY <1>0, <1>1, <1>2 DEF HistoryTyped
  <2>. QED  BY <2>1, <2>3, <2>4, <2>5 DEF HistoryTyped
<1>6. /\ \A x : Waits(x) => x \in Submitted /\ row[x] = <<>>
      /\ \A x \in Jobs : x > arrived => row[x] = <<>>
      /\ ~Waits(j) /\ row[j] = <<>> /\ ~Working'
  <2>1. \A x : Waits(x) => x \in Jobs
    <3>1. \A x \in ToSet(priorityQueue) : x \in Jobs
      BY <1>0, Elements DEF ControlTyped
    <3>2. ASSUME NEW k \in Levels, NEW x \in ToSet(queue[k]) PROVE x \in Jobs
      <4>1. queue[k] \in Seq(Jobs)  BY <1>0 DEF FeedbackTyped
      <4>. QED  BY <4>1, Elements
    <3>. QED  BY <3>1, <3>2 DEF Waits, InQueues
  <2>2. \A x : Waits(x) => x \in Submitted /\ row[x] = <<>>
    BY <1>0, <2>1, Zenon DEF Apart
  <2>3. \A x \in Jobs : x > arrived => row[x] = <<>>
    BY <1>0, Zenon DEF Apart
  <2>4. ~Waits(j)
    BY <1>2, <2>2, Zenon
  <2>5. row[j] = <<>>
    BY <1>1, <2>3
  <2>6. ~Working'
    BY <1>1 DEF Working, SJFPlaces, MLFQPlaces
  <2>. QED  BY <2>2, <2>3, <2>4, <2>5, <2>6, Zenon
<1>7. CASE /\ scheduler = "ShortestJobFirst" /\ UNCHANGED mlfqVars
           /\ priorityQueue' = Enqueue(priorityQueue, j)
  <2>0. UNCHANGED <<queue, priority, started, finished, level, quantum_end, lastBoostTime, garbled>>
    BY <1>7 DEF mlfqVars
  <2>1. /\ priorityQueue \in Seq(Jobs) /\ Increasing(priorityQueue) /\ j \notin ToSet(priorityQueue)
        /\ \A x \in ToSet(priorityQueue) : x < j
    BY <1>0, <1>1, <1>6 DEF ControlTyped, Apart, Waits, Submitted
  <2>2. /\ priorityQueue' \in Seq(Jobs) /\ ToSet(priorityQueue) \subseteq ToSet(priorityQueue')
        /\ ToSet(priorityQueue') \subseteq ToSet(priorityQueue) \cup {j}
        /\ Len(priorityQueue) < MAX_QUEUE_SIZE => j \in ToSet(priorityQueue')
    BY <1>7, <2>1, EnqueueElements, Zenon
  <2>3. Increasing(priorityQueue')
    BY <1>7, <2>1, EnqueueLatest
  <2>4. N <= MAX_QUEUE_SIZE => Len(priorityQueue) < MAX_QUEUE_SIZE
    <3>1. Len(priorityQueue) < N
      BY <2>1, IncreasingInjective, RoomInQueue
    <3>2. Len(priorityQueue) \in Nat
      BY <2>1, Elements
    <3>. QED  BY <3>1, <3>2, ChildrenAssumption, OnlineAssumption
  <2>5. /\ \A x : Waits(x) => Waits(x)'
        /\ \A x : Waits(x)' => Waits(x) \/ x = j
        /\ N <= MAX_QUEUE_SIZE => Waits(j)'
    BY <2>0, <2>2, <2>4 DEF Waits
  <2>6. ControlTyped'
    BY <1>0, <1>1, <1>7, <2>2 DEF ControlTyped
  <2>7. FeedbackTyped'
    BY <1>0, <1>2, <2>0 DEF FeedbackTyped
  <2>8. Apart'
    <3>1. \A x \in Jobs : Waits(x)' => x \in Submitted' /\ row'[x] = <<>>
      BY <1>1, <1>2, <1>6, <2>5
    <3>2. \A x \in Jobs : x > arrived' => row'[x] = <<>>
      BY <1>1, <1>6, ChildrenAssumption DEF Jobs
    <3>3. Separate(queue') /\ (\A k \in Levels : queue'[k] = <<>>)
      BY <1>0, <1>7, <2>0 DEF Apart
    <3>. QED  BY <1>6, <1>7, <2>3, <3>1, <3>2, <3>3 DEF Apart
  <2>. QED  BY <1>1, <1>3, <1>4, <1>5, <2>5, <2>6, <2>7, <2>8 DEF State, Typed
<1>8. CASE /\ scheduler = "MultiLevelFeedbackQueue" /\ UNCHANGED priorityQueue
           /\ \E k \in Levels : /\ queue' = [queue EXCEPT ![k] = Enqueue(@, j)]
                                /\ priority' = [priority EXCEPT ![j] = k]
           /\ started' \in [Jobs -> BOOLEAN] /\ finished' \in [Jobs -> BOOLEAN]
           /\ garbled \subseteq garbled' /\ garbled' \subseteq garbled \cup {j}
           /\ UNCHANGED <<level, quantum_end, lastBoostTime>>
  <2>0. PICK k \in Levels : /\ queue' = [queue EXCEPT ![k] = Enqueue(queue[k], j)]
                            /\ priority' = [priority EXCEPT ![j] = k]
    BY <1>8
  <2>1. Separate(queue) /\ queue[k] \in Seq(Jobs) /\ IsInjective(queue[k]) /\ ~InQueues(queue, j)
    BY <1>0, <1>6 DEF Apart, Separate, Waits
  <2>6. /\ Separate(queue')
        /\ \A x : InQueues(queue, x) => InQueues(queue', x)
        /\ \A x : InQueues(queue', x) => InQueues(queue, x) \/ x = j
        /\ N <= MAX_QUEUE_SIZE => InQueues(queue', j)
    <3>1. queue' = [queue EXCEPT ![k] = Enqueue(@, j)]
      BY <2>0
    <3>. QED  BY <2>1, <3>1, OneEnqueues, Zenon
  <2>7. /\ \A x : Waits(x) => Waits(x)'
        /\ \A x : Waits(x)' => Waits(x) \/ x = j
        /\ N <= MAX_QUEUE_SIZE => Waits(j)'
    BY <1>8, <2>6 DEF Waits
  <2>8. ControlTyped'
    BY <1>0, <1>1, <1>8 DEF ControlTyped
  <2>9. FeedbackTyped'
    <3>1. queue' \in [Levels -> Seq(Jobs)]
      BY <2>6 DEF Separate
    <3>2. priority' \in [Jobs -> Levels]
      BY <1>0, <2>0 DEF FeedbackTyped
    <3>3. garbled' \subseteq Submitted'
      BY <1>0, <1>2, <1>8 DEF FeedbackTyped
    <3>. QED  BY <1>0, <1>8, <3>1, <3>2, <3>3 DEF FeedbackTyped
  <2>10. Apart'
    <3>1. \A x \in Jobs : Waits(x)' => x \in Submitted' /\ row'[x] = <<>>
      BY <1>1, <1>2, <1>6, <2>7
    <3>2. \A x \in Jobs : x > arrived' => row'[x] = <<>>
      BY <1>1, <1>6, ChildrenAssumption DEF Jobs
    <3>. QED  BY <1>0, <1>6, <1>8, <2>6, <3>1, <3>2 DEF Apart
  <2>. QED  BY <1>1, <1>3, <1>4, <1>5, <2>7, <2>8, <2>9, <2>10 DEF State, Typed
<1>. QED  BY <1>7, <1>8

(* Of what waits, the process that is popped is taken out, and no other.   *)
LEMMA PopsKeeps ==
    ASSUME State, Pops
    PROVE  /\ State' /\ cur' \in Jobs /\ Waits(cur') /\ \A x : Waits(x)' <=> Waits(x) /\ x # cur'
<1>0. ChildTyped /\ FieldsTyped /\ HistoryTyped /\ FeedbackTyped /\ ControlTyped /\ Apart
  BY DEF State, Typed
<1>1. /\ ~Working /\ Working' /\ startTime' = [startTime EXCEPT ![cur'] = now]
      /\ UNCHANGED <<child, left, pid, failures, now, arrived, command, arrivalTime, burstTime,
                     error, commandBurstTimes, commandCount, row, scheduler>>
  BY DEF Pops, childVars, history
<1>2. /\ cur' \in Jobs /\ Waits(cur') /\ \A x : Waits(x)' <=> Waits(x) /\ x # cur'
      /\ ControlTyped' /\ FeedbackTyped' /\ Separate(queue') /\ Increasing(priorityQueue')
      /\ scheduler = "ShortestJobFirst" => \A k \in Levels : queue'[k] = <<>>
      /\ scheduler = "MultiLevelFeedbackQueue" => priorityQueue' = <<>>
  <2>1. CASE /\ scheduler = "ShortestJobFirst" /\ pc' = "fork" /\ UNCHANGED mlfqVars
             /\ \E k \in DOMAIN priorityQueue :
                   cur' = priorityQueue[k] /\ priorityQueue' = RemoveAt(priorityQueue, k)
    <3>1. PICK k \in DOMAIN priorityQueue :
             cur' = priorityQueue[k] /\ priorityQueue' = RemoveAt(priorityQueue, k)
      BY <2>1
    <3>2. /\ priorityQueue \in Seq(Jobs) /\ k \in 1 .. Len(priorityQueue)
          /\ Increasing(priorityQueue) /\ Jobs \in SUBSET Nat
      BY <1>0, Elements DEF ControlTyped, Apart, Jobs
    <3>3. /\ priorityQueue' \in Seq(Jobs) /\ Increasing(priorityQueue')
          /\ ToSet(priorityQueue') = ToSet(priorityQueue) \ {cur'}
      BY <3>1, <3>2, TakeOut
    <3>4. cur' \in Jobs /\ cur' \in ToSet(priorityQueue)
      BY <3>1, <3>2, Elements
    <3>5. UNCHANGED <<queue, priority, started, finished, level, quantum_end, lastBoostTime,
                      garbled>>
      BY <2>1 DEF mlfqVars
    <3>6. \A x : ~InQueues(queue, x)
      <4>1. ToSet(<<>>) = {}  BY DEF ToSet
      <4>. QED  BY <1>0, <2>1, <4>1 DEF Apart, InQueues
    <3>7. ControlTyped'
      BY <1>0, <1>1, <2>1, <3>3 DEF ControlTyped, SJFPlaces
    <3>8. FeedbackTyped'
      BY <1>0, <1>1, <3>5 DEF FeedbackTyped, Submitted
    <3>9. Waits(cur') /\ \A x : Waits(x)' <=> Waits(x) /\ x # cur'
      BY <3>3, <3>4, <3>5, <3>6 DEF Waits
    <3>10. Separate(queue') /\ \A k2 \in Levels : queue'[k2] = <<>>
      BY <1>0, <2>1, <3>5 DEF Apart
    <3>. QED  BY <2>1, <3>3, <3>4, <3>7, <3>8, <3>9, <3>10
  <2>2. CASE /\ scheduler = "MultiLevelFeedbackQueue" /\ pc' = "dispatch"
             /\ \E k \in Levels : /\ queue[k] # <<>> /\ cur' = Head(queue[k]) /\ level' = k
                                  /\ queue' = [queue EXCEPT ![k] = Tail(@)]
             /\ quantum_end' \in Nat
             /\ UNCHANGED <<priorityQueue, priority, started, finished, lastBoostTime, garbled>>
    <3>1. PICK k \in Levels : /\ queue[k] # <<>> /\ cur' = Head(queue[k]) /\ level' = k
                              /\ queue' = [queue EXCEPT ![k] = Tail(@)]
      BY <2>2
    <3>2. Separate(queue) /\ priorityQueue = <<>> /\ priorityQueue' = <<>>
      BY <1>0, <2>2 DEF Apart
    <3>3. /\ Separate(queue') /\ cur' \in Jobs /\ InQueues(queue, cur')
          /\ \A x : InQueues(queue', x) <=> InQueues(queue, x) /\ x # cur'
      BY <3>1, <3>2, OneDequeues, Zenon
    <3>4. ControlTyped'
      BY <1>0, <1>1, <2>2 DEF ControlTyped, MLFQPlaces
    <3>5. FeedbackTyped'
      <4>1. queue' \in [Levels -> Seq(Jobs)]
        BY <3>3 DEF Separate
      <4>. QED  BY <1>0, <1>1, <2>2, <3>1, <4>1 DEF FeedbackTyped, Submitted
    <3>6. Waits(cur') /\ \A x : Waits(x)' <=> Waits(x) /\ x # cur'
      <4>1. ToSet(<<>>) = {}  BY DEF ToSet
      <4>. QED  BY <3>2, <3>3, <4>1 DEF Waits
    <3>7. Increasing(priorityQueue')
      BY <3>2 DEF Increasing
    <3>. QED  BY <2>2, <3>2, <3>3, <3>4, <3>5, <3>6, <3>7
  <2>. QED  BY <2>1, <2>2 DEF Pops
<1>3. ChildTyped' /\ HistoryTyped'
  BY <1>0, <1>1 DEF ChildTyped, HistoryTyped, Submitted
<1>4. FieldsTyped'
  <2>1. startTime' \in [Jobs -> Nat] /\ \A j \in Jobs : startTime'[j] <= now
    <3>1. now \in Nat /\ startTime \in [Jobs -> Nat] /\ \A j \in Jobs : startTime[j] <= now
      BY <1>0 DEF FieldsTyped, ChildTyped
    <3>. QED  BY <1>1, <1>2, <3>1
  <2>. QED  BY <1>0, <1>1, <1>2, <2>1 DEF FieldsTyped, Submitted
<1>5. Apart'
  <2>1. \A x \in Jobs : Waits(x) => x \in Submitted /\ row[x] = <<>>
    BY <1>0 DEF Apart
  <2>2. \A x \in Jobs : Waits(x)' => x \in Submitted' /\ row'[x] = <<>>
    BY <1>1, <1>2, <2>1 DEF Submitted
  <2>3. cur' \in Submitted' /\ row'[cur'] = <<>> /\ ~Waits(cur)'
    BY <1>1, <1>2, <2>1 DEF Submitted
  <2>4. \A x \in Jobs : x > arrived' => row'[x] = <<>>
    BY <1>0, <1>1 DEF Apart
  <2>. QED  BY <1>1, <1>2, <2>2, <2>3, <2>4 DEF Apart
<1>. QED  BY <1>2, <1>3, <1>4, <1>5 DEF State, Typed

(* What waits goes on waiting.                                             *)
LEMMA RunsKeeps == ASSUME State, Runs PROVE State' /\ \A x : Waits(x)' <=> Waits(x)
<1>0. ChildTyped /\ FieldsTyped /\ HistoryTyped /\ FeedbackTyped /\ ControlTyped /\ Apart
  BY DEF State, Typed
<1>1. /\ Working /\ Working' /\ ChildTyped' /\ now' >= now /\ ControlTyped'
      /\ error' \in [Jobs -> BOOLEAN] /\ started' \in [Jobs -> BOOLEAN]
      /\ finished' \in [Jobs -> BOOLEAN]
      /\ UNCHANGED <<arrived, command, arrivalTime, startTime, burstTime, commandBurstTimes,
                     commandCount, row, cur, priorityQueue, queue, priority, level, quantum_end,
                     lastBoostTime, garbled, scheduler>>
  BY DEF Runs, ClockMoves, history
<1>2. now \in Nat /\ now' \in Nat
  BY <1>0, <1>1 DEF ChildTyped
<1>3. FieldsTyped'
  <2>1. \A j \in Jobs : arrivalTime[j] <= now' /\ startTime[j] <= now'
    <3>1. /\ \A j \in Jobs : arrivalTime[j] <= now /\ startTime[j] <= now
          /\ arrivalTime \in [Jobs -> Nat] /\ startTime \in [Jobs -> Nat]
      BY <1>0 DEF FieldsTyped
    <3>2. \A x \in Nat : x <= now => x <= now'
      BY <1>1, <1>2
    <3>. QED  BY <3>1, <3>2
  <2>. QED  BY <1>0, <1>1, <2>1 DEF FieldsTyped, Submitted
<1>4. HistoryTyped'
  BY <1>0, <1>1 DEF HistoryTyped, Submitted
<1>5. FeedbackTyped'
  BY <1>0, <1>1, <1>2 DEF FeedbackTyped, Submitted
<1>6. \A x : Waits(x)' <=> Waits(x)
  BY <1>1 DEF Waits
<1>7. Apart'
  <2>1. Submitted' = Submitted
    BY <1>1 DEF Submitted
  <2>. QED  BY <1>0, <1>1, <1>6, <2>1 DEF Apart
<1>. QED  BY <1>1, <1>3, <1>4, <1>5, <1>6, <1>7 DEF State, Typed

(* A row that has been recorded is not the empty one.                      *)
LEMMA Recorded == \A t, b, e : [turnaround |-> t, burst |-> b, error |-> e] # <<>>
<1>. SUFFICES ASSUME NEW t, NEW b, NEW e, [turnaround |-> t, burst |-> b, error |-> e] = <<>>
              PROVE FALSE
  OBVIOUS
<1>1. DOMAIN [turnaround |-> t, burst |-> b, error |-> e] = DOMAIN <<>>  OBVIOUS
<1>2. "turnaround" \in DOMAIN [turnaround |-> t, burst |-> b, error |-> e]  OBVIOUS
<1>3. DOMAIN <<>> = {}  OBVIOUS
<1>. QED  BY <1>1, <1>2, <1>3

(* The process that is recorded had no row.                                *)
LEMMA RecordsKeeps ==
    ASSUME State, Records
    PROVE  /\ State' /\ \A x : Waits(x)' <=> Waits(x)
           /\ cur \in Submitted /\ command[cur] \in DOMAIN commandBurstTimes /\ row[cur] = <<>>
           /\ row'[cur] # <<>> /\ \A j \in Jobs : j # cur => row'[j] = row[j]
<1>0. ChildTyped /\ FieldsTyped /\ HistoryTyped /\ FeedbackTyped /\ ControlTyped /\ Apart
  BY DEF State, Typed
<1>. DEFINE c == command[cur]
<1>1. PICK t \in Nat, b \in Nat, e \in BOOLEAN :
         /\ row' = [row EXCEPT ![cur] = [turnaround |-> t, burst |-> b, error |-> e]]
         /\ Learn(c, b)
  BY DEF Records
<1>2. /\ Working /\ ~Working' /\ ChildTyped' /\ ControlTyped' /\ now' = now
      /\ error' \in [Jobs -> BOOLEAN] /\ burstTime' \in [Jobs -> Nat]
      /\ UNCHANGED <<arrived, command, arrivalTime, startTime, cur, priorityQueue, queue, priority,
                     started, finished, level, quantum_end, lastBoostTime, garbled, scheduler>>
  BY DEF Records, ClockMoves, mlfqVars
<1>3. cur \in Submitted /\ row[cur] = <<>> /\ ~Waits(cur) /\ cur \in Jobs
  BY <1>0, <1>2 DEF Apart, FieldsTyped
<1>4. c \in DOMAIN commandBurstTimes
  BY <1>0, <1>3 DEF HistoryTyped
<1>5. HistoryTyped'
  BY <1>0, <1>1, <1>2, <1>4, LearnTyped DEF HistoryTyped, Submitted
<1>6. /\ row' \in [Jobs -> {<<>>} \cup [turnaround : Nat, burst : Nat, error : BOOLEAN]]
      /\ row'[cur] # <<>> /\ \A j \in Jobs : j # cur => row'[j] = row[j]
  <2>1. row \in [Jobs -> {<<>>} \cup [turnaround : Nat, burst : Nat, error : BOOLEAN]]
    BY <1>0 DEF FieldsTyped
  <2>. QED  BY <1>1, <1>3, <2>1, Recorded
<1>7. FieldsTyped'
  BY <1>0, <1>2, <1>6 DEF FieldsTyped, Submitted
<1>8. FeedbackTyped'
  BY <1>0, <1>2 DEF FeedbackTyped, Submitted
<1>9. \A x : Waits(x)' <=> Waits(x)
  BY <1>2 DEF Waits
<1>10. Apart'
  <2>1. \A x \in Jobs : Waits(x)' => x \in Submitted' /\ row'[x] = <<>>
    BY <1>0, <1>2, <1>3, <1>6, <1>9 DEF Apart, Submitted
  <2>2. \A x \in Jobs : x > arrived' => row'[x] = <<>>
    <3>1. ~(cur > arrived)
      BY <1>0, <1>3 DEF Submitted, FieldsTyped
    <3>. QED  BY <1>0, <1>2, <1>6, <3>1 DEF Apart
  <2>. QED  BY <1>0, <1>2, <2>1, <2>2 DEF Apart
<1>. QED  BY <1>2, <1>3, <1>4, <1>5, <1>6, <1>7, <1>8, <1>9, <1>10 DEF State, Typed

(* A process that goes back to a queue is queued if there is room.         *)
LEMMA ReturnsKeeps ==
    ASSUME State, Returns
    PROVE  /\ State' /\ \A x : Waits(x) => Waits(x)'
           /\ \A x : Waits(x)' => Waits(x) \/ x = cur
           /\ N <= MAX_QUEUE_SIZE => Waits(cur)'
<1>0. ChildTyped /\ FieldsTyped /\ HistoryTyped /\ FeedbackTyped /\ ControlTyped /\ Apart
  BY DEF State, Typed
<1>1. PICK k \in Levels : /\ queue' = [queue EXCEPT ![k] = Enqueue(@, cur)]
                          /\ priority' = [priority EXCEPT ![cur] = k]
  BY DEF Returns
<1>2. /\ Working /\ ~Working' /\ ControlTyped' /\ scheduler = "MultiLevelFeedbackQueue"
      /\ burstTime' \in [Jobs -> Nat]
      /\ UNCHANGED <<child, left, pid, failures, now, arrived, command, arrivalTime, startTime,
                     error, commandBurstTimes, commandCount, row, cur, priorityQueue, started,
                     finished, level, quantum_end, lastBoostTime, garbled, scheduler>>
  BY DEF Returns, childVars, history
<1>3. /\ cur \in Submitted /\ row[cur] = <<>> /\ ~Waits(cur) /\ cur \in Jobs
      /\ Separate(queue) /\ ~InQueues(queue, cur)
  BY <1>0, <1>2 DEF Apart, FieldsTyped, Waits
<1>4. /\ Separate(queue')
      /\ \A x : InQueues(queue, x) => InQueues(queue', x)
      /\ \A x : InQueues(queue', x) => InQueues(queue, x) \/ x = cur
      /\ N <= MAX_QUEUE_SIZE => InQueues(queue', cur)
  BY <1>1, <1>3, OneEnqueues, Zenon
<1>5. /\ \A x : Waits(x) => Waits(x)'
      /\ \A x : Waits(x)' => Waits(x) \/ x = cur
      /\ N <= MAX_QUEUE_SIZE => Waits(cur)'
  BY <1>2, <1>4 DEF Waits
<1>6. ChildTyped' /\ HistoryTyped'
  BY <1>0, <1>2 DEF ChildTyped, HistoryTyped, Submitted
<1>7. FieldsTyped'
  BY <1>0, <1>2 DEF FieldsTyped, Submitted
<1>8. FeedbackTyped'
  <2>1. queue' \in [Levels -> Seq(Jobs)]
    BY <1>4 DEF Separate
  <2>2. priority' \in [Jobs -> Levels]
    BY <1>0, <1>1 DEF FeedbackTyped
  <2>. QED  BY <1>0, <1>2, <2>1, <2>2 DEF FeedbackTyped, Submitted
<1>9. Apart'
  <2>1. \A x \in Jobs : Waits(x)' => x \in Submitted' /\ row'[x] = <<>>
    BY <1>0, <1>2, <1>3, <1>5 DEF Apart, Submitted
  <2>. QED  BY <1>0, <1>2, <1>4, <2>1 DEF Apart
<1>. QED  BY <1>2, <1>5, <1>6, <1>7, <1>8, <1>9 DEF State, Typed

(* The boost loses nobody.                                                 *)
LEMMA BoostsKeeps == ASSUME State, Boosts PROVE State' /\ \A x : Waits(x)' <=> Waits(x)
<1>0. ChildTyped /\ FieldsTyped /\ HistoryTyped /\ FeedbackTyped /\ ControlTyped /\ Apart
  BY DEF State, Typed
<1>1. /\ ~Working /\ ~Working' /\ ControlTyped' /\ scheduler = "MultiLevelFeedbackQueue"
      /\ queue' = Merged(queue) /\ priority' \in [Jobs -> Levels] /\ lastBoostTime' = now
      /\ UNCHANGED <<child, left, pid, failures, now, arrived, command, arrivalTime, startTime,
                     burstTime, error, commandBurstTimes, commandCount, row, cur, priorityQueue,
                     started, finished, level, quantum_end, garbled, scheduler>>
  BY DEF Boosts, childVars, fields, history, Merged
<1>2. Separate(queue') /\ \A x : InQueues(queue', x) <=> InQueues(queue, x)
  <2>1. Separate(queue)
    BY <1>0 DEF Apart
  <2>. QED  BY <1>1, <2>1, MergedQueues, Zenon
<1>3. \A x : Waits(x)' <=> Waits(x)
  BY <1>1, <1>2 DEF Waits
<1>4. ChildTyped' /\ HistoryTyped'
  BY <1>0, <1>1 DEF ChildTyped, HistoryTyped, Submitted
<1>5. FieldsTyped'
  BY <1>0, <1>1 DEF FieldsTyped, Submitted
<1>6. FeedbackTyped'
  <2>1. queue' \in [Levels -> Seq(Jobs)]
    BY <1>2 DEF Separate
  <2>2. now \in 0 .. now
    BY <1>0 DEF ChildTyped
  <2>. QED  BY <1>0, <1>1, <2>1, <2>2 DEF FeedbackTyped, Submitted
<1>7. Apart'
  BY <1>0, <1>1, <1>2, <1>3 DEF Apart, Submitted
<1>. QED  BY <1>1, <1>3, <1>4, <1>5, <1>6, <1>7 DEF State, Typed

(* A step that touches no process keeps the state.                         *)
LEMMA RestsKeeps == ASSUME State, Rests PROVE State' /\ \A x : Waits(x)' <=> Waits(x)
<1>0. ChildTyped /\ FieldsTyped /\ HistoryTyped /\ FeedbackTyped /\ ControlTyped /\ Apart
  BY DEF State, Typed
<1>1. /\ Working' <=> Working
      /\ ControlTyped'
      /\ UNCHANGED <<child, left, pid, failures, now, arrived, command, arrivalTime, startTime,
                     burstTime, error, commandBurstTimes, commandCount, row, cur, priorityQueue,
                     queue, priority, started, finished, level, quantum_end, lastBoostTime,
                     garbled, scheduler>>
  BY DEF Rests, childVars, fields, history, mlfqVars
<1>2. ChildTyped' /\ HistoryTyped'
  BY <1>0, <1>1 DEF ChildTyped, HistoryTyped, Submitted
<1>3. FieldsTyped' /\ FeedbackTyped'
  BY <1>0, <1>1 DEF FieldsTyped, FeedbackTyped, Submitted
<1>4. \A x : Waits(x)' <=> Waits(x)
  BY <1>1 DEF Waits
<1>5. Apart'
  BY <1>0, <1>1, <1>4 DEF Apart, Submitted
<1>. QED  BY <1>1, <1>2, <1>3, <1>4, <1>5 DEF State, Typed

(* The state of both schedulers stays what it is.                          *)
THEOREM OnlineState == Spec => []State
<1>1. State /\ [Next]_vars => State'
  BY StepKinds, ReadsKeeps, PopsKeeps, RunsKeeps, RecordsKeeps, ReturnsKeeps, BoostsKeeps,
     RestsKeeps
<1>. QED  BY <1>1, StateInit, PTL DEF Spec

-----------------------------------------------------------------------------
Bursts(c) == {row[j].burst : j \in Samples(c)} \cup {DefaultBurst}

(* Every process that was recorded counts once in the history of its       *)
(* command, and the average lies between two bursts.                       *)
AverageBetween ==
    \A c \in DOMAIN commandBurstTimes :
        /\ commandCount[c] = 1 + Cardinality(Samples(c))
        /\ \E lo, hi \in Bursts(c) : lo <= commandBurstTimes[c] /\ commandBurstTimes[c] <= hi

(* The bursts of a command are numbers of finitely many samples.           *)
LEMMA BurstsTyped == ASSUME FieldsTyped, NEW c
                     PROVE  /\ Samples(c) \subseteq Jobs /\ Bursts(c) \subseteq Nat
                            /\ IsFiniteSet(Samples(c)) /\ Cardinality(Samples(c)) \in Nat
<1>1. Samples(c) \subseteq Jobs
  BY ChildrenAssumption DEF Samples, Submitted, FieldsTyped, Jobs
<1>2. \A j \in Samples(c) : row[j].burst \in Nat
  <2>. SUFFICES ASSUME NEW j \in Samples(c) PROVE row[j].burst \in Nat
    OBVIOUS
  <2>1. row[j] \in [turnaround : Nat, burst : Nat, error : BOOLEAN]
    BY <1>1 DEF Samples, FieldsTyped
  <2>. QED  BY <2>1
<1>3. Bursts(c) \subseteq Nat
  BY <1>2, OnlineAssumption DEF Bursts
<1>4. IsFiniteSet(Samples(c))
  <2>1. IsFiniteSet(Jobs)
    BY FS_Interval, ChildrenAssumption DEF Jobs
  <2>. QED  BY <1>1, <2>1, FS_Subset
<1>. QED  BY <1>1, <1>3, <1>4, FS_CardinalityType

(* At the start there is no history.                                       *)
LEMMA AverageInit == Init => AverageBetween
<1>. SUFFICES ASSUME Init PROVE AverageBetween
  OBVIOUS
<1>1. DOMAIN commandBurstTimes = {}
  BY DEF Init, SJFInit, OnlineInit
<1>. QED  BY <1>1 DEF AverageBetween

(* A line that is read brings no sample.                                   *)
LEMMA AverageReads == ASSUME State, AverageBetween, Reads PROVE AverageBetween'
<1>0. FieldsTyped /\ HistoryTyped /\ Apart
  BY DEF State, Typed
<1>1. PICK j \in Jobs, c \in Commands : ReadLine(j, c)
  BY DEF Reads
<1>2. /\ j = arrived + 1 /\ arrived' = j /\ arrived \in Nat
      /\ command' = [i \in Submitted \cup {j} |-> IF i = j THEN c ELSE command[i]]
      /\ commandBurstTimes' = [b \in DOMAIN commandBurstTimes \cup {c} |-> Estimate(b)]
      /\ commandCount' = [b \in DOMAIN commandBurstTimes \cup {c} |->
                             IF b \in DOMAIN commandCount THEN commandCount[b] ELSE 1]
      /\ row' = row
  BY <1>0, <1>1 DEF ReadLine, FieldsTyped
<1>3. Submitted' = Submitted \cup {j} /\ row[j] = <<>>
  <2>1. \A n \in Nat : 1 .. n + 1 = (1 .. n) \cup {n + 1}
    OBVIOUS
  <2>2. row[j] = <<>>
    BY <1>0, <1>2 DEF Apart
  <2>. QED  BY <1>2, <2>1, <2>2 DEF Submitted
<1>4. \A d : Samples(d)' = Samples(d)
  <2>1. \A i \in Submitted : command'[i] = command[i] \/ i = j
    BY <1>2
  <2>. QED  BY <1>2, <1>3, <2>1 DEF Samples
<1>5. \A d : Bursts(d)' = Bursts(d)
  BY <1>2, <1>4 DEF Bursts
<1>6. ASSUME NEW d \in DOMAIN commandBurstTimes'
      PROVE  /\ commandCount'[d] = 1 + Cardinality(Samples(d))
             /\ \E lo, hi \in Bursts(d) : lo <= commandBurstTimes'[d] /\ commandBurstTimes'[d] <= hi
  <2>1. CASE d \in DOMAIN commandBurstTimes
    <3>1. commandCount'[d] = commandCount[d] /\ commandBurstTimes'[d] = commandBurstTimes[d]
      BY <1>0, <1>2, <2>1 DEF HistoryTyped, Estimate
    <3>. QED  BY <2>1, <3>1 DEF AverageBetween
  <2>2. CASE d \notin DOMAIN commandBurstTimes
    <3>1. commandCount'[d] = 1 /\ commandBurstTimes'[d] = DefaultBurst
      BY <1>0, <1>2, <1>6, <2>2 DEF HistoryTyped, Estimate
    <3>2. Samples(d) = {}
      BY <1>0, <2>2 DEF Samples, HistoryTyped
    <3>3. Cardinality(Samples(d)) = 0
      BY <3>2, FS_EmptySet
    <3>4. DefaultBurst \in Bursts(d) /\ DefaultBurst <= DefaultBurst
      BY OnlineAssumption DEF Bursts
    <3>. QED  BY <3>1, <3>3, <3>4
  <2>. QED  BY <2>1, <2>2
<1>. QED  BY <1>4, <1>5, <1>6 DEF AverageBetween

(* A process that is recorded is a new sample, and the mean stays between. *)
LEMMA AverageRecords == ASSUME State, AverageBetween, Records PROVE AverageBetween'
<1>0. FieldsTyped /\ HistoryTyped /\ Apart
  BY DEF State, Typed
<1>. PICK c \in DOMAIN commandBurstTimes : c = command[cur]
  BY RecordsKeeps
<1>1. /\ State' /\ cur \in Submitted /\ c = command[cur] /\ row[cur] = <<>>
      /\ row'[cur] # <<>> /\ \A j \in Jobs : j # cur => row'[j] = row[j]
  BY RecordsKeeps
<1>2. PICK t \in Nat, b \in Nat, e \in BOOLEAN :
         /\ row' = [row EXCEPT ![cur] = [turnaround |-> t, burst |-> b, error |-> e]]
         /\ Learn(c, b)
  BY <1>1 DEF Records
<1>3. /\ DOMAIN commandBurstTimes' = DOMAIN commandBurstTimes
      /\ commandCount'[c] = commandCount[c] + 1
      /\ commandBurstTimes'[c]
            = (commandBurstTimes[c] * commandCount[c] + b) \div (commandCount[c] + 1)
      /\ \A d \in DOMAIN commandBurstTimes : d # c =>
            commandCount'[d] = commandCount[d] /\ commandBurstTimes'[d] = commandBurstTimes[d]
  BY <1>0, <1>1, <1>2, LearnTyped
<1>4. /\ Submitted' = Submitted /\ command' = command /\ Submitted \subseteq Jobs /\ cur \in Jobs
      /\ row'[cur].burst = b
  BY <1>0, <1>2, ChildrenAssumption DEF Records, Submitted, FieldsTyped, Jobs
<1>5. Samples(c)' = Samples(c) \cup {cur} /\ cur \notin Samples(c)
  <2>1. \A j \in Submitted : j # cur => row'[j] = row[j]
    BY <1>1, <1>4
  <2>2. Samples(c)' = {j \in Submitted : command[j] = c /\ row'[j] # <<>>}
    BY <1>4 DEF Samples
  <2>. QED  BY <1>1, <2>1, <2>2 DEF Samples
<1>6. Bursts(c)' = Bursts(c) \cup {b}
  <2>1. \A j \in Samples(c) : row'[j].burst = row[j].burst
    BY <1>1, <1>4, <1>5 DEF Samples
  <2>. QED  BY <1>4, <1>5, <2>1 DEF Bursts
<1>7. \A d : d # c => Samples(d)' = Samples(d) /\ Bursts(d)' = Bursts(d)
  <2>. SUFFICES ASSUME NEW d, d # c PROVE Samples(d)' = Samples(d) /\ Bursts(d)' = Bursts(d)
    OBVIOUS
  <2>1. Samples(d)' = Samples(d)
    BY <1>1, <1>4 DEF Samples
  <2>2. \A j \in Samples(d) : row'[j].burst = row[j].burst
    BY <1>1, <1>4 DEF Samples
  <2>. QED  BY <2>1, <2>2 DEF Bursts
<1>8. commandCount'[c] = 1 + Cardinality(Samples(c)')
  <2>1. IsFiniteSet(Samples(c)) /\ Cardinality(Samples(c)) \in Nat
    BY <1>0, BurstsTyped
  <2>2. Cardinality(Samples(c) \cup {cur}) = Cardinality(Samples(c)) + 1
    BY <1>5, <2>1, FS_AddElement
  <2>3. commandCount[c] = 1 + Cardinality(Samples(c))
    BY <1>1 DEF AverageBetween
  <2>. QED  BY <1>3, <1>5, <2>1, <2>2, <2>3
<1>9. \E lo, hi \in Bursts(c)' : lo <= commandBurstTimes'[c] /\ commandBurstTimes'[c] <= hi
  <2>1. /\ commandBurstTimes[c] \in Nat /\ commandCount[c] \in Nat \ {0} /\ Bursts(c) \subseteq Nat
    BY <1>0, <1>1, BurstsTyped DEF HistoryTyped
  <2>2. PICK lo \in Bursts(c), hi \in Bursts(c) :
           lo <= commandBurstTimes[c] /\ commandBurstTimes[c] <= hi
    BY <1>1 DEF AverageBetween
  <2>3. PICK l \in Bursts(c) \cup {b} : l <= lo /\ l <= b /\ l \in Nat
    <3>1. lo <= b \/ b <= lo  BY <2>1
    <3>2. lo \in Nat /\ lo <= lo /\ b <= b  BY <2>1
    <3>. QED  BY <3>1, <3>2
  <2>4. PICK h \in Bursts(c) \cup {b} : h >= hi /\ h >= b /\ h \in Nat
    <3>1. hi <= b \/ b <= hi  BY <2>1
    <3>2. hi \in Nat /\ hi <= hi /\ b <= b  BY <2>1
    <3>. QED  BY <3>1, <3>2
  <2>5. /\ l <= commandBurstTimes[c] /\ l <= b
        /\ commandBurstTimes[c] <= h /\ b <= h
    <3>1. lo \in Nat /\ hi \in Nat  BY <2>1
    <3>. QED  BY <2>1, <2>2, <2>3, <2>4, <3>1
  <2>6. commandBurstTimes'[c] \in l .. h
    <3>. DEFINE x == commandBurstTimes[c]
                k == commandCount[c]
    <3>1. x \in Nat /\ k \in Nat \ {0} /\ l <= x /\ l <= b /\ x <= h /\ b <= h
      BY <2>1, <2>5
    <3>. HIDE DEF x, k
    <3>2. (x * k + b) \div (k + 1) \in l .. h
      BY <2>3, <2>4, <3>1, MeanBetween, Zenon
    <3>. QED  BY <1>3, <3>2 DEF x, k
  <2>7. l <= commandBurstTimes'[c] /\ commandBurstTimes'[c] <= h
    BY <2>3, <2>4, <2>6
  <2>. QED  BY <1>6, <2>3, <2>4, <2>7
<1>10. ASSUME NEW d \in DOMAIN commandBurstTimes, d # c
       PROVE  /\ commandCount'[d] = 1 + Cardinality(Samples(d)')
              /\ \E lo, hi \in Bursts(d)' : lo <= commandBurstTimes'[d] /\ commandBurstTimes'[d] <= hi
  <2>1. /\ commandCount'[d] = commandCount[d] /\ commandBurstTimes'[d] = commandBurstTimes[d]
        /\ Samples(d)' = Samples(d) /\ Bursts(d)' = Bursts(d)
    BY <1>3, <1>7, <1>10
  <2>. QED  BY <1>10, <2>1 DEF AverageBetween
<1>11. ASSUME NEW d \in DOMAIN commandBurstTimes'
       PROVE  /\ commandCount'[d] = 1 + Cardinality(Samples(d)')
              /\ \E lo, hi \in Bursts(d)' : lo <= commandBurstTimes'[d] /\ commandBurstTimes'[d] <= hi
  <2>1. CASE d = c
    BY <1>8, <1>9, <2>1
  <2>2. CASE d # c
    BY <1>3, <1>10, <2>2
  <2>. QED  BY <2>1, <2>2
<1>. QED  BY <1>11 DEF AverageBetween

(* No other step touches the history.                                      *)
LEMMA AverageStep == State /\ AverageBetween /\ [Next]_vars => AverageBetween'
<1>. SUFFICES ASSUME State, AverageBetween, [Next]_vars PROVE AverageBetween'
  OBVIOUS
<1>1. CASE UNCHANGED <<arrived, command, commandBurstTimes, commandCount, row>>
  <2>1. \A c : Samples(c)' = Samples(c)
    BY <1>1 DEF Samples, Submitted
  <2>2. \A c : Bursts(c)' = Bursts(c)
    BY <1>1, <2>1 DEF Bursts
  <2>. QED  BY <1>1, <2>1, <2>2 DEF AverageBetween
<1>2. Pops \/ Runs \/ Returns \/ Boosts \/ Rests => <1>1!1
  BY DEF Pops, Runs, Returns, Boosts, Rests, fields, history
<1>. QED  BY <1>1, <1>2, StepKinds, AverageReads, AverageRecords

(* The least and the largest of a set lie about what lies between two of   *)
(* its elements.                                                           *)
LEMMA MinMax ==
    ASSUME NEW S \in SUBSET Nat, NEW b \in Nat, \A x \in S : x <= b, NEW lo \in S, NEW hi \in S,
           NEW v \in Nat, lo <= v, v <= hi
    PROVE  v \in Min(S) .. Max(S)
<1>1. PICK m \in S : \A k \in S : m <= k
  <2>1. S # {}  OBVIOUS
  <2>. QED  BY <2>1, LeastNatural
<1>2. PICK n \in S : \A k \in S : n >= k
  <2>1. S # {}  OBVIOUS
  <2>. QED  BY <2>1, GreatestNatural
<1>3. Min(S) \in S /\ \A k \in S : Min(S) <= k
  BY <1>1, Zenon DEF Min
<1>4. Max(S) \in S /\ \A k \in S : Max(S) >= k
  BY <1>2, Zenon DEF Max
<1>5. /\ Min(S) \in Nat /\ Max(S) \in Nat /\ lo \in Nat /\ hi \in Nat /\ Min(S) <= lo
      /\ hi <= Max(S)
  BY <1>3, <1>4
<1>. QED  BY <1>5

(* So the history is sound.                                                *)
LEMMA HistoryFromAverage == State /\ AverageBetween => HistorySound
<1>. SUFFICES ASSUME State, AverageBetween, NEW c \in DOMAIN commandBurstTimes
              PROVE  /\ commandCount[c] = 1 + Cardinality(Samples(c))
                     /\ commandBurstTimes[c] \in Min(Bursts(c)) .. Max(Bursts(c))
  BY DEF HistorySound, Bursts
<1>0. FieldsTyped /\ HistoryTyped
  BY DEF State, Typed
<1>1. PICK lo \in Bursts(c), hi \in Bursts(c) :
         lo <= commandBurstTimes[c] /\ commandBurstTimes[c] <= hi
  BY DEF AverageBetween
<1>2. Bursts(c) \in SUBSET Nat /\ Samples(c) \subseteq Jobs /\ commandBurstTimes[c] \in Nat
  BY <1>0, BurstsTyped DEF HistoryTyped
<1>3. PICK b \in Nat : \A x \in Bursts(c) : x <= b
  <2>. DEFINE f == [j \in Jobs |-> IF j \in Samples(c) THEN row[j].burst ELSE 0]
  <2>1. f \in [Jobs -> Nat]
    BY <1>2 DEF Bursts
  <2>2. PICK m \in Nat : \A j \in Jobs : f[j] <= m
    BY <2>1, Bounded
  <2>3. \A j \in Samples(c) : row[j].burst <= m /\ row[j].burst \in Nat
    BY <1>2, <2>2 DEF Bursts
  <2>4. \A j \in Samples(c) : row[j].burst <= m + DefaultBurst
    BY <2>3, OnlineAssumption
  <2>5. DefaultBurst <= m + DefaultBurst /\ m + DefaultBurst \in Nat
    BY OnlineAssumption
  <2>6. \A x \in Bursts(c) : x <= m + DefaultBurst
    BY <2>4, <2>5 DEF Bursts
  <2>. QED  BY <2>5, <2>6
<1>4. commandBurstTimes[c] \in Min(Bursts(c)) .. Max(Bursts(c))
  BY <1>1, <1>2, <1>3, MinMax
<1>. QED  BY <1>4 DEF AverageBetween

(* Every process that was recorded counts once in the average of its       *)
(* command, which stays between the extremes, whatever is typed.           *)
THEOREM OnlineHistory == Spec => []HistorySound
<1>1. State /\ AverageBetween => HistorySound
  BY HistoryFromAverage
<1>. QED  BY <1>1, OnlineState, AverageInit, AverageStep, PTL DEF Spec

-----------------------------------------------------------------------------
(* Shortest job first: what a queued process was given as its burst is     *)
(* what the history says now, and the latest of a command is not taken out *)
(* before an earlier one.                                                  *)
Propagated == \A j \in ToSet(priorityQueue) : burstTime[j] = commandBurstTimes[command[j]]

EarliestFirst ==
    scheduler = "ShortestJobFirst" /\ Working =>
        \A j \in ToSet(priorityQueue) : command[j] = command[cur] => cur < j

(* What is queued has arrived, and its command is in the history.          *)
LEMMA QueuedAre == ASSUME State PROVE \A j \in ToSet(priorityQueue) :
                          j \in Submitted /\ j \in Jobs /\ command[j] \in DOMAIN commandBurstTimes
<1>1. priorityQueue \in Seq(Jobs)
  BY DEF State, Typed, ControlTyped
<1>2. \A j \in ToSet(priorityQueue) : j \in Jobs
  BY <1>1, Elements
<1>3. \A j \in ToSet(priorityQueue) : j \in Submitted
  BY <1>2 DEF State, Apart, Waits
<1>. QED  BY <1>2, <1>3 DEF State, Typed, HistoryTyped

(* The process that is taken out is the first of the shortest.             *)
LEMMA PopsShortest ==
    ASSUME State, SJFPop
    PROVE  /\ cur' \in ToSet(priorityQueue)
           /\ ToSet(priorityQueue') = ToSet(priorityQueue) \ {cur'}
           /\ \A j \in ToSet(priorityQueue) : burstTime[cur'] <= burstTime[j]
           /\ \A j \in ToSet(priorityQueue) : burstTime[cur'] = burstTime[j] => cur' <= j
<1>1. PICK k \in DOMAIN priorityQueue :
         /\ \A m \in DOMAIN priorityQueue : Shorter(k, m)
         /\ cur' = priorityQueue[k] /\ priorityQueue' = RemoveAt(priorityQueue, k)
  BY DEF SJFPop
<1>2. /\ priorityQueue \in Seq(Jobs) /\ Increasing(priorityQueue) /\ Jobs \in SUBSET Nat
      /\ burstTime \in [Jobs -> Nat]
  <2>1. ControlTyped /\ FieldsTyped /\ Apart
    BY DEF State, Typed
  <2>. QED  BY <2>1 DEF ControlTyped, FieldsTyped, Apart, Jobs
<1>3. /\ Len(priorityQueue) \in Nat /\ DOMAIN priorityQueue = 1 .. Len(priorityQueue)
      /\ k \in 1 .. Len(priorityQueue)
      /\ \A a \in 1 .. Len(priorityQueue) : priorityQueue[a] \in Jobs
      /\ cur' \in ToSet(priorityQueue)
  BY <1>1, <1>2, Elements
<1>4. ToSet(priorityQueue') = ToSet(priorityQueue) \ {cur'}
  BY <1>1, <1>2, <1>3, TakeOut
<1>5. ASSUME NEW j \in ToSet(priorityQueue)
      PROVE  burstTime[cur'] <= burstTime[j] /\ (burstTime[cur'] = burstTime[j] => cur' <= j)
  <2>1. PICK m \in 1 .. Len(priorityQueue) : priorityQueue[m] = j
    BY <1>2, Elements
  <2>2. /\ burstTime[cur'] \in Nat /\ burstTime[j] \in Nat /\ cur' \in Nat /\ j \in Nat
    BY <1>1, <1>2, <1>3, <2>1
  <2>3. \/ burstTime[cur'] < burstTime[j]
        \/ burstTime[cur'] = burstTime[j] /\ k <= m
    BY <1>1, <1>3, <2>1 DEF Shorter
  <2>4. k <= m => cur' <= j
    <3>1. CASE k = m
      BY <1>1, <2>1, <2>2, <3>1
    <3>2. CASE k < m
      <4>1. priorityQueue[k] < priorityQueue[m]
        BY <1>2, <1>3, <3>2, Zenon DEF Increasing
      <4>. QED  BY <1>1, <2>1, <2>2, <4>1
    <3>. QED  BY <1>3, <3>1, <3>2
  <2>. QED  BY <2>2, <2>3, <2>4
<1>. QED  BY <1>3, <1>4, <1>5

(* At the start nothing is queued.                                         *)
LEMMA PropagatedInit == Init => Propagated /\ EarliestFirst
<1>. SUFFICES ASSUME Init PROVE Propagated /\ EarliestFirst
  OBVIOUS
<1>1. ToSet(priorityQueue) = {}
  BY DEF Init, SJFInit, ToSet
<1>. QED  BY <1>1 DEF Propagated, EarliestFirst

(* Every step keeps the queued bursts up to date and the order of a        *)
(* command.                                                                *)
LEMMA PropagatedStep ==
    ASSUME State, Propagated, EarliestFirst, [Next]_vars
    PROVE  Propagated' /\ EarliestFirst'
<1>0. /\ FieldsTyped /\ HistoryTyped /\ ControlTyped /\ Apart /\ priorityQueue \in Seq(Jobs)
      /\ \A j \in ToSet(priorityQueue) :
            j \in Submitted /\ j \in Jobs /\ command[j] \in DOMAIN commandBurstTimes
  BY QueuedAre DEF State, Typed, ControlTyped
<1>1. CASE UNCHANGED <<priorityQueue, burstTime, commandBurstTimes, command, cur, scheduler>>
           /\ (Working' => Working)
  BY <1>1 DEF Propagated, EarliestFirst
<1>2. CASE scheduler = "MultiLevelFeedbackQueue" /\ UNCHANGED <<priorityQueue, scheduler>>
  <2>1. ToSet(priorityQueue') = {}
    BY <1>0, <1>2 DEF Apart, ToSet
  <2>. QED  BY <1>2, <2>1 DEF Propagated, EarliestFirst
<1>3. ASSUME SJFRead, scheduler' = scheduler PROVE Propagated' /\ EarliestFirst'
  <2>1. PICK j \in Jobs, c \in Commands :
           /\ ReadLine(j, c) /\ burstTime' = [burstTime EXCEPT ![j] = Estimate(c)]
           /\ priorityQueue' = Enqueue(priorityQueue, j)
    BY <1>3 DEF SJFRead
  <2>2. /\ pc' = "input" /\ j = arrived + 1 /\ arrived \in Nat
        /\ command' = [i \in Submitted \cup {j} |-> IF i = j THEN c ELSE command[i]]
        /\ commandBurstTimes' = [b \in DOMAIN commandBurstTimes \cup {c} |-> Estimate(b)]
    BY <1>0, <2>1 DEF ReadLine, FieldsTyped
  <2>3. ToSet(priorityQueue') \subseteq ToSet(priorityQueue) \cup {j}
    BY <1>0, <2>1, EnqueueElements, Zenon
  <2>4. j \notin Submitted
    BY <2>2 DEF Submitted
  <2>5. ASSUME NEW i \in ToSet(priorityQueue)
        PROVE  burstTime'[i] = commandBurstTimes'[command'[i]]
    <3>1. burstTime'[i] = burstTime[i] /\ command'[i] = command[i]
      BY <1>0, <2>1, <2>2, <2>4 DEF FieldsTyped
    <3>2. commandBurstTimes'[command[i]] = commandBurstTimes[command[i]]
      BY <1>0, <2>2 DEF Estimate
    <3>. QED  BY <3>1, <3>2 DEF Propagated
  <2>6. burstTime'[j] = commandBurstTimes'[command'[j]]
    BY <1>0, <2>1, <2>2 DEF FieldsTyped
  <2>7. ~Working'
    BY <2>2 DEF Working, SJFPlaces, MLFQPlaces
  <2>. QED  BY <2>3, <2>5, <2>6, <2>7 DEF Propagated, EarliestFirst
<1>4. ASSUME SJFPop, scheduler' = scheduler PROVE Propagated' /\ EarliestFirst'
  <2>1. UNCHANGED <<burstTime, command, commandBurstTimes>>
    BY <1>4 DEF SJFPop, history
  <2>2. /\ cur' \in ToSet(priorityQueue)
        /\ ToSet(priorityQueue') = ToSet(priorityQueue) \ {cur'}
        /\ \A j \in ToSet(priorityQueue) : burstTime[cur'] = burstTime[j] => cur' <= j
    BY <1>4, PopsShortest
  <2>3. Propagated'
    BY <2>1, <2>2 DEF Propagated
  <2>4. ASSUME NEW j \in ToSet(priorityQueue'), command[j] = command[cur'] PROVE cur' < j
    <3>1. j \in ToSet(priorityQueue) /\ j # cur' /\ j \in Nat /\ cur' \in Nat
      BY <1>0, <2>2 DEF Submitted
    <3>2. burstTime[cur'] = burstTime[j]
      BY <2>2, <2>4, <3>1 DEF Propagated
    <3>. QED  BY <2>2, <3>1, <3>2
  <2>. QED  BY <2>1, <2>3, <2>4 DEF EarliestFirst
<1>5. ASSUME SJFCollect, scheduler' = scheduler PROVE Propagated' /\ EarliestFirst'
  <2>1. /\ pc = "wait" /\ pc' = "input" /\ Learn(command[cur], now - startTime[cur])
        /\ UNCHANGED <<command, cur, priorityQueue>>
        /\ burstTime' = [j \in Jobs |->
              IF j = cur THEN now - startTime[cur]
              ELSE IF j \in ToSet(priorityQueue) /\ command[j] = command[cur]
              THEN commandBurstTimes'[command[cur]] ELSE burstTime[j]]
    BY <1>5 DEF SJFCollect, Goto, Propagate
  <2>2. Working /\ ~Working'
    BY <2>1 DEF Working, SJFPlaces, MLFQPlaces
  <2>3. cur \in Submitted /\ cur \in Jobs /\ cur \notin ToSet(priorityQueue)
    BY <1>0, <2>2 DEF Apart, Waits, FieldsTyped
  <2>4. now - startTime[cur] \in Nat
    BY <1>0, <2>3 DEF State, Typed, FieldsTyped, ChildTyped
  <2>5. \A d \in DOMAIN commandBurstTimes :
           d # command[cur] => commandBurstTimes'[d] = commandBurstTimes[d]
    <3>1. command[cur] \in DOMAIN commandBurstTimes
      BY <1>0, <2>3 DEF HistoryTyped
    <3>. QED  BY <1>0, <2>1, <2>4, <3>1, LearnTyped
  <2>6. ASSUME NEW i \in ToSet(priorityQueue)
        PROVE  burstTime'[i] = commandBurstTimes'[command[i]]
    <3>1. i # cur /\ i \in Jobs /\ command[i] \in DOMAIN commandBurstTimes
      BY <1>0, <2>3
    <3>2. CASE command[i] = command[cur]
      BY <2>1, <3>1, <3>2
    <3>3. CASE command[i] # command[cur]
      BY <2>1, <2>5, <3>1, <3>3 DEF Propagated
    <3>. QED  BY <3>2, <3>3
  <2>. QED  BY <2>1, <2>2, <2>6 DEF Propagated, EarliestFirst
<1>6. SJFFork \/ SJFBlock =>
         UNCHANGED <<priorityQueue, burstTime, commandBurstTimes, command, cur>> /\ Working
  BY DEF SJFFork, SJFBlock, Goto, fields, history, Working, SJFPlaces
<1>7. CASE Read
  BY <1>2, <1>3, <1>7 DEF Read
<1>8. CASE Work
  BY <1>1, <1>2, <1>4, <1>5, <1>6, <1>8 DEF Work, SJFWork
<1>9. CASE Exit
  BY <1>1, <1>9 DEF Exit, ReadExit, Goto, fields, history, Working, SJFPlaces, MLFQPlaces
<1>10. CASE UNCHANGED vars
  BY <1>1, <1>10 DEF vars, onlineVars, fields, history, Working
<1>. QED  BY <1>7, <1>8, <1>9, <1>10 DEF Next, Idle

(* The process that is started has the shortest average burst of all that  *)
(* wait, by the history as it is at that moment.                           *)
THEOREM OnlineShortestFirst == Spec => ShortestFirst
<1>. DEFINE Shortest == pc = "input" /\ pc' = "fork" =>
               \A j \in ToSet(priorityQueue) :
                  commandBurstTimes[command[cur']] <= commandBurstTimes[command[j]]
<1>1. State /\ Propagated /\ [Next]_vars => [Shortest]_sjfVars
  <2>. SUFFICES ASSUME State, Propagated, [Next]_vars, pc = "input", pc' = "fork"
                PROVE  \A j \in ToSet(priorityQueue) :
                          commandBurstTimes[command[cur']] <= commandBurstTimes[command[j]]
    BY DEF Shortest
  <2>1. SJFPop
    <3>1. pc = "input" /\ pc' = "fork" /\ pc' # pc
      OBVIOUS
    <3>2. ~Exit /\ ~UNCHANGED vars
      BY <3>1 DEF Exit, ReadExit, Goto, vars, onlineVars
    <3>3. ~Read
      BY <3>1 DEF Read, SJFRead, MLFQRead, ReadLine
    <3>4. ~MLFQWork
      BY <3>1 DEF MLFQWork, MLFQPop, MLFQDispatch, MLFQPoll, EndSlice, StopSlice, Recheck,
                  MLFQAccount, MLFQBoost, Goto
    <3>5. SJFWork
      BY <3>2, <3>3, <3>4 DEF Next, Idle, Work
    <3>. QED  BY <3>1, <3>5 DEF SJFWork, SJFFork, SJFBlock, SJFCollect, Goto
  <2>2. /\ cur' \in ToSet(priorityQueue)
        /\ \A j \in ToSet(priorityQueue) : burstTime[cur'] <= burstTime[j]
    BY <2>1, PopsShortest
  <2>. QED  BY <2>2 DEF Propagated
<1>2. State /\ (Propagated /\ EarliestFirst) /\ [Next]_vars => (Propagated /\ EarliestFirst)'
  BY PropagatedStep
<1>3. Spec => [](Propagated /\ EarliestFirst)
  BY <1>2, OnlineState, PropagatedInit, PTL DEF Spec
<1>4. Spec => [][Shortest]_sjfVars
  BY <1>1, <1>3, OnlineState, PTL DEF Spec
<1>. QED  BY <1>4, Zenon DEF ShortestFirst, Shortest

-----------------------------------------------------------------------------
(* With room for all, what has arrived is in a queue, has the processor or *)
(* has been recorded.                                                      *)
Kept == \A j \in Submitted : row[j] # <<>> \/ Waits(j) \/ (Working /\ cur = j)

(* At the start nothing has arrived.                                       *)
LEMMA KeptInit == Init => Kept
BY DEF Init, SJFInit, OnlineInit, Kept, Submitted

(* No step loses a process if there is room for all.                       *)
LEMMA KeptStep == ASSUME State, Kept, N <= MAX_QUEUE_SIZE, [Next]_vars PROVE Kept'
<1>0. FieldsTyped
  BY DEF State, Typed
<1>1. CASE Reads
  <2>1. /\ arrived' = arrived + 1 /\ \A x : Waits(x) => Waits(x)'
        /\ \A x : x = arrived' => Waits(x)'
    BY <1>1, ReadsKeeps
  <2>2. Working' = Working /\ UNCHANGED <<row, cur>>
    BY <1>1 DEF Reads, ReadLine, Working
  <2>3. \A x \in Submitted' : x \in Submitted \/ x = arrived'
    <3>1. \A n \in Nat : \A x \in 1 .. n + 1 : x \in 1 .. n \/ x = n + 1
      OBVIOUS
    <3>2. arrived \in Nat
      BY <1>0 DEF FieldsTyped
    <3>. QED  BY <2>1, <3>1, <3>2 DEF Submitted
  <2>. QED  BY <2>1, <2>2, <2>3 DEF Kept
<1>2. CASE Pops
  <2>1. /\ ~Working /\ Working' /\ Submitted' = Submitted /\ row' = row
        /\ \A x : Waits(x)' <=> Waits(x) /\ x # cur'
    BY <1>2, PopsKeeps DEF Pops, Submitted
  <2>. QED  BY <2>1 DEF Kept
<1>3. CASE Records
  <2>1. /\ \A x : Waits(x)' <=> Waits(x)
        /\ row'[cur] # <<>> /\ \A j \in Jobs : j # cur => row'[j] = row[j]
    BY <1>3, RecordsKeeps
  <2>2. Submitted' = Submitted /\ Submitted \subseteq Jobs
    BY <1>0, <1>3, ChildrenAssumption DEF Records, Submitted, FieldsTyped, Jobs
  <2>. QED  BY <2>1, <2>2 DEF Kept
<1>4. CASE Returns
  <2>1. /\ \A x : Waits(x) => Waits(x)'
        /\ Waits(cur)'
    BY <1>4, ReturnsKeeps
  <2>2. Submitted' = Submitted /\ UNCHANGED <<row, cur>>
    BY <1>4 DEF Returns, Submitted
  <2>. QED  BY <2>1, <2>2 DEF Kept
<1>5. CASE Runs \/ Boosts \/ Rests
  <2>1. \A x : Waits(x)' <=> Waits(x)
    BY <1>5, RunsKeeps, BoostsKeeps, RestsKeeps
  <2>2. Submitted' = Submitted /\ UNCHANGED <<row, cur>> /\ (Working' <=> Working)
    BY <1>5 DEF Runs, Boosts, Rests, Submitted
  <2>. QED  BY <2>1, <2>2 DEF Kept
<1>. QED  BY <1>1, <1>2, <1>3, <1>4, <1>5, StepKinds

(* A recorded process had no earlier one of its command waiting.           *)
LEMMA InOrderStep ==
    ASSUME State, Kept, EarliestFirst, SameCommandInOrder, [Next]_vars
    PROVE  SameCommandInOrder'
<1>. SUFFICES ASSUME scheduler' = "ShortestJobFirst", NEW k \in Submitted', NEW j \in 1 .. k - 1,
                     command'[j] = command'[k], row'[k] # <<>>
              PROVE  row'[j] # <<>>
  BY DEF SameCommandInOrder
<1>0. /\ FieldsTyped /\ Apart /\ scheduler = "ShortestJobFirst" /\ arrived \in Nat
      /\ Submitted \subseteq Jobs
  <2>1. scheduler' = scheduler
    BY DEF Next, Read, Work, Exit, Idle, vars
  <2>2. FieldsTyped /\ Apart
    BY DEF State, Typed
  <2>3. arrived \in 0 .. N
    BY <2>2 DEF FieldsTyped
  <2>4. Submitted \subseteq Jobs
    BY <2>3, ChildrenAssumption DEF Submitted, Jobs
  <2>. QED  BY <2>1, <2>2, <2>3, <2>4
<1>1. CASE UNCHANGED <<arrived, command, row>>
  BY <1>0, <1>1 DEF SameCommandInOrder, Submitted
<1>2. CASE Reads
  <2>1. /\ arrived' = arrived + 1 /\ row' = row
        /\ \A i \in Submitted : command'[i] = command[i]
    <3>1. PICK i \in Jobs, c \in Commands : ReadLine(i, c)
      BY <1>2 DEF Reads
    <3>. QED  BY <1>0, <3>1 DEF ReadLine, Submitted
  <2>2. k # arrived'
    <3>1. arrived' \in Jobs /\ arrived' > arrived
      BY <1>0, <1>2, <2>1, ReadsKeeps
    <3>. QED  BY <1>0, <2>1, <3>1 DEF Apart
  <2>3. k \in Submitted /\ j \in Submitted
    BY <1>0, <2>1, <2>2 DEF Submitted
  <2>. QED  BY <1>0, <2>1, <2>3 DEF SameCommandInOrder
<1>3. CASE Records
  <2>1. /\ Working /\ UNCHANGED <<arrived, command>> /\ row[cur] = <<>> /\ cur \in Submitted
        /\ row'[cur] # <<>> /\ \A i \in Jobs : i # cur => row'[i] = row[i]
    BY <1>3, RecordsKeeps DEF Records
  <2>2. k \in Submitted /\ j \in Submitted /\ j \in Nat /\ k \in Nat /\ j < k
    BY <1>0, <2>1 DEF Submitted
  <2>3. CASE k # cur
    <3>1. row[k] # <<>> /\ command[j] = command[k]
      BY <1>0, <2>1, <2>2, <2>3
    <3>2. row[j] # <<>>
      BY <1>0, <2>2, <3>1 DEF SameCommandInOrder
    <3>. QED  BY <1>0, <2>1, <2>2, <3>2
  <2>4. CASE k = cur
    <3>1. j # cur /\ command[j] = command[cur]
      BY <2>1, <2>2, <2>4
    <3>2. ~Waits(j)
      <4>1. j \notin ToSet(priorityQueue)
        BY <1>0, <2>1, <2>2, <2>4, <3>1 DEF EarliestFirst
      <4>2. ~InQueues(queue, j)
        <5>1. ToSet(<<>>) = {}  BY DEF ToSet
        <5>. QED  BY <1>0, <5>1 DEF Apart, InQueues
      <4>. QED  BY <4>1, <4>2 DEF Waits
    <3>3. row[j] # <<>>
      BY <2>2, <3>1, <3>2 DEF Kept
    <3>. QED  BY <1>0, <2>1, <2>2, <3>1, <3>3
  <2>. QED  BY <2>3, <2>4
<1>4. Pops \/ Runs \/ Returns \/ Boosts \/ Rests => <1>1!1
  BY DEF Pops, Runs, Returns, Boosts, Rests, fields
<1>. QED  BY <1>1, <1>2, <1>3, <1>4, StepKinds

(* Shortest job first, with room for all, records the runs of one command  *)
(* in the order in which they were typed, though its estimate changes.     *)
THEOREM OnlineInOrder == ASSUME N <= MAX_QUEUE_SIZE PROVE Spec => []SameCommandInOrder
<1>1. State /\ (Propagated /\ EarliestFirst /\ Kept /\ SameCommandInOrder) /\ [Next]_vars
        => (Propagated /\ EarliestFirst /\ Kept /\ SameCommandInOrder)'
  BY PropagatedStep, KeptStep, InOrderStep
<1>2. Init => SameCommandInOrder
  BY DEF Init, SJFInit, OnlineInit, SameCommandInOrder, Submitted
<1>. QED  BY <1>1, <1>2, OnlineState, PropagatedInit, KeptInit, PTL DEF Spec

-----------------------------------------------------------------------------
(* What holds while no fork has failed and no process had garbage in it.   *)
(* A process of the feedback queues has its own child from its first slice *)
(* on, and is finished when it has been waited for.                        *)
Tracked ==
    /\ \A j \in Jobs : /\ pid[j] = IF started[j] THEN j ELSE 0
                       /\ started[j] <=> child[j] # "none"
                       /\ finished[j] <=> child[j] = "reaped"
                       /\ started[j] => j \in Submitted
                       /\ row[j] # <<>> => finished[j]
                       /\ Waits(j) => ~finished[j]
    /\ pc \in {"poll", "recheck", "stop", "account"} => started[cur]
    /\ pc \in {"dispatch", "poll"} => ~finished[cur]
    /\ pc = "recheck" => finished[cur]
    /\ pc # "halted"

(* A slice that ends with the process unfinished has lasted its quantum,   *)
(* so that what has been charged lies within the time since the arrival.   *)
Covered ==
    /\ pc \in {"stop", "account"} /\ ~finished[cur] => now >= quantum_end
    /\ Working => /\ quantum_end = startTime[cur] + Quantum[level]
                  /\ burstTime[cur] + arrivalTime[cur] <= startTime[cur]
    /\ \A j \in Jobs : Waits(j) => burstTime[j] + arrivalTime[j] <= now

TimesRecorded == \A j \in Jobs : row[j] # <<>> => row[j].burst <= row[j].turnaround

(* A child of shortest job first is there when it is waited for.           *)
SJFTracked ==
    /\ pc = "wait" => child[cur] # "none"
    /\ \A j \in Jobs : row[j] # <<>> => child[j] = "reaped"
    /\ Working => arrivalTime[cur] <= startTime[cur]

Good == WellBehaved => /\ TimesRecorded
                       /\ scheduler = "ShortestJobFirst" => SJFTracked
                       /\ scheduler = "MultiLevelFeedbackQueue" => Tracked /\ Covered

(* Nothing makes a scheduler well behaved again.                           *)
LEMMA BehavedBefore == ASSUME State, [Next]_vars, WellBehaved'
                       PROVE  WellBehaved /\ UNCHANGED <<failures, garbled>>
<1>0. failures \in Nat
  BY DEF State, Typed, ChildTyped
<1>1. failures' >= failures /\ garbled \subseteq garbled'
  <2>1. ClockMoves => failures' >= failures
    BY DEF ClockMoves
  <2>2. UNCHANGED childVars => failures' >= failures
    BY <1>0 DEF childVars
  <2>. QED  BY <2>1, <2>2, StepKinds DEF Reads, Pops, Runs, Records, Returns, Boosts, Rests, mlfqVars
<1>. QED  BY <1>0, <1>1 DEF WellBehaved

(* At the start everything is in order.                                    *)
LEMMA GoodInit == Init => Good
<1>. SUFFICES ASSUME Init PROVE TimesRecorded /\ SJFTracked /\ Tracked /\ Covered
  BY DEF Good
<1>. USE DEF Init, SJFInit, MLFQInit, OnlineInit, ChildrenInit
<1>1. \A j \in Jobs : ~Waits(j)
  BY DEF Waits, InQueues, ToSet
<1>. QED  BY <1>1 DEF TimesRecorded, SJFTracked, Tracked, Covered, Working, SJFPlaces, MLFQPlaces

-----------------------------------------------------------------------------
(* A step of shortest job first in which no fork fails keeps the child of  *)
(* each process known and its times in order.                              *)
LEMMA GoodSJF ==
    ASSUME State, TimesRecorded, SJFTracked, UNCHANGED failures, SJFRead \/ SJFWork
    PROVE  TimesRecorded' /\ SJFTracked'
<1>0. ChildTyped /\ FieldsTyped /\ Apart /\ cur \in Jobs /\ failures \in Nat
  BY DEF State, Typed, FieldsTyped, ChildTyped
<1>1. CASE SJFRead
  <2>1. /\ pc = "input" /\ pc' = pc /\ UNCHANGED <<row, child>>
    BY <1>1 DEF SJFRead, ReadLine, childVars
  <2>. QED  BY <2>1 DEF TimesRecorded, SJFTracked, Working, SJFPlaces, MLFQPlaces
<1>2. CASE SJFPop
  <2>1. /\ pc' = "fork" /\ UNCHANGED <<row, child, arrivalTime>>
        /\ startTime' = [startTime EXCEPT ![cur'] = now] /\ cur' \in ToSet(priorityQueue)
    BY <1>2, PopsShortest DEF SJFPop, Goto, childVars
  <2>2. cur' \in Jobs
    BY <2>1, QueuedAre
  <2>3. arrivalTime'[cur'] <= startTime'[cur']
    BY <1>0, <2>1, <2>2 DEF FieldsTyped
  <2>. QED  BY <2>1, <2>3 DEF TimesRecorded, SJFTracked
<1>3. CASE SJFFork
  <2>1. /\ pc = "fork" /\ child' = [child EXCEPT ![cur] = "running"]
        /\ UNCHANGED <<row, cur, arrivalTime, startTime>>
    BY <1>0, <1>3 DEF SJFFork, Goto, Fork, ForkFails, fields
  <2>2. Working /\ row[cur] = <<>>
    BY <1>0, <2>1 DEF Working, SJFPlaces, Apart
  <2>3. child'[cur] = "running" /\ \A j \in Jobs : j # cur => child'[j] = child[j]
    BY <1>0, <2>1 DEF ChildTyped
  <2>. QED  BY <2>1, <2>2, <2>3 DEF TimesRecorded, SJFTracked
<1>4. CASE SJFBlock
  <2>1. /\ pc = "wait" /\ child' = [child EXCEPT ![cur] = "zombie"]
        /\ UNCHANGED <<row, cur, arrivalTime, startTime, pc>>
    BY <1>4 DEF SJFBlock, SleepUntilDone, fields
  <2>2. Working /\ row[cur] = <<>>
    BY <1>0, <2>1 DEF Working, SJFPlaces, Apart
  <2>3. child'[cur] = "zombie" /\ \A j \in Jobs : j # cur => child'[j] = child[j]
    BY <1>0, <2>1 DEF ChildTyped
  <2>. QED  BY <2>1, <2>2, <2>3 DEF TimesRecorded, SJFTracked
<1>5. CASE SJFCollect
  <2>1. /\ pc = "wait" /\ pc' = "input"
        /\ row' = [row EXCEPT ![cur] = [turnaround |-> now - arrivalTime[cur],
                                        burst |-> now - startTime[cur], error |-> error'[cur]]]
    BY <1>5 DEF SJFCollect, Goto
  <2>2. child' = [child EXCEPT ![cur] = "reaped"]
    BY <1>5, <2>1 DEF SJFCollect, Reap, SJFTracked
  <2>3. child'[cur] = "reaped" /\ \A j \in Jobs : j # cur => child'[j] = child[j]
    BY <1>0, <2>2 DEF ChildTyped
  <2>4. /\ row'[cur].burst = now - startTime[cur] /\ row'[cur].turnaround = now - arrivalTime[cur]
        /\ \A j \in Jobs : j # cur => row'[j] = row[j]
    BY <1>0, <2>1 DEF FieldsTyped
  <2>5. now - startTime[cur] <= now - arrivalTime[cur]
    <3>1. now \in Nat /\ startTime[cur] \in Nat /\ arrivalTime[cur] \in Nat
      BY <1>0 DEF ChildTyped, FieldsTyped
    <3>2. arrivalTime[cur] <= startTime[cur]
      BY <2>1 DEF SJFTracked, Working, SJFPlaces
    <3>. QED  BY <3>1, <3>2
  <2>6. TimesRecorded'
    BY <2>4, <2>5 DEF TimesRecorded
  <2>7. SJFTracked'
    BY <2>1, <2>3, <2>4 DEF SJFTracked, Working, SJFPlaces, MLFQPlaces
  <2>. QED  BY <2>6, <2>7
<1>. QED  BY <1>1, <1>2, <1>3, <1>4, <1>5 DEF SJFWork

-----------------------------------------------------------------------------
(* The feedback queues, step by step.                                      *)
LEMMA GoodMLFQRead ==
    ASSUME State, WellBehaved', Tracked, Covered, TimesRecorded, MLFQRead, [Next]_vars,
           scheduler = "MultiLevelFeedbackQueue", priorityQueue' = priorityQueue
    PROVE  Tracked' /\ Covered' /\ TimesRecorded'
<1>0. ChildTyped /\ FieldsTyped /\ FeedbackTyped /\ Apart
  BY DEF State, Typed
<1>1. PICK j \in Jobs, c \in Commands :
         /\ ReadLine(j, c) /\ burstTime' = [burstTime EXCEPT ![j] = 0]
         /\ finished' = [finished EXCEPT ![j] = FALSE]
         /\ \/ UNCHANGED <<pid, started, garbled>>
            \/ garbled' = garbled \cup {j}
         /\ UNCHANGED <<child, now, level, quantum_end>>
  BY DEF MLFQRead
<1>2. UNCHANGED <<pid, started>>
  BY <1>1 DEF WellBehaved
<1>3. /\ pc = "input" /\ pc' = pc /\ j = arrived + 1 /\ arrived' = j /\ arrived \in Nat
      /\ arrivalTime' = [arrivalTime EXCEPT ![j] = now] /\ UNCHANGED <<row, cur>>
  BY <1>0, <1>1 DEF ReadLine, FieldsTyped
<1>4. \A x : Waits(x)' => Waits(x) \/ x = j
  <2>1. Reads
    <3>1. arrived' # arrived
      BY <1>3
    <3>. QED  BY <3>1, StepKinds DEF Pops, Runs, Records, Returns, Boosts, Rests
  <2>. QED  BY <1>3, <2>1, ReadsKeeps
<1>5. j \notin Submitted /\ Submitted \subseteq Submitted' /\ ~Waits(j) /\ row[j] = <<>>
  <2>1. j \notin Submitted /\ Submitted \subseteq Submitted' /\ j > arrived
    BY <1>3 DEF Submitted
  <2>. QED  BY <1>0, <2>1 DEF Apart
<1>6. ~started[j] /\ child[j] = "none" /\ ~finished[j]
  BY <1>5 DEF Tracked
<1>7. UNCHANGED finished
  BY <1>0, <1>1, <1>6 DEF FeedbackTyped
<1>8. Tracked'
  BY <1>1, <1>2, <1>3, <1>4, <1>5, <1>6, <1>7 DEF Tracked
<1>9. Covered'
  <2>1. ~Working'
    BY <1>3 DEF Working, SJFPlaces, MLFQPlaces
  <2>2. burstTime'[j] = 0 /\ arrivalTime'[j] = now
    BY <1>0, <1>1, <1>3 DEF FieldsTyped
  <2>3. \A x \in Jobs : x # j => burstTime'[x] = burstTime[x] /\ arrivalTime'[x] = arrivalTime[x]
    BY <1>0, <1>1, <1>3 DEF FieldsTyped
  <2>4. now \in Nat /\ 0 + now <= now
    BY <1>0 DEF ChildTyped
  <2>5. ASSUME NEW x \in Jobs, Waits(x)' PROVE burstTime'[x] + arrivalTime'[x] <= now'
    <3>1. CASE x = j
      BY <1>1, <2>2, <2>4, <3>1
    <3>2. CASE x # j
      <4>1. Waits(x)  BY <1>4, <2>5, <3>2
      <4>. QED  BY <1>1, <2>3, <3>2, <4>1 DEF Covered
    <3>. QED  BY <3>1, <3>2
  <2>6. pc' \notin {"stop", "account"}
    BY <1>3
  <2>. QED  BY <2>1, <2>5, <2>6 DEF Covered
<1>. QED  BY <1>3, <1>8, <1>9 DEF TimesRecorded

(* A process that is popped has been charged for no longer than it has been*)
(* there.                                                                  *)
LEMMA GoodMLFQPop ==
    ASSUME State, Tracked, Covered, TimesRecorded, MLFQPop, [Next]_vars,
           scheduler = "MultiLevelFeedbackQueue", priorityQueue' = priorityQueue
    PROVE  Tracked' /\ Covered' /\ TimesRecorded'
<1>0. ChildTyped /\ FieldsTyped /\ FeedbackTyped /\ Apart
  BY DEF State, Typed
<1>1. /\ pc = "input" /\ pc' = "dispatch" /\ startTime' = [startTime EXCEPT ![cur'] = now]
      /\ quantum_end' = now + Quantum[level'] /\ level' \in Levels
      /\ UNCHANGED <<child, pid, now, arrived, arrivalTime, burstTime, row, started, finished>>
  BY DEF MLFQPop, Goto, childVars
<1>2. Pops
  <2>1. ~Working /\ Working'
    BY <1>1 DEF Working, SJFPlaces, MLFQPlaces
  <2>. QED  BY <1>1, <2>1, StepKinds DEF Reads, ReadLine, Runs, Records, Returns, Boosts, Rests
<1>3. cur' \in Jobs /\ Waits(cur') /\ \A x : Waits(x)' <=> Waits(x) /\ x # cur'
  BY <1>2, PopsKeeps
<1>4. Tracked'
  <2>1. Submitted' = Submitted
    BY <1>1 DEF Submitted
  <2>. QED  BY <1>1, <1>3, <2>1 DEF Tracked
<1>5. Covered'
  <2>1. startTime'[cur'] = now
    BY <1>0, <1>1, <1>3 DEF FieldsTyped
  <2>2. burstTime[cur'] + arrivalTime[cur'] <= now
    BY <1>3 DEF Covered
  <2>. QED  BY <1>1, <1>3, <2>1, <2>2 DEF Covered
<1>. QED  BY <1>1, <1>4, <1>5 DEF TimesRecorded

(* The steps of a slice leave the queues and all times alone.              *)
InSlice ==
    /\ Working /\ Working' /\ now' >= now /\ ChildTyped'
    /\ UNCHANGED <<arrived, arrivalTime, startTime, burstTime, row, cur, queue, priorityQueue,
                   level, quantum_end, failures, garbled>>

(* So what has been charged stays covered.                                 *)
LEMMA SliceCovered ==
    ASSUME State, Covered, TimesRecorded, InSlice,
           pc' \in {"stop", "account"} /\ ~finished'[cur] => now' >= quantum_end
    PROVE  Covered' /\ TimesRecorded' /\ \A x : Waits(x)' <=> Waits(x)
<1>0. /\ now \in Nat /\ now' \in Nat /\ cur \in Jobs /\ burstTime \in [Jobs -> Nat]
      /\ arrivalTime \in [Jobs -> Nat]
  BY DEF State, Typed, ChildTyped, FieldsTyped, InSlice
<1>1. \A x : Waits(x)' <=> Waits(x)
  BY DEF Waits, InSlice
<1>2. \A j \in Jobs : Waits(j)' => burstTime[j] + arrivalTime[j] <= now'
  <2>. SUFFICES ASSUME NEW j \in Jobs, Waits(j)' PROVE burstTime[j] + arrivalTime[j] <= now'
    OBVIOUS
  <2>1. burstTime[j] + arrivalTime[j] <= now
    BY <1>1 DEF Covered
  <2>2. burstTime[j] \in Nat /\ arrivalTime[j] \in Nat
    BY <1>0
  <2>. QED  BY <1>0, <2>1, <2>2 DEF InSlice
<1>. QED  BY <1>1, <1>2 DEF Covered, TimesRecorded, InSlice

(* A first slice forks the child of the process; a later one finds it.     *)
LEMMA GoodMLFQDispatch ==
    ASSUME State, Tracked, Covered, TimesRecorded, MLFQDispatch, UNCHANGED <<failures, priorityQueue>>
    PROVE  Tracked' /\ Covered' /\ TimesRecorded'
<1>0. /\ ChildTyped /\ FieldsTyped /\ FeedbackTyped /\ Apart /\ cur \in Jobs /\ failures \in Nat
      /\ 0 \notin Jobs
  BY DEF State, Typed, FieldsTyped, ChildTyped, Jobs
<1>1. /\ pc = "dispatch" /\ Working
      /\ UNCHANGED <<arrived, command, arrivalTime, startTime, burstTime, row, cur, queue, finished,
                     level, quantum_end, garbled>>
  BY DEF MLFQDispatch, Goto, Working, MLFQPlaces
<1>2. ~finished[cur] /\ cur \in Submitted /\ row[cur] = <<>> /\ ~Waits(cur)
  BY <1>0, <1>1 DEF Tracked, Apart
<1>3. CASE ~started[cur] /\ started' = [started EXCEPT ![cur] = TRUE]
           /\ pc' = "poll" /\ Fork(cur)
  <2>1. /\ child' = [child EXCEPT ![cur] = "running"] /\ pid' = [pid EXCEPT ![cur] = cur]
        /\ UNCHANGED now
    BY <1>3 DEF Fork
  <2>2. /\ child'[cur] = "running" /\ pid'[cur] = cur /\ started'[cur] = TRUE
        /\ \A j \in Jobs : j # cur =>
              child'[j] = child[j] /\ pid'[j] = pid[j] /\ started'[j] = started[j]
    BY <1>0, <1>3, <2>1 DEF ChildTyped, FeedbackTyped
  <2>3. InSlice
    <3>1. ClockMoves
      BY <1>0, <1>3, ForkMoves
    <3>. QED  BY <1>1, <1>3, <3>1 DEF InSlice, ClockMoves, Working, MLFQPlaces
  <2>4. Covered' /\ TimesRecorded' /\ \A x : Waits(x)' <=> Waits(x)
    BY <1>3, <2>3, SliceCovered
  <2>5. Tracked'
    <3>1. Submitted' = Submitted
      BY <1>1 DEF Submitted
    <3>. QED  BY <1>1, <1>2, <1>3, <2>2, <2>4, <3>1 DEF Tracked
  <2>. QED  BY <2>4, <2>5
<1>4. CASE started[cur] /\ UNCHANGED started
           /\ pc' = "poll" /\ Continue(pid[cur])
  <2>1. /\ child' = [j \in Jobs |-> IF j \in Targets(pid[cur]) /\ child[j] = "stopped"
                                    THEN "running" ELSE child[j]]
        /\ UNCHANGED <<now, pid>>
    BY <1>4 DEF Continue, Signal
  <2>2. \A j \in Jobs : /\ child'[j] = "none" <=> child[j] = "none"
                        /\ child'[j] = "reaped" <=> child[j] = "reaped"
    BY <2>1
  <2>3. InSlice
    <3>1. ClockMoves
      BY <1>0, <1>4, SignalMoves
    <3>. QED  BY <1>1, <1>4, <3>1 DEF InSlice, ClockMoves, Working, MLFQPlaces
  <2>4. Covered' /\ TimesRecorded' /\ \A x : Waits(x)' <=> Waits(x)
    BY <1>4, <2>3, SliceCovered
  <2>5. Tracked'
    <3>1. Submitted' = Submitted
      BY <1>1 DEF Submitted
    <3>. QED  BY <1>1, <1>2, <1>4, <2>1, <2>2, <2>4, <3>1 DEF Tracked
  <2>. QED  BY <2>4, <2>5
<1>5. ~ForkFails
  BY <1>0 DEF ForkFails
<1>6. started[cur] => Exists(pid[cur])
  <2>1. SUFFICES ASSUME started[cur] PROVE cur \in Targets(pid[cur])
    BY DEF Exists
  <2>2. pid[cur] = cur /\ child[cur] # "none" /\ child[cur] # "reaped"
    BY <1>0, <1>2, <2>1 DEF Tracked
  <2>. QED  BY <1>0, <2>2 DEF Targets, ChildTyped
<1>. QED  BY <1>3, <1>4, <1>5, <1>6 DEF MLFQDispatch, Goto

(* waitpid finds the own child of the process, or it has been reaped.      *)
LEMMA GoneReaps ==
    ASSUME State, Tracked, started[cur], Gone
    PROVE  /\ child' = [child EXCEPT ![cur] = "reaped"] /\ finished' = [finished EXCEPT ![cur] = TRUE]
           /\ UNCHANGED <<now, pid, failures>>
<1>0. ChildTyped /\ cur \in Jobs /\ 0 \notin Jobs
  BY DEF State, Typed, FieldsTyped, Jobs
<1>1. pid[cur] = cur /\ cur # 0 /\ child[cur] # "none"
  BY <1>0 DEF Tracked
<1>2. \A j \in Targets(pid[cur]) : j = cur
  BY <1>1 DEF Targets
<1>3. CASE \E j \in Zombies(pid[cur]) : Reap(j)
  <2>1. Reap(cur)
    BY <1>2, <1>3 DEF Zombies
  <2>. QED  BY <2>1 DEF Reap, Gone
<1>4. CASE Targets(pid[cur]) = {} /\ UNCHANGED childVars
  <2>1. child[cur] = "reaped"
    BY <1>0, <1>1, <1>4 DEF Targets, ChildTyped
  <2>2. child = [child EXCEPT ![cur] = "reaped"]
    BY <1>0, <2>1 DEF ChildTyped
  <2>. QED  BY <1>4, <2>2 DEF Gone, childVars
<1>. QED  BY <1>3, <1>4 DEF Gone

(* A slice goes on, or ends with the process waited for.                   *)
LEMMA GoneTracked ==
    ASSUME State, Tracked, InSlice, started[cur], Gone, UNCHANGED <<started, arrived>>,
           pc' \in {"recheck", "stop"}, \A x : Waits(x)' <=> Waits(x)
    PROVE  Tracked' /\ finished'[cur] = TRUE
<1>0. ChildTyped /\ FeedbackTyped /\ cur \in Jobs /\ Apart
  BY DEF State, Typed, FieldsTyped
<1>1. /\ child' = [child EXCEPT ![cur] = "reaped"] /\ finished' = [finished EXCEPT ![cur] = TRUE]
      /\ UNCHANGED <<pid, row, cur>>
  BY GoneReaps DEF InSlice
<1>2. /\ child'[cur] = "reaped" /\ finished'[cur] = TRUE
      /\ \A j \in Jobs : j # cur => child'[j] = child[j] /\ finished'[j] = finished[j]
  BY <1>0, <1>1 DEF ChildTyped, FeedbackTyped
<1>3. ~Waits(cur) /\ Submitted' = Submitted
  BY <1>0 DEF Apart, InSlice, Submitted
<1>. QED  BY <1>1, <1>2, <1>3 DEF Tracked

(* While a slice lasts, the child is watched until it is gone.             *)
LEMMA GoodMLFQPoll ==
    ASSUME State, Tracked, Covered, TimesRecorded, MLFQPoll, UNCHANGED <<failures, priorityQueue>>
    PROVE  Tracked' /\ Covered' /\ TimesRecorded'
<1>0. ChildTyped /\ FieldsTyped /\ FeedbackTyped /\ Apart /\ cur \in Jobs
  BY DEF State, Typed, FieldsTyped
<1>1. /\ pc = "poll" /\ Working /\ started[cur] /\ ~finished[cur]
      /\ UNCHANGED <<arrived, arrivalTime, startTime, burstTime, row, cur, queue, started, level,
                     quantum_end, garbled>>
  BY DEF MLFQPoll, Working, MLFQPlaces, Tracked, fields
<1>2. CASE StillThere /\ Sleep(1) /\ UNCHANGED <<pc, finished>>
  <2>1. ClockMoves
    BY <1>0, <1>2, SleepMoves
  <2>2. InSlice
    BY <1>1, <1>2, <2>1 DEF InSlice, ClockMoves, Working
  <2>3. pc' = "poll"
    BY <1>1, <1>2
  <2>4. Covered' /\ TimesRecorded' /\ \A x : Waits(x)' <=> Waits(x)
    BY <2>2, <2>3, SliceCovered
  <2>5. PICK e \in Int :
           /\ child' = [j \in Jobs |-> IF child[j] = "running" /\ left[j] <= e
                                       THEN "zombie" ELSE child[j]]
           /\ UNCHANGED pid
    BY <1>2, ChildrenAssumption DEF Sleep
  <2>6. \A j \in Jobs : /\ child'[j] = "none" <=> child[j] = "none"
                        /\ child'[j] = "reaped" <=> child[j] = "reaped"
    BY <2>5
  <2>7. Submitted' = Submitted
    BY <1>1 DEF Submitted
  <2>. QED  BY <1>1, <1>2, <2>3, <2>4, <2>5, <2>6, <2>7 DEF Tracked
<1>3. CASE pc' = "recheck" /\ Gone
  <2>1. child' = [child EXCEPT ![cur] = "reaped"] /\ UNCHANGED <<now, pid>>
    BY <1>1, <1>3, GoneReaps
  <2>2. InSlice
    <3>1. ChildTyped'
      <4>1. ClockMoves
        <5>1. CASE \E j \in Zombies(pid[cur]) : Reap(j)
          <6>1. PICK j \in Jobs : Reap(j)
            BY <5>1 DEF Zombies, Targets
          <6>. QED  BY <1>0, <6>1, ReapMoves
        <5>2. CASE UNCHANGED childVars
          BY <1>0, <5>2, StillMoves
        <5>. QED  BY <1>3, <5>1, <5>2 DEF Gone
      <4>. QED  BY <4>1 DEF ClockMoves
    <3>2. now' >= now
      BY <1>0, <2>1 DEF ChildTyped
    <3>. QED  BY <1>1, <1>3, <2>1, <3>1, <3>2 DEF InSlice, Working, MLFQPlaces
  <2>3. Covered' /\ TimesRecorded' /\ \A x : Waits(x)' <=> Waits(x)
    BY <1>3, <2>2, SliceCovered
  <2>4. Tracked'
    BY <1>1, <1>3, <2>2, <2>3, GoneTracked
  <2>. QED  BY <2>3, <2>4
<1>. QED  BY <1>2, <1>3 DEF MLFQPoll

(* At the end of a slice the child has been waited for, or the quantum is  *)
(* over and the child is stopped.                                          *)
LEMMA GoodEndSlice ==
    ASSUME State, Tracked, Covered, TimesRecorded, EndSlice, UNCHANGED <<failures, priorityQueue>>
    PROVE  Tracked' /\ Covered' /\ TimesRecorded'
<1>0. ChildTyped /\ FieldsTyped /\ FeedbackTyped /\ Apart /\ cur \in Jobs /\ 0 \notin Jobs
  BY DEF State, Typed, FieldsTyped, Jobs
<1>1. /\ pc \in {"poll", "recheck", "stop"} /\ Working /\ started[cur]
      /\ UNCHANGED <<arrived, arrivalTime, startTime, burstTime, row, cur, queue, started, level,
                     quantum_end, garbled>>
  BY DEF EndSlice, StopSlice, Goto, Working, MLFQPlaces, Tracked, fields
<1>2. Submitted' = Submitted
  BY <1>1 DEF Submitted
<1>3. CASE (pc = "recheck" \/ (pc = "poll" /\ now >= quantum_end)) /\ pc' = "stop" /\ Gone
  <2>1. child' = [child EXCEPT ![cur] = "reaped"] /\ UNCHANGED <<now, pid>>
    BY <1>1, <1>3, GoneReaps
  <2>2. ChildTyped'
    BY <1>0, <1>3, <2>1 DEF ChildTyped, Gone, Reap, childVars
  <2>3. now' >= now
    BY <1>0, <2>1 DEF ChildTyped
  <2>4. InSlice
    BY <1>1, <1>3, <2>2, <2>3 DEF InSlice, Working, MLFQPlaces
  <2>5. finished'[cur] = TRUE
    BY <1>0, <1>1, <1>3, GoneReaps DEF FeedbackTyped
  <2>6. Covered' /\ TimesRecorded' /\ \A x : Waits(x)' <=> Waits(x)
    BY <1>3, <2>4, <2>5, SliceCovered
  <2>7. Tracked'
    BY <1>1, <1>3, <2>4, <2>6, GoneTracked
  <2>. QED  BY <2>6, <2>7
<1>4. CASE /\ (pc = "recheck" \/ (pc = "poll" /\ now >= quantum_end)) /\ pc' = "stop"
           /\ UNCHANGED <<childVars, finished>>
  <2>1. UNCHANGED <<child, pid, now>>
    BY <1>4 DEF childVars
  <2>2. InSlice
    <3>1. ClockMoves
      BY <1>0, <1>4, StillMoves
    <3>. QED  BY <1>1, <1>4, <3>1 DEF InSlice, ClockMoves, Working, MLFQPlaces
  <2>3. ~finished'[cur] => now' >= quantum_end
    BY <1>4, <2>1 DEF Tracked
  <2>4. Covered' /\ TimesRecorded' /\ \A x : Waits(x)' <=> Waits(x)
    BY <2>2, <2>3, SliceCovered
  <2>. QED  BY <1>1, <1>2, <1>4, <2>1, <2>4 DEF Tracked
<1>5. CASE pc = "stop" /\ StopSlice /\ UNCHANGED finished
  <2>1. pid[cur] = cur /\ pid[cur] # 0
    BY <1>0, <1>1 DEF Tracked
  <2>2. pc' = "account" /\ (UNCHANGED childVars \/ Stop(pid[cur]) \/ EndsUnstopped(pid[cur]))
    BY <1>5, <2>1 DEF StopSlice, Goto
  <2>3. ClockMoves
    BY <1>0, <2>2, SignalMoves, UnstoppedMoves, StillMoves
  <2>4. InSlice
    BY <1>1, <2>2, <2>3 DEF InSlice, ClockMoves, Working, MLFQPlaces
  <2>5. /\ UNCHANGED <<now, pid>>
        /\ \A j \in Jobs : /\ child'[j] = "none" <=> child[j] = "none"
                           /\ child'[j] = "reaped" <=> child[j] = "reaped"
    <3>1. CASE UNCHANGED childVars \/ Stop(pid[cur])
      BY <2>2, <3>1 DEF Stop, Signal, childVars
    <3>2. CASE EndsUnstopped(pid[cur])
      <4>1. PICK k \in Jobs : /\ child[k] = "running" /\ child' = [child EXCEPT ![k] = "zombie"]
                              /\ UNCHANGED <<now, pid>>
        BY <3>2 DEF EndsUnstopped, Targets
      <4>. QED  BY <1>0, <4>1 DEF ChildTyped
    <3>. QED  BY <2>2, <3>1, <3>2
  <2>6. ~finished'[cur] => now' >= quantum_end
    BY <1>5, <2>5 DEF Covered
  <2>7. Covered' /\ TimesRecorded' /\ \A x : Waits(x)' <=> Waits(x)
    BY <2>4, <2>6, SliceCovered
  <2>. QED  BY <1>1, <1>2, <1>5, <2>2, <2>5, <2>7 DEF Tracked
<1>. QED  BY <1>3, <1>4, <1>5 DEF EndSlice, Recheck, StopSlice, Goto

(* What is charged, be it the length of the slice or a quantum, is covered *)
(* by the time that has passed.                                            *)
LEMMA GoodMLFQAccount ==
    ASSUME State, Tracked, Covered, TimesRecorded, MLFQAccount, [Next]_vars,
           scheduler = "MultiLevelFeedbackQueue"
    PROVE  Tracked' /\ Covered' /\ TimesRecorded'
<1>0. ChildTyped /\ FieldsTyped /\ FeedbackTyped /\ Apart /\ cur \in Jobs
  BY DEF State, Typed, FieldsTyped
<1>1. /\ pc = "account" /\ pc' = "boost" /\ burstTime' = [burstTime EXCEPT ![cur] = Charge]
      /\ UNCHANGED <<child, pid, now, arrived, arrivalTime, startTime, cur, started, finished,
                     level, quantum_end>>
  BY DEF MLFQAccount, Goto, childVars
<1>2. Working /\ ~Working' /\ Submitted' = Submitted
  BY <1>1 DEF Working, SJFPlaces, MLFQPlaces, Submitted
<1>3. row[cur] = <<>> /\ ~Waits(cur) /\ started[cur]
  BY <1>0, <1>1, <1>2 DEF Apart, Tracked
<1>4. /\ now \in Nat /\ startTime[cur] \in Nat /\ arrivalTime[cur] \in Nat /\ burstTime[cur] \in Nat
      /\ startTime[cur] <= now /\ Quantum[level] \in Nat
      /\ burstTime[cur] + arrivalTime[cur] <= startTime[cur]
      /\ quantum_end = startTime[cur] + Quantum[level]
  BY <1>0, <1>2, QuantumTyped DEF ChildTyped, FieldsTyped, FeedbackTyped, Covered
<1>5. burstTime'[cur] = Charge /\ \A j \in Jobs : j # cur => burstTime'[j] = burstTime[j]
  BY <1>0, <1>1 DEF FieldsTyped
<1>6. CASE finished[cur]
  <2>1. row' = [row EXCEPT ![cur] = [turnaround |-> now - arrivalTime[cur],
                                     burst |-> burstTime'[cur], error |-> error[cur]]]
    BY <1>6 DEF MLFQAccount
  <2>2. /\ row'[cur].burst = burstTime'[cur] /\ row'[cur].turnaround = now - arrivalTime[cur]
        /\ row'[cur] # <<>> /\ \A j \in Jobs : j # cur => row'[j] = row[j]
    BY <1>0, <2>1, Recorded DEF FieldsTyped
  <2>3. \A x : Waits(x)' <=> Waits(x)
    <3>1. UNCHANGED <<queue, priorityQueue>>
      <4>1. Records
        BY <1>2, <1>3, <2>2, StepKinds DEF Reads, ReadLine, Pops, Runs, Returns, Boosts, Rests, Working
      <4>. QED  BY <4>1 DEF Records, mlfqVars
    <3>. QED  BY <3>1 DEF Waits
  <2>4. burstTime'[cur] <= now - arrivalTime[cur]
    <3>1. burstTime'[cur] = burstTime[cur] + (now - startTime[cur])
      BY <1>5, <1>6 DEF Charge
    <3>. QED  BY <1>4, <3>1
  <2>5. TimesRecorded'
    BY <2>2, <2>4 DEF TimesRecorded
  <2>6. Tracked'
    BY <1>1, <1>2, <1>6, <2>2, <2>3 DEF Tracked
  <2>7. Covered'
    BY <1>1, <1>2, <1>3, <1>5, <2>3 DEF Covered
  <2>. QED  BY <2>5, <2>6, <2>7
<1>7. CASE ~finished[cur]
  <2>1. row' = row
    BY <1>7 DEF MLFQAccount
  <2>2. \A x : Waits(x)' => Waits(x) \/ x = cur
    <3>1. Returns
      <4>1. ~Records
        <5>1. SUFFICES ASSUME Records PROVE FALSE
          OBVIOUS
        <5>2. row'[cur] # <<>>
          BY <5>1, RecordsKeeps
        <5>. QED  BY <1>3, <2>1, <5>2
      <4>. QED  BY <1>1, <1>2, <4>1, StepKinds DEF Reads, ReadLine, Pops, Runs, Boosts, Rests
    <3>. QED  BY <3>1, ReturnsKeeps
  <2>3. burstTime'[cur] + arrivalTime[cur] <= now
    <3>1. now >= quantum_end
      BY <1>1, <1>7 DEF Covered
    <3>2. Charge <= burstTime[cur] + Quantum[level]
      <4>. DEFINE a == burstTime[cur] + Quantum[level]
                  b == (N + 1) * MaxNeed + quantum2
      <4>1. a \in Int /\ b \in Int
        BY <1>4, ChildrenAssumption, OnlineMLFQAssumption
      <4>. HIDE DEF a, b
      <4>2. \E x \in {a, b} : \A y \in {a, b} : x <= y
        BY <4>1
      <4>3. Min({a, b}) <= a
        BY <4>2 DEF Min
      <4>. QED  BY <1>7, <4>3 DEF Charge, a, b
    <3>3. Charge \in Int
      <4>1. State' /\ cur \in Jobs
        BY <1>0, StepKinds, ReadsKeeps, PopsKeeps, RunsKeeps, RecordsKeeps, ReturnsKeeps,
           BoostsKeeps, RestsKeeps
      <4>2. burstTime' \in [Jobs -> Nat]
        BY <4>1 DEF State, Typed, FieldsTyped
      <4>. QED  BY <1>5, <4>1, <4>2
    <3>. QED  BY <1>4, <1>5, <3>1, <3>2, <3>3
  <2>4. Tracked'
    BY <1>1, <1>2, <1>7, <2>1, <2>2 DEF Tracked
  <2>5. Covered'
    BY <1>1, <1>2, <1>5, <2>2, <2>3 DEF Covered
  <2>. QED  BY <2>1, <2>4, <2>5 DEF TimesRecorded
<1>. QED  BY <1>6, <1>7

(* The boost changes no process.                                           *)
LEMMA GoodMLFQBoost ==
    ASSUME State, Tracked, Covered, TimesRecorded, MLFQBoost, [Next]_vars
    PROVE  Tracked' /\ Covered' /\ TimesRecorded'
<1>1. /\ pc = "boost" /\ pc' = "input"
      /\ UNCHANGED <<child, pid, now, arrived, arrivalTime, startTime, burstTime, row, cur, started,
                     finished, level, quantum_end>>
  BY DEF MLFQBoost, Goto, childVars, fields
<1>2. ~Working /\ ~Working' /\ Submitted' = Submitted
  BY <1>1 DEF Working, SJFPlaces, MLFQPlaces, Submitted
<1>3. \A x : Waits(x)' <=> Waits(x)
  <2>1. Boosts \/ Rests
    BY <1>1, <1>2, StepKinds DEF Reads, ReadLine, Pops, Runs, Records, Returns
  <2>. QED  BY <2>1, BoostsKeeps, RestsKeeps
<1>. QED  BY <1>1, <1>2, <1>3 DEF Tracked, Covered, TimesRecorded

(* So every step of a well-behaved program keeps all this.                 *)
LEMMA GoodStep == State /\ Good /\ [Next]_vars => Good'
<1>. SUFFICES ASSUME State, Good, [Next]_vars, WellBehaved'
              PROVE  /\ TimesRecorded' /\ scheduler' = scheduler
                     /\ scheduler = "ShortestJobFirst" => SJFTracked'
                     /\ scheduler = "MultiLevelFeedbackQueue" => Tracked' /\ Covered'
  BY DEF Good
<1>0. /\ UNCHANGED <<failures, garbled>> /\ scheduler' = scheduler /\ TimesRecorded
      /\ scheduler = "ShortestJobFirst" => SJFTracked
      /\ scheduler = "MultiLevelFeedbackQueue" => Tracked /\ Covered
  BY BehavedBefore DEF Good, Next, Read, Work, Exit, Idle, vars
<1>1. CASE scheduler = "ShortestJobFirst" /\ (SJFRead \/ SJFWork)
  BY <1>0, <1>1, GoodSJF
<1>2. CASE /\ scheduler = "MultiLevelFeedbackQueue" /\ (MLFQRead \/ MLFQWork)
           /\ UNCHANGED priorityQueue
  BY <1>0, <1>2, GoodMLFQRead, GoodMLFQPop, GoodMLFQDispatch, GoodMLFQPoll, GoodEndSlice,
     GoodMLFQAccount, GoodMLFQBoost DEF MLFQWork
<1>3. CASE /\ UNCHANGED <<childVars, arrived, fields, history, row, cur, priorityQueue, mlfqVars>>
           /\ pc' = pc \/ (pc = "input" /\ pc' = "exited")
  <2>1. UNCHANGED <<child, pid, now, arrived, command, arrivalTime, startTime, burstTime, row, cur,
                    priorityQueue, queue, started, finished, level, quantum_end>>
    BY <1>3 DEF childVars, fields, mlfqVars
  <2>2. \A x : Waits(x)' <=> Waits(x)
    BY <2>1 DEF Waits
  <2>3. Submitted' = Submitted /\ (Working' => Working)
    BY <1>3, <2>1 DEF Submitted, Working, SJFPlaces, MLFQPlaces
  <2>4. TimesRecorded'
    BY <1>0, <2>1 DEF TimesRecorded
  <2>5. SJFTracked => SJFTracked'
    BY <1>3, <2>1, <2>3 DEF SJFTracked
  <2>6. Tracked => Tracked'
    BY <1>3, <2>1, <2>2, <2>3 DEF Tracked
  <2>7. Covered => Covered'
    BY <1>3, <2>1, <2>2, <2>3 DEF Covered
  <2>. QED  BY <1>0, <2>4, <2>5, <2>6, <2>7
<1>4. CASE Read
  BY <1>1, <1>2, <1>4, <1>0 DEF Read, State, Typed, ControlTyped
<1>5. CASE Work
  BY <1>1, <1>2, <1>5, <1>0 DEF Work
<1>6. CASE Exit
  BY <1>3, <1>6 DEF Exit, ReadExit, Goto
<1>7. CASE UNCHANGED vars
  BY <1>3, <1>7 DEF vars, onlineVars
<1>. QED  BY <1>4, <1>5, <1>6, <1>7 DEF Next, Idle

-----------------------------------------------------------------------------
(* The finer types imply the type invariant.                               *)
LEMMA TypeOKFromState == State => TypeOK
<1>. SUFFICES ASSUME State PROVE TypeOK
  OBVIOUS
<1>0. ChildTyped /\ FieldsTyped /\ HistoryTyped /\ FeedbackTyped /\ ControlTyped /\ Apart
  BY DEF State, Typed
<1>1. OnlineTypeOK
  <2>1. \A j \in Jobs : arrivalTime[j] \in 0 .. now /\ startTime[j] \in 0 .. now
    BY <1>0 DEF FieldsTyped, ChildTyped
  <2>. QED  BY <1>0, <2>1 DEF OnlineTypeOK, FieldsTyped, HistoryTyped
<1>2. ASSUME NEW s \in Seq(Jobs), \A x \in ToSet(s) : Waits(x) PROVE s \in Seq(Submitted)
  <2>1. /\ Len(s) \in Nat /\ DOMAIN s = 1 .. Len(s)
        /\ \A a \in 1 .. Len(s) : s[a] \in Jobs /\ s[a] \in ToSet(s)
    BY Elements
  <2>2. \A a \in 1 .. Len(s) : s[a] \in Submitted
    BY <1>0, <1>2, <2>1 DEF Apart
  <2>3. s \in [1 .. Len(s) -> Submitted]
    BY <2>1, <2>2, LenProperties
  <2>. QED  BY <2>1, <2>3, SeqDef
<1>3. priorityQueue \in Seq(Submitted)
  BY <1>0, <1>2 DEF ControlTyped, Waits
<1>4. queue \in [Levels -> Seq(Submitted)]
  <2>1. \A k \in Levels : queue[k] \in Seq(Submitted)
    <3>1. \A k \in Levels : queue[k] \in Seq(Jobs) /\ \A x \in ToSet(queue[k]) : Waits(x)
      BY <1>0 DEF FeedbackTyped, Waits, InQueues
    <3>. QED  BY <1>2, <3>1
  <2>. QED  BY <1>0, <2>1 DEF FeedbackTyped
<1>5. MLFQTypeOK
  BY <1>0, <1>4 DEF MLFQTypeOK, FeedbackTyped, ChildTyped
<1>6. pc \in {"input", "fork", "wait", "dispatch", "poll", "recheck", "stop", "account", "boost",
              "exited", "halted"}
  BY <1>0 DEF ControlTyped, SJFPlaces, MLFQPlaces
<1>. QED  BY <1>1, <1>3, <1>5, <1>6 DEF TypeOK

(* The history is sound; and as long as no fork has failed and no process  *)
(* had garbage in it, no recorded waiting time wraps.                      *)
THEOREM OnlineInvariant == Spec => []Inv
<1>1. State /\ Good => TypeOK /\ OnlineWaitingTime
  <2>. SUFFICES ASSUME State, Good PROVE OnlineWaitingTime
    BY TypeOKFromState
  <2>1. Submitted \subseteq Jobs
    BY ChildrenAssumption DEF State, Typed, FieldsTyped, Submitted, Jobs
  <2>. QED  BY <2>1 DEF Good, TimesRecorded, OnlineWaitingTime
<1>2. TypeOK /\ OnlineWaitingTime /\ HistorySound => Inv
  BY DEF Inv
<1>. QED  BY <1>1, <1>2, OnlineState, OnlineHistory, GoodInit, GoodStep, PTL DEF Spec

(* With room for all, as long as no fork has failed and no process had     *)
(* garbage in it, what has arrived is in exactly one queue or with the     *)
(* processor until it is recorded, and then its own child was waited for.  *)
THEOREM OnlineNothingForgotten == ASSUME N <= MAX_QUEUE_SIZE PROVE Spec => []NothingForgotten
<1>1. State /\ Good /\ Kept => NothingForgotten
  <2>. SUFFICES ASSUME State, Good, Kept, WellBehaved, NEW j \in Submitted
                PROVE  LET running == cur = j /\ pc \notin {"input", "boost", "exited"}
                       IN  IF row[j] = <<>> THEN running # Queued(j)
                           ELSE ~running /\ ~Queued(j) /\ child[j] = "reaped"
    BY DEF NothingForgotten
  <2>0. FieldsTyped /\ ControlTyped /\ Apart /\ j \in Jobs
    <3>1. FieldsTyped /\ ControlTyped /\ Apart
      BY DEF State, Typed
    <3>2. arrived \in 0 .. N
      BY <3>1 DEF FieldsTyped
    <3>. QED  BY <3>1, <3>2, ChildrenAssumption DEF Submitted, Jobs
  <2>1. Queued(j) <=> Waits(j)
    <3>1. Levels = {0, 1, 2}  BY DEF Levels
    <3>. QED  BY <3>1, Zenon DEF Queued, Waits, InQueues
  <2>2. pc \notin {"input", "boost", "exited"} <=> Working
    BY <2>0 DEF ControlTyped, Working, SJFPlaces, MLFQPlaces
  <2>3. row[j] = <<>> => Waits(j) \/ (Working /\ cur = j)
    BY DEF Kept
  <2>4. Working /\ cur = j => row[j] = <<>> /\ ~Waits(j)
    BY <2>0 DEF Apart
  <2>5. Waits(j) => row[j] = <<>>
    BY <2>0 DEF Apart
  <2>6. row[j] # <<>> => child[j] = "reaped"
    BY <2>0 DEF Good, SJFTracked, Tracked, ControlTyped
  <2>7. Queued(j) \in BOOLEAN
    BY DEF Queued
  <2>. QED  BY <2>1, <2>2, <2>3, <2>4, <2>5, <2>6, <2>7
<1>2. State /\ Kept /\ [Next]_vars => Kept'
  BY KeptStep
<1>. QED  BY <1>1, <1>2, OnlineState, KeptInit, GoodInit, GoodStep, PTL DEF Spec
==============================================================================
