---------------------------- MODULE AllocatorProofs --------------------------
(***************************************************************************)
(* Proofs about the allocator: for any sizes of page, header, size_t and   *)
(* address space, any requests, and wherever mmap finds its pages.         *)
(***************************************************************************)
EXTENDS Allocator, FiniteSetTheorems, NaturalsInduction, TLAPS

-----------------------------------------------------------------------------
(* What is used of multiples of the page size.                             *)
Multiple(a) == a % page_size = 0

(* A number is its quotient times the divisor and the rest.                *)
LEMMA Division == ASSUME NEW a \in Int, NEW d \in Nat \ {0}
                  PROVE  /\ a \div d \in Int /\ a % d \in 0 .. d - 1
                         /\ a = d * (a \div d) + (a % d)
OBVIOUS

(* And the rest is the one that fits.                                      *)
LEMMA Remainder ==
    ASSUME NEW d \in Nat \ {0}, NEW k \in Int, NEW r \in 0 .. d - 1 PROVE (d * k + r) % d = r
OBVIOUS

(* Sums and differences of multiples are multiples.                        *)
LEMMA MultipleSum == ASSUME NEW a \in Int, NEW b \in Int, Multiple(a), Multiple(b)
                     PROVE  Multiple(a + b) /\ Multiple(a - b)
<1>. DEFINE P == page_size
            x == a \div P
            y == b \div P
<1>0. P \in Nat \ {0} /\ 0 \in 0 .. P - 1
  BY AllocatorAssumption
<1>1. x \in Int /\ y \in Int /\ a = P * x /\ b = P * y
  BY <1>0, Division DEF Multiple
<1>. HIDE DEF x, y, P
<1>2. a + b = P * (x + y) + 0 /\ a - b = P * (x - y) + 0
  BY <1>0, <1>1
<1>3. (a + b) % P = 0 /\ (a - b) % P = 0
  BY <1>0, <1>1, <1>2, Remainder
<1>. QED  BY <1>3 DEF P, Multiple

(* Two multiples are a page apart.                                         *)
LEMMA MultipleGap == ASSUME NEW a \in Int, NEW b \in Int, Multiple(a), Multiple(b), a < b
                     PROVE  a + page_size <= b
<1>. DEFINE P == page_size
            c == b - a
<1>0. P \in Nat \ {0} /\ c \in Int /\ c > 0
  BY AllocatorAssumption
<1>1. c % P = 0
  BY MultipleSum DEF Multiple
<1>. SUFFICES ASSUME c < P PROVE FALSE
  BY <1>0
<1>. HIDE DEF P, c
<1>2. c = P * 0 + c /\ c \in 0 .. P - 1
  BY <1>0
<1>. QED  BY <1>0, <1>1, <1>2, Remainder

(* Rounding yields a multiple, and one with room for the size unless the   *)
(* sum does not fit into size_t.                                           *)
LEMMA Rounding ==
    ASSUME NEW size \in Nat
    PROVE  LET r == round_to_page_size(size)
           IN  /\ r \in Nat /\ Multiple(r) /\ r + page_size <= SIZE_MOD
               /\ size + page_size - 1 < SIZE_MOD => size <= r /\ r < size + page_size
<1>. DEFINE P == page_size
            s == (size + P - 1) % SIZE_MOD
            r == round_to_page_size(size)
            q == s \div P
            m == s % P
<1>0. P \in Nat \ {0} /\ SIZE_MOD \in Nat \ {0} /\ Multiple(SIZE_MOD) /\ 0 \in 0 .. P - 1
  BY AllocatorAssumption DEF Multiple
<1>1. s \in 0 .. SIZE_MOD - 1
  BY <1>0, size + P - 1 \in Int, Division
<1>2. r = s - m
  BY DEF round_to_page_size
<1>3. q \in Int /\ m \in 0 .. P - 1 /\ s = P * q + m
  <2>1. s \in Int
    BY <1>0, <1>1
  <2>. HIDE DEF s, P
  <2>2. s = P * (s \div P) + (s % P) /\ s \div P \in Int /\ s % P \in 0 .. P - 1
    BY <1>0, <2>1, Division
  <2>. QED  BY <2>2, Zenon
<1>4. size + P - 1 < SIZE_MOD => s = size + P - 1
  <2>. SUFFICES ASSUME size + P - 1 < SIZE_MOD PROVE s = size + P - 1
    OBVIOUS
  <2>1. size + P - 1 \in 0 .. SIZE_MOD - 1 /\ size + P - 1 = SIZE_MOD * 0 + (size + P - 1)
    BY <1>0
  <2>2. (SIZE_MOD * 0 + (size + P - 1)) % SIZE_MOD = size + P - 1
    BY <1>0, <2>1, Remainder
  <2>. QED  BY <2>1, <2>2
<1>. HIDE DEF P, s, r, q, m
<1>5. r = P * q + 0 /\ r \in Int
  BY <1>0, <1>2, <1>3
<1>6. r % P = 0
  BY <1>0, <1>3, <1>5, Remainder
<1>7. r > -P
  BY <1>0, <1>1, <1>2, <1>3
<1>8. r >= 0
  <2>1. 0 % P = 0
    BY <1>0, Remainder, P * 0 + 0 = 0
  <2>. SUFFICES ASSUME r < 0 PROVE FALSE
    BY <1>5
  <2>2. r + P <= 0
    BY <1>5, <1>6, <2>1, MultipleGap DEF Multiple, P
  <2>. QED  BY <1>0, <1>5, <1>7, <2>2
<1>9. r + P <= SIZE_MOD
  <2>1. r < SIZE_MOD
    BY <1>0, <1>1, <1>2, <1>3
  <2>2. Multiple(r) /\ SIZE_MOD \in Int
    BY <1>0, <1>6 DEF Multiple, P
  <2>. QED  BY <1>0, <1>5, <2>1, <2>2, MultipleGap DEF P
<1>10. size + P - 1 < SIZE_MOD => size <= r /\ r < size + P
  BY <1>0, <1>1, <1>2, <1>3, <1>4
<1>. QED  BY <1>5, <1>6, <1>8, <1>9, <1>10 DEF P, r, Multiple

-----------------------------------------------------------------------------
(* The n blocks of the list B from b on, in their order.                   *)
Linked(B, b, n, s) ==
    /\ \A x \in 1 .. n : s[x] \in DOMAIN B
    /\ \A h \in DOMAIN B : \E x \in 1 .. n : s[x] = h
    /\ \A x, y \in 1 .. n : s[x] = s[y] => x = y
    /\ b = IF n = 0 THEN NULL ELSE s[1]
    /\ \A x \in 1 .. n : /\ B[s[x]].next = IF x = n THEN NULL ELSE s[x + 1]
                         /\ B[s[x]].prev = IF x = 1 THEN NULL ELSE s[x - 1]

(* C has a new block x behind the k-th of B, and t lists its blocks.       *)
Inserts(B, n, s, k, x, C, t) ==
    /\ k \in 0 .. n /\ (k = 0 => n = 0) /\ x \notin DOMAIN B /\ DOMAIN C = DOMAIN B \cup {x}
    /\ C[x].next = IF k = n THEN NULL ELSE s[k + 1]
    /\ C[x].prev = IF k = 0 THEN NULL ELSE s[k]
    /\ \A j \in 1 .. n : /\ C[s[j]].next = IF j = k THEN x ELSE B[s[j]].next
                         /\ C[s[j]].prev = IF j = k + 1 THEN x ELSE B[s[j]].prev
    /\ t = [j \in 1 .. n + 1 |-> IF j <= k THEN s[j] ELSE IF j = k + 1 THEN x ELSE s[j - 1]]

(* The links of C then lead through t.                                     *)
LEMMA Inserted ==
    ASSUME NEW B, NEW b, NEW n \in Nat, NEW s, Linked(B, b, n, s),
           NEW k, NEW x, NEW C, NEW t, Inserts(B, n, s, k, x, C, t)
    PROVE  Linked(C, IF k = 0 THEN x ELSE b, n + 1, t)
<1>a. /\ k \in 0 .. n /\ (k = 0 => n = 0) /\ x \notin DOMAIN B /\ DOMAIN C = DOMAIN B \cup {x}
      /\ C[x].next = IF k = n THEN NULL ELSE s[k + 1]
      /\ C[x].prev = IF k = 0 THEN NULL ELSE s[k]
      /\ \A j \in 1 .. n : /\ C[s[j]].next = IF j = k THEN x ELSE B[s[j]].next
                           /\ C[s[j]].prev = IF j = k + 1 THEN x ELSE B[s[j]].prev
  BY DEF Inserts
<1>b. t = [j \in 1 .. n + 1 |-> IF j <= k THEN s[j] ELSE IF j = k + 1 THEN x ELSE s[j - 1]]
  BY DEF Inserts
<1>. USE <1>a
<1>1. /\ \A j \in 1 .. k : j \in 1 .. n + 1 /\ j \in 1 .. n /\ t[j] = s[j]
      /\ k + 1 \in 1 .. n + 1 /\ t[k + 1] = x
      /\ \A j \in k + 1 .. n : j + 1 \in 1 .. n + 1 /\ j \in 1 .. n /\ t[j + 1] = s[j]
      /\ \A j \in k + 2 .. n + 1 : j - 1 \in k + 1 .. n /\ j - 1 \in 1 .. n /\ t[j] = s[j - 1]
      /\ \A j \in 1 .. n + 1 : j \in 1 .. k \/ j = k + 1 \/ j \in k + 2 .. n + 1
      /\ \A j \in 1 .. n : j \in 1 .. k \/ j \in k + 1 .. n
  BY <1>b
<1>2. \A j \in 1 .. n + 1 : t[j] \in DOMAIN C
  BY <1>1 DEF Linked
<1>3. ASSUME NEW h \in DOMAIN C PROVE \E j \in 1 .. n + 1 : t[j] = h
  <2>1. CASE h = x
    BY <1>1, <2>1
  <2>2. CASE h # x
    <3>1. PICK j \in 1 .. n : s[j] = h
      BY <2>2 DEF Linked
    <3>. QED  BY <1>1, <3>1
  <2>. QED  BY <2>1, <2>2
<1>4. ASSUME NEW i \in 1 .. n + 1, NEW j \in 1 .. n + 1, t[i] = t[j] PROVE i = j
  <2>1. \A m \in 1 .. n : s[m] # x
    BY DEF Linked
  <2>2. \A l, m \in 1 .. n : s[l] = s[m] => l = m
    BY DEF Linked
  <2>3. \A m \in k + 2 .. n + 1 : m \in Int
    OBVIOUS
  <2>4. \A l \in 1 .. k, m \in k + 2 .. n + 1 : l # m - 1
    OBVIOUS
  <2>. QED  BY <1>1, <1>4, <2>1, <2>2, <2>4
<1>5. (IF k = 0 THEN x ELSE b) = IF n + 1 = 0 THEN NULL ELSE t[1]
  <2>1. b = IF n = 0 THEN NULL ELSE s[1]
    BY DEF Linked
  <2>2. k # 0 => 1 \in 1 .. k /\ n # 0
    OBVIOUS
  <2>. QED  BY <1>1, <2>1, <2>2
<1>6. ASSUME NEW j \in 1 .. n + 1
      PROVE  /\ C[t[j]].next = IF j = n + 1 THEN NULL ELSE t[j + 1]
             /\ C[t[j]].prev = IF j = 1 THEN NULL ELSE t[j - 1]
  <2>0. \A m \in 1 .. n : /\ B[s[m]].next = IF m = n THEN NULL ELSE s[m + 1]
                          /\ B[s[m]].prev = IF m = 1 THEN NULL ELSE s[m - 1]
    BY DEF Linked
  <2>1. CASE j \in 1 .. k
    <3>1. t[j] = s[j] /\ j \in 1 .. n /\ j # n + 1 /\ j # k + 1
      BY <1>1, <2>1
    <3>2. C[t[j]].next = IF j = k THEN x ELSE IF j = n THEN NULL ELSE s[j + 1]
      BY <2>0, <3>1
    <3>3. C[t[j]].prev = IF j = 1 THEN NULL ELSE s[j - 1]
      BY <2>0, <3>1
    <3>4. j # k => j + 1 \in 1 .. k /\ j # n
      BY <2>1
    <3>5. j # 1 => j - 1 \in 1 .. k
      BY <2>1
    <3>. QED  BY <1>1, <3>1, <3>2, <3>3, <3>4, <3>5
  <2>2. CASE j = k + 1
    <3>1. k # n => k + 1 \in k + 1 .. n /\ n + 1 # k + 1
      OBVIOUS
    <3>2. k # 0 => k \in 1 .. k /\ k + 1 - 1 = k /\ k + 1 # 1
      OBVIOUS
    <3>3. k = n => k + 1 = n + 1
      OBVIOUS
    <3>4. k = 0 => k + 1 = 1
      OBVIOUS
    <3>. QED  BY <1>1, <2>2, <3>1, <3>2, <3>3, <3>4
  <2>3. CASE j \in k + 2 .. n + 1
    <3>1. t[j] = s[j - 1] /\ j - 1 \in 1 .. n /\ j - 1 \in k + 1 .. n /\ j # 1 /\ j - 1 # k
      BY <1>1, <2>3
    <3>2. C[t[j]].next = IF j - 1 = n THEN NULL ELSE s[j]
      BY <2>0, <3>1
    <3>3. C[t[j]].prev = IF j - 1 = k + 1 THEN x ELSE IF j - 1 = 1 THEN NULL ELSE s[j - 1 - 1]
      BY <2>0, <3>1
    <3>4. j # n + 1 => j \in k + 1 .. n /\ j - 1 # n
      BY <2>3
    <3>5. j - 1 # k + 1 => j - 1 \in k + 2 .. n + 1 /\ j - 1 # 1
      BY <2>3
    <3>6. j = n + 1 => j - 1 = n
      BY <2>3
    <3>7. CASE j - 1 = k + 1
      BY <1>1, <3>1, <3>3, <3>7, <3>2, <3>4, <3>6
    <3>8. CASE j - 1 # k + 1
      BY <1>1, <3>1, <3>3, <3>5, <3>8, <3>2, <3>4, <3>6
    <3>. QED  BY <3>7, <3>8
  <2>. QED  BY <1>1, <2>1, <2>2, <2>3
<1>. QED  BY <1>2, <1>3, <1>4, <1>5, <1>6 DEF Linked

(* C lacks the k-th block of B, which is not the first unless it is the    *)
(* only one, and t lists the others.                                       *)
Removes(B, n, s, k, C, t) ==
    /\ k \in 1 .. n /\ (k = 1 => n = 1) /\ DOMAIN C = DOMAIN B \ {s[k]}
    /\ \A j \in 1 .. n : j # k =>
          /\ C[s[j]].next = IF j = k - 1 THEN B[s[k]].next ELSE B[s[j]].next
          /\ C[s[j]].prev = IF j = k + 1 THEN B[s[k]].prev ELSE B[s[j]].prev
    /\ t = [j \in 1 .. n - 1 |-> IF j < k THEN s[j] ELSE s[j + 1]]

(* The links of C then lead through t.                                     *)
LEMMA Removed ==
    ASSUME NEW B, NEW b, NEW n \in Nat, NEW s, Linked(B, b, n, s),
           NEW k, NEW C, NEW t, Removes(B, n, s, k, C, t)
    PROVE  Linked(C, IF k = 1 THEN NULL ELSE b, n - 1, t)
<1>a. /\ k \in 1 .. n /\ (k = 1 => n = 1) /\ DOMAIN C = DOMAIN B \ {s[k]}
      /\ \A j \in 1 .. n : j # k =>
            /\ C[s[j]].next = IF j = k - 1 THEN B[s[k]].next ELSE B[s[j]].next
            /\ C[s[j]].prev = IF j = k + 1 THEN B[s[k]].prev ELSE B[s[j]].prev
  BY DEF Removes
<1>b. t = [j \in 1 .. n - 1 |-> IF j < k THEN s[j] ELSE s[j + 1]]
  BY DEF Removes
<1>. USE <1>a
<1>1. /\ \A j \in 1 .. k - 1 : j \in 1 .. n - 1 /\ j \in 1 .. n /\ t[j] = s[j] /\ j # k
      /\ \A j \in k .. n - 1 : /\ j \in 1 .. n - 1 /\ j + 1 \in 1 .. n /\ t[j] = s[j + 1]
                               /\ j + 1 # k
      /\ \A j \in k + 1 .. n : j - 1 \in 1 .. n - 1 /\ t[j - 1] = s[j]
      /\ \A j \in 1 .. n - 1 : j \in 1 .. k - 1 \/ j \in k .. n - 1
      /\ \A j \in 1 .. n : j \in 1 .. k - 1 \/ j = k \/ j \in k + 1 .. n
  BY <1>b
<1>0. \A l, m \in 1 .. n : s[l] = s[m] => l = m
  BY DEF Linked
<1>2. \A j \in 1 .. n - 1 : t[j] \in DOMAIN C
  <2>1. \A j \in 1 .. n : s[j] \in DOMAIN B
    BY DEF Linked
  <2>2. \A j \in 1 .. n : j # k => s[j] \in DOMAIN C
    BY <1>0, <2>1
  <2>. QED  BY <1>1, <2>2
<1>3. ASSUME NEW h \in DOMAIN C PROVE \E j \in 1 .. n - 1 : t[j] = h
  <2>1. PICK j \in 1 .. n : s[j] = h
    BY DEF Linked
  <2>2. j # k
    BY <2>1
  <2>. QED  BY <1>1, <2>1, <2>2
<1>4. ASSUME NEW i \in 1 .. n - 1, NEW j \in 1 .. n - 1, t[i] = t[j] PROVE i = j
  <2>1. \A l \in 1 .. k - 1, m \in k .. n - 1 : l # m + 1
    OBVIOUS
  <2>2. \A m \in k .. n - 1 : m \in Int
    OBVIOUS
  <2>. QED  BY <1>0, <1>1, <1>4, <2>1
<1>5. (IF k = 1 THEN NULL ELSE b) = IF n - 1 = 0 THEN NULL ELSE t[1]
  <2>1. b = IF n = 0 THEN NULL ELSE s[1]
    BY DEF Linked
  <2>2. k # 1 => 1 \in 1 .. k - 1 /\ n # 0 /\ n - 1 # 0
    OBVIOUS
  <2>3. k = 1 => n - 1 = 0
    OBVIOUS
  <2>. QED  BY <1>1, <2>1, <2>2, <2>3
<1>6. ASSUME NEW j \in 1 .. n - 1
      PROVE  /\ C[t[j]].next = IF j = n - 1 THEN NULL ELSE t[j + 1]
             /\ C[t[j]].prev = IF j = 1 THEN NULL ELSE t[j - 1]
  <2>0. \A m \in 1 .. n : /\ B[s[m]].next = IF m = n THEN NULL ELSE s[m + 1]
                          /\ B[s[m]].prev = IF m = 1 THEN NULL ELSE s[m - 1]
    BY DEF Linked
  <2>1. CASE j \in 1 .. k - 1
    <3>1. t[j] = s[j] /\ j \in 1 .. n /\ j # k /\ j # k + 1 /\ j # n
      BY <1>1, <2>1
    <3>2. C[t[j]].next = IF j = k - 1 THEN IF k = n THEN NULL ELSE s[k + 1] ELSE s[j + 1]
      BY <2>0, <3>1
    <3>3. C[t[j]].prev = IF j = 1 THEN NULL ELSE s[j - 1]
      BY <2>0, <3>1
    <3>4. j # k - 1 => j + 1 \in 1 .. k - 1 /\ j # n - 1
      BY <2>1
    <3>5. j # 1 => j - 1 \in 1 .. k - 1
      BY <2>1
    <3>6. j = k - 1 => (k = n <=> j = n - 1) /\ (k # n => j + 1 = k /\ k \in k .. n - 1)
      BY <2>1
    <3>. QED  BY <1>1, <3>1, <3>2, <3>3, <3>4, <3>5, <3>6
  <2>2. CASE j \in k .. n - 1
    <3>1. t[j] = s[j + 1] /\ j + 1 \in 1 .. n /\ j + 1 # k /\ j + 1 # k - 1 /\ j + 1 # 1 /\ k # 1
      BY <1>1, <2>2
    <3>2. C[t[j]].next = IF j + 1 = n THEN NULL ELSE s[j + 1 + 1]
      BY <2>0, <3>1
    <3>3. C[t[j]].prev = IF j + 1 = k + 1 THEN s[k - 1] ELSE s[j + 1 - 1]
      BY <2>0, <3>1
    <3>4. j # n - 1 => j + 1 \in k .. n - 1 /\ j + 1 # n
      BY <2>2
    <3>5. j = n - 1 => j + 1 = n
      BY <2>2
    <3>6. j # 1
      BY <2>2, <3>1
    <3>7. CASE j = k
      <4>1. j + 1 = k + 1 /\ k - 1 \in 1 .. k - 1 /\ j - 1 = k - 1
        BY <3>1, <3>7
      <4>. QED  BY <1>1, <3>1, <3>2, <3>3, <3>4, <3>5, <3>6, <4>1
    <3>8. CASE j # k
      <4>1. j + 1 # k + 1 /\ j - 1 \in k .. n - 1 /\ j - 1 + 1 = j /\ j + 1 - 1 = j
        BY <2>2, <3>8
      <4>. QED  BY <1>1, <3>1, <3>2, <3>3, <3>4, <3>5, <3>6, <4>1
    <3>. QED  BY <3>7, <3>8
  <2>. QED  BY <1>1, <2>1, <2>2
<1>. QED  BY <1>2, <1>3, <1>4, <1>5, <1>6 DEF Linked

-----------------------------------------------------------------------------
(* A set of natural numbers has a least element.                           *)
LEMMA LeastNatural == ASSUME NEW S \in SUBSET Nat, S # {}
                      PROVE  \E m \in S : \A k \in S : m <= k
<1>1. PICK m \in S : \A k \in S : ~(<<k, m>> \in OpToRel(<, Nat))
  BY WFMin, NatLessThanWellFounded, Zenon
<1>2. \A k \in S : ~(k < m)
  BY <1>1, Zenon DEF OpToRel
<1>. QED  BY <1>2

(* Following the links from base reaches the blocks in their order.        *)
LEMMA AtIs ==
    ASSUME NEW n \in Nat, NEW s, Linked(block, base, n, s), DOMAIN block \subseteq Nat
    PROVE  \A m \in Nat : At[m] = IF m < n THEN s[m + 1] ELSE NULL
<1>. DEFINE g == [m \in Nat |-> IF m < n THEN s[m + 1] ELSE NULL]
            F(f) == [m \in Nat |-> IF m = 0 THEN base
                                   ELSE IF f[m - 1] = NULL THEN NULL ELSE block[f[m - 1]].next]
<1>1. g = F(g)
  <2>1. ASSUME NEW m \in Nat PROVE g[m] = F(g)[m]
    <3>1. CASE m = 0
      BY <3>1 DEF Linked
    <3>2. CASE m # 0 /\ m <= n
      <4>1. m - 1 \in Nat /\ m \in 1 .. n /\ m - 1 < n /\ m - 1 + 1 = m /\ m + 1 - 1 = m
        BY <3>2
      <4>2. g[m - 1] = s[m] /\ s[m] \in DOMAIN block /\ s[m] # NULL
        BY <4>1 DEF Linked, NULL
      <4>3. block[s[m]].next = IF m = n THEN NULL ELSE s[m + 1]
        BY <4>1 DEF Linked
      <4>. QED  BY <3>2, <4>1, <4>2, <4>3
    <3>3. CASE m > n
      <4>1. m - 1 \in Nat /\ ~(m - 1 < n) /\ ~(m < n) /\ m # 0
        BY <3>3
      <4>. QED  BY <4>1
    <3>. QED  BY <3>1, <3>2, <3>3
  <2>. QED  BY <2>1
<1>2. At = F(At)
  <2>. HIDE DEF g
  <2>. QED  BY <1>1, Zenon DEF At
<1>3. ASSUME NEW m \in Nat PROVE At[m] = g[m]
  <2>. DEFINE Wrong == {k \in Nat : At[k] # g[k]}
  <2>. SUFFICES ASSUME Wrong # {} PROVE FALSE
    OBVIOUS
  <2>1. PICK k \in Wrong : \A j \in Wrong : k <= j
    BY LeastNatural
  <2>2. k # 0
    BY <1>1, <1>2
  <2>3. k - 1 \in Nat /\ k - 1 \notin Wrong
    BY <2>1, <2>2
  <2>. HIDE DEF g
  <2>4. At[k - 1] = g[k - 1]
    BY <2>3
  <2>. QED  BY <1>1, <1>2, <2>1, <2>2, <2>4
<1>. QED  BY <1>3

(* The length of the list is the number of its blocks.                     *)
LEMMA LengthIs == ASSUME NEW n \in Nat, NEW s, Linked(block, base, n, s)
                  PROVE  Length = n /\ IsFiniteSet(DOMAIN block)
<1>. DEFINE f == [x \in 1 .. n |-> s[x]]
<1>1. f \in Bijection(1 .. n, DOMAIN block)
  BY DEF Linked, Bijection, Injection, Surjection, IsInjective
<1>2. IsFiniteSet(1 .. n) /\ Cardinality(1 .. n) = n
  BY FS_Interval
<1>. HIDE DEF f
<1>3. IsFiniteSet(DOMAIN block) /\ Cardinality(DOMAIN block) = Cardinality(1 .. n)
  BY <1>1, <1>2, FS_Bijection, Zenon DEF ExistsBijection
<1>. QED  BY <1>2, <1>3 DEF Length

-----------------------------------------------------------------------------
Header == [is_free : BOOLEAN, size : Nat, next : Int, prev : Int]

(* The bytes that a block takes with its header.                           *)
Extent(B, h) == HEADER_SIZE + B[h].size

(* The list describes the address space: blocks lie in it, at starts of    *)
(* pages, and do not overlap.                                              *)
Placed(B) ==
    /\ B \in [DOMAIN B -> Header] /\ DOMAIN B \subseteq Pages
    /\ \A h \in DOMAIN B : h + Extent(B, h) <= Space
    /\ \A g, h \in DOMAIN B : g < h => g + Extent(B, g) <= h

(* Their pages are mapped, and unless bytes were lost there are no others. *)
Backed(B, M, l) ==
    /\ \A h \in DOMAIN B : Covered(B, h) \subseteq M
    /\ ~l => /\ \A h \in DOMAIN B : Multiple(Extent(B, h))
             /\ \A p \in M : \E h \in DOMAIN B : p \in Covered(B, h)

(* No two neighbours are free, nor is the last block.                      *)
Alternating(B, n, s) ==
    /\ \A x \in 1 .. n - 1 : ~(B[s[x]].is_free /\ B[s[x + 1]].is_free)
    /\ n # 0 => ~B[s[n]].is_free

(* The caller has what is in use.                                          *)
HandedOut ==
    /\ \A p \in DOMAIN asked : /\ p - HEADER_SIZE \in DOMAIN block
                               /\ ~block[p - HEADER_SIZE].is_free
                               /\ asked[p] \in Nat
    /\ \A h \in DOMAIN block : ~block[h].is_free => h + HEADER_SIZE \in DOMAIN asked

AllocatorInv ==
    /\ block \in [DOMAIN block -> Header] /\ DOMAIN block \subseteq Pages
    /\ \A h \in DOMAIN block : block[h].size < SIZE_MOD
    /\ mapped \subseteq Pages /\ lossy \in BOOLEAN /\ damaged \in BOOLEAN
    /\ DOMAIN asked \subseteq {h + HEADER_SIZE : h \in Pages}
    /\ \E n \in Nat : \E s \in [1 .. n -> DOMAIN block] :
          Linked(block, base, n, s) /\ (~damaged => Alternating(block, n, s))
    /\ ~damaged => Placed(block) /\ Backed(block, mapped, lossy) /\ HandedOut /\ FitsRequest

-----------------------------------------------------------------------------
(* The addresses at which blocks start.                                    *)
LEMMA PageIs == /\ page_size \in Nat \ {0} /\ HEADER_SIZE \in Nat \ {0} /\ SIZE_MOD \in Nat \ {0}
                /\ Space \in Nat /\ Space <= SIZE_MOD /\ 2 * HEADER_SIZE <= page_size
                /\ page_size <= SIZE_MOD /\ Multiple(SIZE_MOD) /\ Multiple(Space)
                /\ NULL \notin Pages
                /\ \A p \in Pages : p \in Nat /\ Multiple(p) /\ p + page_size <= Space
<1>1. /\ page_size \in Nat \ {0} /\ HEADER_SIZE \in Nat \ {0} /\ SIZE_MOD \in Nat \ {0}
      /\ Space \in Nat /\ Space <= SIZE_MOD /\ 2 * HEADER_SIZE <= page_size
      /\ Multiple(SIZE_MOD) /\ Multiple(Space)
  BY AllocatorAssumption DEF Multiple
<1>2. \A p \in Pages : p \in Nat /\ Multiple(p) /\ p < Space
  BY <1>1 DEF Pages, Multiple
<1>3. NULL \notin Pages
  BY <1>2 DEF NULL
<1>4. ASSUME NEW p \in Pages PROVE p + page_size <= Space
  BY <1>1, <1>2, MultipleGap
<1>5. page_size <= SIZE_MOD
  <2>1. Multiple(0)
    BY <1>1, Remainder, page_size * 0 + 0 = 0, 0 \in 0 .. page_size - 1 DEF Multiple
  <2>. QED  BY <1>1, <2>1, MultipleGap
<1>. QED  BY <1>1, <1>2, <1>3, <1>4, <1>5

(* The pages of a range that starts at a page.                             *)
LEMMA PagesOfIs == ASSUME NEW h \in Pages, NEW n \in Nat
                   PROVE  PagesOf(h, n) = {p \in Pages : h <= p /\ p < h + n}
<1>1. ASSUME NEW p \in Pages, p + page_size > h PROVE h <= p
  <2>1. p \in Nat /\ h \in Nat /\ Multiple(p) /\ Multiple(h) /\ page_size \in Nat
    BY PageIs
  <2>. QED  BY <1>1, <2>1, MultipleGap
<1>2. ASSUME NEW p \in Pages, h <= p PROVE p + page_size > h
  BY <1>2, PageIs
<1>. QED  BY <1>1, <1>2 DEF PagesOf

(* And of a block.                                                         *)
LEMMA CoveredIs ==
    ASSUME NEW B, B \in [DOMAIN B -> Header], DOMAIN B \subseteq Pages, NEW h \in DOMAIN B
    PROVE  Covered(B, h) = {p \in Pages : h <= p /\ p < h + Extent(B, h)}
<1>1. Extent(B, h) \in Nat
  BY PageIs DEF Extent, Header
<1>2. Covered(B, h) = PagesOf(h, Extent(B, h))
  BY DEF Covered, Extent
<1>. QED  BY <1>1, <1>2, PagesOfIs

(* C is B with other blocks in use.                                        *)
SameList(B, C) ==
    /\ B \in [DOMAIN B -> Header] /\ C \in [DOMAIN C -> Header] /\ DOMAIN C = DOMAIN B
    /\ \A h \in DOMAIN B : /\ C[h].size = B[h].size /\ C[h].next = B[h].next
                           /\ C[h].prev = B[h].prev

(* Changing only who uses a block changes nothing of the list.             *)
LEMMA SameLayout ==
    ASSUME NEW B, NEW C, SameList(B, C)
    PROVE  /\ \A b, n, s : Linked(B, b, n, s) => Linked(C, b, n, s)
           /\ Placed(B) => Placed(C)
           /\ \A M, l : Backed(B, M, l) => Backed(C, M, l)
<1>. USE DEF SameList
<1>1. ASSUME NEW b, NEW n, NEW s, Linked(B, b, n, s) PROVE Linked(C, b, n, s)
  BY <1>1 DEF Linked
<1>2. \A h \in DOMAIN B : Extent(C, h) = Extent(B, h) /\ Covered(C, h) = Covered(B, h)
  BY DEF Extent, Covered
<1>3. Placed(B) => Placed(C)
  BY <1>2 DEF Placed
<1>4. ASSUME NEW M, NEW l, Backed(B, M, l) PROVE Backed(C, M, l)
  BY <1>2, <1>4 DEF Backed
<1>. QED  BY <1>1, <1>3, <1>4

(* A free block is not alone, so that it leaves out a page at least.       *)
LEMMA FreeLeavesPage ==
    ASSUME NEW B, NEW b, NEW n \in Nat, NEW s, Linked(B, b, n, s), Alternating(B, n, s),
           Placed(B), NEW h \in DOMAIN B, B[h].is_free
    PROVE  Extent(B, h) + page_size <= Space
<1>1. n # 0 /\ n \in 1 .. n
  BY DEF Linked
<1>2. s[n] \in DOMAIN B /\ s[n] # h
  BY <1>1 DEF Linked, Alternating
<1>. DEFINE g == s[n]
<1>3. /\ h \in Nat /\ g \in Nat /\ g + page_size <= Space /\ page_size \in Nat
      /\ Multiple(h) /\ Multiple(g) /\ Space \in Nat /\ HEADER_SIZE \in Nat
  BY <1>2, PageIs DEF Placed
<1>4. Extent(B, h) \in Nat
  BY <1>3 DEF Extent, Placed, Header
<1>5. h + Extent(B, h) <= Space
  BY DEF Placed
<1>6. CASE h < g
  <2>1. h + Extent(B, h) <= g
    BY <1>2, <1>6 DEF Placed
  <2>. QED  BY <1>3, <1>4, <2>1
<1>7. CASE g < h
  <2>1. g + page_size <= h
    BY <1>3, <1>7, MultipleGap
  <2>. QED  BY <1>3, <1>4, <1>5, <2>1
<1>. QED  BY <1>2, <1>3, <1>6, <1>7

(* What a request that fits into a free block is rounded to: with its      *)
(* header it fits into size_t, and takes a page at least.                  *)
LEMMA TotalFits ==
    ASSUME NEW size \in Nat, size + HEADER_SIZE + page_size <= SIZE_MOD
    PROVE  /\ Total(size) \in Nat /\ Multiple(Total(size)) /\ size + HEADER_SIZE <= Total(size)
           /\ page_size <= Total(size) /\ Total(size) + page_size <= SIZE_MOD
<1>. DEFINE r == Total(size)
<1>1. size + HEADER_SIZE \in Nat /\ size + HEADER_SIZE + page_size - 1 < SIZE_MOD
  BY PageIs
<1>2. /\ r \in Nat /\ Multiple(r) /\ r + page_size <= SIZE_MOD
      /\ size + HEADER_SIZE <= r
  BY <1>1, Rounding DEF Total
<1>3. Multiple(0)
  BY PageIs, Remainder, page_size * 0 + 0 = 0, 0 \in 0 .. page_size - 1 DEF Multiple
<1>4. 0 + page_size <= r
  <2>1. 0 < r
    BY <1>2, PageIs
  <2>. HIDE DEF r
  <2>. QED  BY <1>2, <1>3, <2>1, MultipleGap
<1>. QED  BY <1>2, <1>4, PageIs

-----------------------------------------------------------------------------
(* What every state that the allocator can still work in is like.          *)
Working(n, s) ==
    /\ Placed(block) /\ Backed(block, mapped, lossy) /\ mapped \subseteq Pages /\ lossy \in BOOLEAN
    /\ Linked(block, base, n, s) /\ Alternating(block, n, s)

(* The inductive invariant says so.                                        *)
LEMMA InvWorks == ASSUME AllocatorInv, ~damaged
                  PROVE  \E n \in Nat : \E s \in [1 .. n -> DOMAIN block] : Working(n, s)
BY DEF AllocatorInv, Working

(* The block h has been split r bytes from its start: the second block     *)
(* lies behind the first.                                                  *)
SplitAt(h, r) ==
    /\ h + r \in Pages /\ h + r \notin DOMAIN block /\ DOMAIN block' = DOMAIN block \cup {h + r}
    /\ block' \in [DOMAIN block' -> Header]
    /\ \A g \in DOMAIN block : g # h => /\ block'[g].is_free = block[g].is_free
                                        /\ block'[g].size = block[g].size
                                        /\ block'[g].next = block[g].next
    /\ block'[h].is_free = FALSE /\ block'[h].size = r - HEADER_SIZE /\ block'[h].next = h + r
    /\ block'[h + r].is_free = TRUE /\ block'[h + r].size = block[h].size - r - HEADER_SIZE
    /\ block'[h + r].next = block[h].next /\ block'[h + r].prev = h
    /\ \A g \in DOMAIN block : block'[g].prev = IF g = block[h].next THEN h + r ELSE block[g].prev

(* split_block does so, where there is room for a second header.           *)
LEMMA SplitIs ==
    ASSUME NEW n \in Nat, NEW s, Working(n, s), NEW h \in DOMAIN block, block[h].is_free,
           NEW r \in Nat, Multiple(r), page_size <= r, r + HEADER_SIZE <= block[h].size,
           block' = Split(h, r)
    PROVE  SplitAt(h, r)
<1>. DEFINE x == h + r
<1>0. /\ block \in [DOMAIN block -> Header] /\ DOMAIN block \subseteq Pages /\ h \in Pages
      /\ page_size \in Nat \ {0} /\ HEADER_SIZE \in Nat \ {0} /\ 2 * HEADER_SIZE <= page_size
      /\ block[h] \in Header /\ block[h].size \in Nat /\ h \in Nat /\ Multiple(h) /\ Space \in Nat
  BY PageIs DEF Working, Placed, Header
<1>1. /\ x \in Nat /\ x + 2 * HEADER_SIZE <= h + Extent(block, h)
      /\ h + Extent(block, h) <= Space /\ x < Space
  BY <1>0 DEF Extent, Working, Placed
<1>2. Multiple(x)
  BY <1>0, MultipleSum
<1>3. x \in Pages
  BY <1>0, <1>1, <1>2 DEF Pages, Multiple
<1>4. x # h
  BY <1>0
<1>5. x \notin DOMAIN block
  <2>. SUFFICES ASSUME x \in DOMAIN block PROVE FALSE
    OBVIOUS
  <2>1. h < x
    BY <1>0
  <2>2. h + Extent(block, h) <= x
    BY <2>1 DEF Working, Placed
  <2>. QED  BY <1>0, <1>1, <2>2 DEF Extent
<1>6. block[h].next # h
  <2>1. PICK k \in 1 .. n : s[k] = h
    BY DEF Working, Linked
  <2>2. block[h].next = IF k = n THEN NULL ELSE s[k + 1]
    BY <2>1 DEF Working, Linked
  <2>3. k # n => k + 1 \in 1 .. n /\ k + 1 # k
    OBVIOUS
  <2>4. h # NULL
    BY <1>0 DEF NULL
  <2>. QED  BY <2>1, <2>2, <2>3, <2>4 DEF Working, Linked
<1>7. DOMAIN block' = DOMAIN block \cup {x}
  BY DEF Split
<1>8. /\ block'[h] = [block[h] EXCEPT !.is_free = FALSE, !.size = r - HEADER_SIZE, !.next = x]
      /\ block'[x] = [is_free |-> TRUE, size |-> block[h].size - r - HEADER_SIZE,
                 next |-> block[h].next, prev |-> h]
      /\ \A g \in DOMAIN block : g # h => block'[g] = IF g = block[h].next
                                                  THEN [block[g] EXCEPT !.prev = x] ELSE block[g]
  BY <1>4, <1>5 DEF Split
<1>9. /\ block'[h] \in Header /\ block'[h].is_free = FALSE
      /\ block'[h].size = r - HEADER_SIZE /\ block'[h].next = x
      /\ block'[h].prev = block[h].prev
  <2>1. r - HEADER_SIZE \in Nat /\ x \in Int
    BY <1>0, <1>1
  <2>. HIDE DEF x
  <2>2. block[h] \in Header
    BY <1>0
  <2>3. block'[h] = [block[h] EXCEPT !.is_free = FALSE, !.size = r - HEADER_SIZE, !.next = x]
    BY <1>8
  <2>. QED  BY <2>1, <2>2, <2>3 DEF Header
<1>10. /\ block'[x] \in Header /\ block'[x].is_free = TRUE
       /\ block'[x].size = block[h].size - r - HEADER_SIZE
       /\ block'[x].next = block[h].next /\ block'[x].prev = h
  <2>1. block[h].size - r - HEADER_SIZE \in Nat /\ block[h].next \in Int /\ h \in Int
    BY <1>0 DEF Header
  <2>2. block'[x] = [is_free |-> TRUE, size |-> block[h].size - r - HEADER_SIZE,
                     next |-> block[h].next, prev |-> h]
    BY <1>8
  <2>. HIDE DEF x
  <2>. QED  BY <2>1, <2>2 DEF Header
<1>11. ASSUME NEW g \in DOMAIN block, g # h
       PROVE  /\ block'[g] \in Header /\ block'[g].is_free = block[g].is_free
              /\ block'[g].size = block[g].size
              /\ block'[g].next = block[g].next
              /\ block'[g].prev = IF g = block[h].next THEN x ELSE block[g].prev
  <2>1. block[g] \in Header /\ x \in Int
    BY <1>0, <1>1
  <2>. HIDE DEF x
  <2>2. CASE g = block[h].next
    <3>1. block'[g] = [block[g] EXCEPT !.prev = x]
      BY <1>8, <1>11, <2>2
    <3>. QED  BY <2>1, <2>2, <3>1 DEF Header
  <2>3. CASE g # block[h].next
    BY <1>8, <1>11, <2>1, <2>3
  <2>. QED  BY <2>2, <2>3
<1>12. block' \in [DOMAIN block' -> Header]
  <2>1. block' = [g \in DOMAIN block' |-> block'[g]]
    BY DEF Split
  <2>2. \A g \in DOMAIN block' : block'[g] \in Header
    BY <1>7, <1>9, <1>10, <1>11
  <2>. QED  BY <2>1, <2>2
<1>. QED  BY <1>3, <1>5, <1>6, <1>7, <1>9, <1>10, <1>11, <1>12 DEF SplitAt

(* After a split the list and the memory are in order: the new free block  *)
(* is followed by one in use, because the one that was split was free.     *)
LEMMA SplitWorks ==
    ASSUME NEW n \in Nat, NEW s, Working(n, s), NEW h \in DOMAIN block, block[h].is_free,
           NEW r \in Nat, Multiple(r), page_size <= r, r + HEADER_SIZE <= block[h].size,
           block' = Split(h, r), lossy' = TRUE, UNCHANGED <<base, mapped>>
    PROVE  \E t \in [1 .. n + 1 -> DOMAIN block'] : Working(n + 1, t)'
<1>. DEFINE x == h + r
<1>0. /\ x \in Pages /\ x \notin DOMAIN block /\ DOMAIN block' = DOMAIN block \cup {x}
      /\ block' \in [DOMAIN block' -> Header]
      /\ \A g \in DOMAIN block : g # h => /\ block'[g].is_free = block[g].is_free
                                          /\ block'[g].size = block[g].size
                                          /\ block'[g].next = block[g].next
      /\ block'[h].is_free = FALSE /\ block'[h].size = r - HEADER_SIZE /\ block'[h].next = x
      /\ block'[x].is_free = TRUE /\ block'[x].size = block[h].size - r - HEADER_SIZE
      /\ block'[x].next = block[h].next /\ block'[x].prev = h
      /\ \A g \in DOMAIN block : block'[g].prev = IF g = block[h].next THEN x ELSE block[g].prev
  BY SplitIs DEF SplitAt
<1>a. x = h + r
  OBVIOUS
<1>. HIDE DEF x
<1>1. /\ block \in [DOMAIN block -> Header] /\ DOMAIN block \subseteq Pages
      /\ HEADER_SIZE \in Nat \ {0} /\ Space \in Nat
      /\ \A g \in DOMAIN block : block[g].size \in Nat /\ g \in Nat
      /\ \A g \in DOMAIN block' : block'[g].size \in Nat /\ g \in Nat
  <2>1. block \in [DOMAIN block -> Header] /\ DOMAIN block \subseteq Pages
    BY DEF Working, Placed
  <2>. QED  BY <1>0, <2>1, PageIs DEF Header
<1>2. PICK k \in 1 .. n : s[k] = h
  BY DEF Working, Linked
<1>3. \A i, j \in 1 .. n : s[i] = s[j] => i = j
  BY DEF Working, Linked
<1>4. \A j \in 1 .. n : /\ s[j] \in DOMAIN block
                        /\ block[s[j]].next = IF j = n THEN NULL ELSE s[j + 1]
                        /\ block[s[j]].prev = IF j = 1 THEN NULL ELSE s[j - 1]
  BY DEF Working, Linked
<1>. DEFINE t == [j \in 1 .. n + 1 |-> IF j <= k THEN s[j] ELSE IF j = k + 1 THEN x ELSE s[j - 1]]
<1>5. Linked(block', base', n + 1, t)
  <2>1. Linked(block, base, n, s) /\ k \in 0 .. n /\ k # 0
    BY DEF Working
  <2>2. block'[x].next = (IF k = n THEN NULL ELSE s[k + 1]) /\ block'[x].prev = s[k]
    BY <1>0, <1>2, <1>4
  <2>3. ASSUME NEW j \in 1 .. n
        PROVE  /\ block'[s[j]].next = IF j = k THEN x ELSE block[s[j]].next
               /\ block'[s[j]].prev = IF j = k + 1 THEN x ELSE block[s[j]].prev
    <3>1. s[j] = h <=> j = k
      BY <1>2, <1>3
    <3>2. s[j] = block[h].next <=> j = k + 1
      <4>1. CASE k = n
        <5>1. s[j] # NULL
          BY <1>1, <1>4 DEF NULL
        <5>. QED  BY <1>2, <1>4, <4>1, <5>1
      <4>2. CASE k # n
        <5>1. k + 1 \in 1 .. n
          BY <4>2
        <5>. QED  BY <1>2, <1>3, <1>4, <4>2, <5>1
      <4>. QED  BY <4>1, <4>2
    <3>. QED  BY <1>0, <1>4, <3>1, <3>2
  <2>4. Inserts(block, n, s, k, x, block', t)
    BY <1>0, <2>1, <2>2, <2>3 DEF Inserts
  <2>5. base' = IF k = 0 THEN x ELSE base
    BY <2>1
  <2>. HIDE DEF t
  <2>. QED  BY <2>1, <2>4, <2>5, Inserted
<1>6. Placed(block')
  <2>1. ASSUME NEW g \in DOMAIN block' PROVE g + Extent(block', g) <= Space
    BY <1>0, <1>1, <1>a DEF Extent, Working, Placed
  <2>2. \A g \in DOMAIN block : g + Extent(block, g) <= Space
    BY DEF Working, Placed
  <2>3. \A f, g \in DOMAIN block : f < g => f + Extent(block, f) <= g
    BY DEF Working, Placed
  <2>4. \A g \in DOMAIN block : g # h => Extent(block', g) = Extent(block, g)
    BY <1>0 DEF Extent
  <2>5. /\ Extent(block', h) = r /\ Extent(block', x) = Extent(block, h) - r - HEADER_SIZE
        /\ Extent(block, h) >= r + 2 * HEADER_SIZE
    BY <1>0, <1>1, <1>a DEF Extent
  <2>6. \A g \in DOMAIN block : Extent(block, g) \in Nat
    BY <1>1 DEF Extent
  <2>7. ASSUME NEW f \in DOMAIN block', NEW g \in DOMAIN block', f < g
        PROVE  f + Extent(block', f) <= g
    <3>1. CASE f \in DOMAIN block /\ g \in DOMAIN block
      <4>1. f + Extent(block, f) <= g
        BY <2>3, <2>7, <3>1
      <4>2. Extent(block', f) <= Extent(block, f)
        BY <1>1, <2>4, <2>5, <2>6, <3>1
      <4>3. f \in Nat /\ g \in Nat /\ Extent(block, f) \in Nat /\ Extent(block', f) \in Nat
        BY <1>1, <2>6, <3>1 DEF Extent
      <4>. QED  BY <4>1, <4>2, <4>3
    <3>2. CASE f = x /\ g \in DOMAIN block
      <4>1. h < g
        BY <1>a, <1>1, <2>7, <3>2
      <4>2. h + Extent(block, h) <= g
        BY <2>3, <3>2, <4>1
      <4>. QED  BY <1>a, <1>1, <2>5, <2>6, <3>2, <4>2
    <3>3. CASE f \in DOMAIN block /\ g = x
      <4>1. CASE f = h
        BY <1>1, <1>a, <2>5, <3>3, <4>1
      <4>2. CASE f # h /\ f < h
        BY <1>a, <1>1, <2>3, <2>4, <2>6, <3>3, <4>2
      <4>3. CASE h < f
        <5>1. h + Extent(block, h) <= f
          BY <2>3, <3>3, <4>3
        <5>. QED  BY <1>a, <1>1, <2>5, <2>6, <2>7, <3>3, <5>1
      <4>. QED  BY <1>1, <3>3, <4>1, <4>2, <4>3
    <3>. QED  BY <1>0, <1>1, <2>7, <3>1, <3>2, <3>3
  <2>. QED  BY <1>0, <1>1, <2>1, <2>7 DEF Working, Placed
<1>7. Backed(block', mapped', lossy')
  <2>1. \A g \in DOMAIN block' :
           Covered(block', g) = {p \in Pages : g <= p /\ p < g + Extent(block', g)}
    BY <1>6, CoveredIs DEF Placed
  <2>2. \A g \in DOMAIN block :
           Covered(block, g) = {p \in Pages : g <= p /\ p < g + Extent(block, g)}
    BY CoveredIs DEF Working, Placed
  <2>3. \A g \in DOMAIN block : Covered(block, g) \subseteq mapped
    BY DEF Working, Backed
  <2>4. ASSUME NEW g \in DOMAIN block', g # x PROVE Covered(block', g) \subseteq mapped
    <3>1. /\ Extent(block', g) <= Extent(block, g)
          /\ Extent(block, g) \in Nat /\ Extent(block', g) \in Nat
      BY <1>0, <1>1, <2>4 DEF Extent
    <3>2. Covered(block', g) \subseteq Covered(block, g)
      BY <1>0, <1>1, <2>1, <2>2, <2>4, <3>1, PageIs
    <3>. QED  BY <1>0, <2>3, <2>4, <3>2
  <2>5. Covered(block', x) \subseteq mapped
    <3>1. x + Extent(block', x) <= h + Extent(block, h) /\ h <= x
      BY <1>0, <1>1, <1>a DEF Extent
    <3>2. Extent(block', x) \in Nat /\ Extent(block, h) \in Nat
      BY <1>0, <1>1, <1>a DEF Extent
    <3>3. Covered(block', x) \subseteq Covered(block, h)
      BY <1>0, <1>1, <2>1, <2>2, <3>1, <3>2, PageIs
    <3>. QED  BY <2>3, <3>3
  <2>. QED  BY <2>4, <2>5 DEF Backed
<1>8. Alternating(block', n + 1, t)
  <2>1. /\ \A j \in 1 .. n - 1 : ~(block[s[j]].is_free /\ block[s[j + 1]].is_free)
        /\ n # 0 => ~block[s[n]].is_free
    BY DEF Working, Alternating
  <2>2. k # n
    BY <1>2, <2>1
  <2>3. \A j \in 1 .. n : j # k => block'[s[j]].is_free = block[s[j]].is_free
    BY <1>0, <1>2, <1>3, <1>4
  <2>4. ~block[s[k + 1]].is_free
    BY <1>2, <2>1, <2>2
  <2>5. /\ \A j \in 1 .. k : t[j] = s[j]
        /\ \A j \in k + 2 .. n + 1 : t[j] = s[j - 1] /\ j - 1 \in 1 .. n /\ j - 1 # k
        /\ t[k + 1] = x
    OBVIOUS
  <2>. HIDE DEF t
  <2>6. ASSUME NEW j \in 1 .. n PROVE ~(block'[t[j]].is_free /\ block'[t[j + 1]].is_free)
    <3>1. CASE j < k
      <4>1. /\ j \in 1 .. k /\ j + 1 \in 1 .. k /\ j \in 1 .. n - 1 /\ j # k
            /\ j \in 1 .. n /\ j + 1 \in 1 .. n
        BY <3>1
      <4>2. j + 1 = k => block'[t[j + 1]].is_free = FALSE
        BY <1>0, <1>2, <2>5, <4>1
      <4>. QED  BY <2>1, <2>3, <2>5, <4>1, <4>2
    <3>2. CASE j = k
      BY <1>0, <1>2, <2>5, <3>2
    <3>3. CASE j = k + 1
      <4>1. k + 2 \in k + 2 .. n + 1 /\ k + 2 - 1 = k + 1 /\ k + 1 \in 1 .. n /\ k + 1 # k
            /\ j + 1 = k + 2
        BY <2>2, <3>3
      <4>. QED  BY <2>3, <2>4, <2>5, <4>1
    <3>4. CASE j > k + 1
      <4>1. j \in k + 2 .. n + 1 /\ j + 1 \in k + 2 .. n + 1 /\ j - 1 \in 1 .. n - 1
            /\ j - 1 \in 1 .. n /\ j - 1 + 1 = j /\ j + 1 - 1 = j /\ j # k /\ j - 1 # k
        BY <3>4
      <4>. QED  BY <2>1, <2>3, <2>5, <4>1
    <3>. QED  BY <3>1, <3>2, <3>3, <3>4
  <2>7. ~block'[t[n + 1]].is_free
    <3>1. n + 1 \in k + 2 .. n + 1 /\ n + 1 - 1 = n /\ n \in 1 .. n /\ n # 0
      BY <2>2
    <3>. QED  BY <2>1, <2>2, <2>3, <2>5, <3>1
  <2>. QED  BY <2>6, <2>7, n + 1 - 1 = n DEF Alternating
<1>9. t \in [1 .. n + 1 -> DOMAIN block']
  <2>1. \A j \in 1 .. n + 1 : t[j] \in DOMAIN block'
    BY <1>5 DEF Linked
  <2>2. t = [j \in 1 .. n + 1 |-> t[j]]
    OBVIOUS
  <2>. HIDE DEF t
  <2>. QED  BY <2>1, <2>2
<1>. HIDE DEF t
<1>10. mapped' \subseteq Pages /\ lossy' \in BOOLEAN
  BY DEF Working
<1>. QED  BY <1>5, <1>6, <1>7, <1>8, <1>9, <1>10 DEF Working

(* A block that is used whole.                                             *)
LEMMA KeepWorks ==
    ASSUME NEW n \in Nat, NEW s, Working(n, s), NEW h \in DOMAIN block,
           block' = [block EXCEPT ![h].is_free = FALSE], UNCHANGED <<base, mapped, lossy>>
    PROVE  /\ Working(n, s)' /\ DOMAIN block' = DOMAIN block
           /\ block' \in [DOMAIN block -> Header] /\ block'[h].is_free = FALSE
           /\ \A g \in DOMAIN block : /\ block'[g].size = block[g].size
                                      /\ g # h => block'[g].is_free = block[g].is_free
<1>1. block \in [DOMAIN block -> Header] /\ DOMAIN block' = DOMAIN block
  BY DEF Working, Placed
<1>2. \A g \in DOMAIN block :
         block'[g] = IF g = h THEN [block[h] EXCEPT !.is_free = FALSE] ELSE block[g]
  BY <1>1
<1>3. ASSUME NEW g \in DOMAIN block
      PROVE  /\ block'[g] \in Header /\ block'[g].size = block[g].size
             /\ block'[g].next = block[g].next /\ block'[g].prev = block[g].prev
             /\ g # h => block'[g].is_free = block[g].is_free
             /\ g = h => block'[g].is_free = FALSE
  <2>1. block[g] \in Header
    BY <1>1
  <2>2. CASE g = h
    <3>1. block'[g] = [block[g] EXCEPT !.is_free = FALSE]
      BY <1>2, <2>2
    <3>. QED  BY <2>1, <2>2, <3>1 DEF Header
  <2>3. CASE g # h
    BY <1>2, <2>1, <2>3
  <2>. QED  BY <2>2, <2>3
<1>4. block' \in [DOMAIN block' -> Header]
  <2>1. block' = [g \in DOMAIN block' |-> block'[g]]
    BY <1>1
  <2>. QED  BY <1>1, <1>3, <2>1
<1>5. /\ Linked(block, base, n, s) => Linked(block', base, n, s)
      /\ Placed(block) => Placed(block')
      /\ Backed(block, mapped, lossy) => Backed(block', mapped, lossy)
  <2>1. SameList(block, block')
    BY <1>1, <1>3, <1>4 DEF SameList
  <2>. QED  BY <2>1, SameLayout
<1>6. Alternating(block', n, s)
  <2>1. \A x \in 1 .. n : s[x] \in DOMAIN block
    BY DEF Working, Linked
  <2>2. \A g \in DOMAIN block : block'[g].is_free => block[g].is_free
    BY <1>3
  <2>3. \A x \in 1 .. n - 1 : x \in 1 .. n /\ x + 1 \in 1 .. n
    OBVIOUS
  <2>4. n # 0 => n \in 1 .. n
    OBVIOUS
  <2>. QED  BY <2>1, <2>2, <2>3, <2>4 DEF Working, Alternating
<1>. QED  BY <1>1, <1>3, <1>4, <1>5, <1>6 DEF Working

(* extend_heap: a block behind the last one, in pages of its own.          *)
LEMMA ExtendWorks ==
    ASSUME NEW n \in Nat, NEW s, Working(n, s), NEW h \in Pages,
           NEW r \in Nat, Multiple(r), Extend(h, r)
    PROVE  /\ \E t \in [1 .. n + 1 -> DOMAIN block'] : Working(n + 1, t)'
           /\ h \notin DOMAIN block /\ DOMAIN block' = DOMAIN block \cup {h}
           /\ block' \in [DOMAIN block' -> Header]
           /\ block'[h].is_free = FALSE /\ block'[h].size = r - HEADER_SIZE
           /\ \A g \in DOMAIN block : /\ block'[g].size = block[g].size
                                      /\ block'[g].is_free = block[g].is_free
<1>0. /\ block \in [DOMAIN block -> Header] /\ DOMAIN block \subseteq Pages
      /\ HEADER_SIZE \in Nat \ {0} /\ Space \in Nat /\ Space <= SIZE_MOD /\ SIZE_MOD \in Nat
      /\ page_size \in Nat \ {0} /\ 2 * HEADER_SIZE <= page_size
      /\ \A g \in DOMAIN block : block[g].size \in Nat /\ g \in Nat
      /\ h \in Nat /\ h + r <= Space /\ r > 0 /\ h + page_size <= Space
  <2>1. block \in [DOMAIN block -> Header] /\ DOMAIN block \subseteq Pages
    BY DEF Working, Placed
  <2>. QED  BY <2>1, PageIs DEF Header, Extend
<1>1. page_size <= r
  <2>1. Multiple(0)
    BY <1>0, Remainder, page_size * 0 + 0 = 0, 0 \in 0 .. page_size - 1 DEF Multiple
  <2>. QED  BY <1>0, <2>1, MultipleGap
<1>2. r - HEADER_SIZE \in Nat /\ PagesOf(h, r) = {p \in Pages : h <= p /\ p < h + r}
  BY <1>0, <1>1, PagesOfIs
<1>3. \A g \in DOMAIN block :
         Covered(block, g) = {p \in Pages : g <= p /\ p < g + Extent(block, g)}
  BY CoveredIs DEF Working, Placed
<1>4. \A g \in DOMAIN block : Extent(block, g) \in Nat /\ Extent(block, g) > 0
  BY <1>0 DEF Extent
<1>5. \A g \in DOMAIN block : Covered(block, g) \subseteq mapped /\ g \in mapped
  BY <1>0, <1>3, <1>4 DEF Working, Backed
<1>6. h \notin mapped /\ h \notin DOMAIN block
  BY <1>0, <1>2, <1>5 DEF Extend
<1>7. Last = IF n = 0 THEN NULL ELSE s[n]
  <2>1. Linked(block, base, n, s) /\ DOMAIN block \subseteq Nat
    BY <1>0 DEF Working
  <2>2. \A m \in Nat : At[m] = IF m < n THEN s[m + 1] ELSE NULL
    BY <2>1, AtIs
  <2>3. Length = n
    BY <2>1, LengthIs
  <2>4. n # 0 => n - 1 \in Nat /\ n - 1 < n /\ n - 1 + 1 = n /\ 1 \in 1 .. n
    OBVIOUS
  <2>5. n # 0 => base # NULL
    BY <1>0, <2>1, <2>4, PageIs DEF Linked
  <2>6. n = 0 => base = NULL
    BY <2>1 DEF Linked
  <2>. QED  BY <2>2, <2>3, <2>4, <2>5, <2>6 DEF Last
<1>8. \A x, y \in 1 .. n : s[x] = s[y] => x = y
  BY DEF Working, Linked
<1>9. \A x \in 1 .. n : s[x] \in DOMAIN block
  BY DEF Working, Linked
<1>10. DOMAIN block' = DOMAIN block \cup {h}
  BY DEF Extend
<1>11. /\ block'[h] = [is_free |-> FALSE, size |-> r - HEADER_SIZE, next |-> NULL, prev |-> Last]
       /\ \A g \in DOMAIN block :
             block'[g] = IF g = Last THEN [block[g] EXCEPT !.next = h] ELSE block[g]
  BY <1>6 DEF Extend
<1>12. /\ block'[h] \in Header /\ block'[h].is_free = FALSE /\ block'[h].size = r - HEADER_SIZE
       /\ block'[h].next = NULL /\ block'[h].prev = Last
  <2>1. Last \in Int /\ NULL \in Int
    <3>1. n # 0 => s[n] \in Int
      BY <1>0, <1>9
    <3>. QED  BY <1>7, <3>1 DEF NULL
  <2>2. block'[h] = [is_free |-> FALSE, size |-> r - HEADER_SIZE, next |-> NULL, prev |-> Last]
    BY <1>11
  <2>. QED  BY <1>2, <2>1, <2>2 DEF Header
<1>13. ASSUME NEW g \in DOMAIN block
       PROVE  /\ block'[g] \in Header /\ block'[g].is_free = block[g].is_free
              /\ block'[g].size = block[g].size /\ block'[g].prev = block[g].prev
              /\ block'[g].next = IF g = Last THEN h ELSE block[g].next
  <2>1. block[g] \in Header /\ h \in Int
    BY <1>0
  <2>2. CASE g = Last
    <3>1. block'[g] = [block[g] EXCEPT !.next = h]
      BY <1>11, <2>2
    <3>. QED  BY <2>1, <2>2, <3>1 DEF Header
  <2>3. CASE g # Last
    BY <1>11, <2>1, <2>3
  <2>. QED  BY <2>2, <2>3
<1>14. block' \in [DOMAIN block' -> Header]
  <2>1. block' = [g \in DOMAIN block' |-> block'[g]]
    BY DEF Extend
  <2>. QED  BY <1>10, <1>12, <1>13, <2>1
<1>. DEFINE t == [j \in 1 .. n + 1 |-> IF j <= n THEN s[j] ELSE IF j = n + 1 THEN h ELSE s[j - 1]]
<1>15. Linked(block', base', n + 1, t)
  <2>1. Linked(block, base, n, s)
    BY DEF Working
  <2>2. ASSUME NEW j \in 1 .. n
        PROVE  /\ block'[s[j]].next = IF j = n THEN h ELSE block[s[j]].next
               /\ block'[s[j]].prev = IF j = n + 1 THEN h ELSE block[s[j]].prev
    <3>1. s[j] = Last <=> j = n
      BY <1>7, <1>8
    <3>. QED  BY <1>9, <1>13, <3>1
  <2>3. Inserts(block, n, s, n, h, block', t)
    BY <1>6, <1>7, <1>10, <1>12, <2>2 DEF Inserts
  <2>4. base' = IF n = 0 THEN h ELSE base
    <3>1. base = NULL <=> n = 0
      <4>1. n # 0 => 1 \in 1 .. n
        OBVIOUS
      <4>. QED  BY <1>0, <1>9, <2>1, <4>1, PageIs DEF Linked
    <3>. QED  BY <3>1 DEF Extend
  <2>. HIDE DEF t
  <2>. QED  BY <2>1, <2>3, <2>4, Inserted
<1>16. Extent(block', h) = r /\ \A g \in DOMAIN block : Extent(block', g) = Extent(block, g)
  BY <1>0, <1>12, <1>13 DEF Extent
<1>17. Placed(block')
  <2>1. \A g \in DOMAIN block : g + Extent(block, g) <= Space
    BY DEF Working, Placed
  <2>2. \A f, g \in DOMAIN block : f < g => f + Extent(block, f) <= g
    BY DEF Working, Placed
  <2>3. ASSUME NEW g \in DOMAIN block, h < g PROVE h + r <= g
    BY <1>0, <1>2, <1>5, <2>3 DEF Extend
  <2>4. ASSUME NEW g \in DOMAIN block, g < h PROVE g + Extent(block, g) <= h
    BY <1>0, <1>3, <1>4, <1>5, <1>6, <2>4
  <2>. QED  BY <1>0, <1>10, <1>14, <1>16, <2>1, <2>2, <2>3, <2>4 DEF Placed
<1>18. Backed(block', mapped', lossy')
  <2>1. \A g \in DOMAIN block' :
           Covered(block', g) = {p \in Pages : g <= p /\ p < g + Extent(block', g)}
    BY <1>17, CoveredIs DEF Placed
  <2>2. Covered(block', h) = PagesOf(h, r)
    BY <1>2, <1>10, <1>16, <2>1
  <2>3. \A g \in DOMAIN block : Covered(block', g) = Covered(block, g)
    BY <1>3, <1>10, <1>16, <2>1
  <2>4. mapped' = mapped \cup PagesOf(h, r) /\ lossy' = lossy
    BY DEF Extend
  <2>. QED  BY <1>5, <1>10, <1>16, <2>2, <2>3, <2>4 DEF Working, Backed
<1>19. Alternating(block', n + 1, t)
  <2>1. /\ \A j \in 1 .. n - 1 : ~(block[s[j]].is_free /\ block[s[j + 1]].is_free)
    BY DEF Working, Alternating
  <2>2. /\ \A j \in 1 .. n : t[j] = s[j] /\ block'[s[j]].is_free = block[s[j]].is_free
        /\ t[n + 1] = h
    BY <1>9, <1>13
  <2>. HIDE DEF t
  <2>3. ASSUME NEW j \in 1 .. n PROVE ~(block'[t[j]].is_free /\ block'[t[j + 1]].is_free)
    <3>1. CASE j = n
      BY <1>12, <2>2, <3>1
    <3>2. CASE j # n
      <4>1. j \in 1 .. n - 1 /\ j + 1 \in 1 .. n
        BY <3>2
      <4>. QED  BY <2>1, <2>2, <4>1
    <3>. QED  BY <3>1, <3>2
  <2>. QED  BY <1>12, <2>2, <2>3, n + 1 - 1 = n DEF Alternating
<1>20. t \in [1 .. n + 1 -> DOMAIN block']
  <2>1. \A j \in 1 .. n + 1 : t[j] \in DOMAIN block'
    BY <1>15 DEF Linked
  <2>2. t = [j \in 1 .. n + 1 |-> t[j]]
    OBVIOUS
  <2>. HIDE DEF t
  <2>. QED  BY <2>1, <2>2
<1>. HIDE DEF t
<1>21. mapped' \subseteq Pages /\ lossy' \in BOOLEAN
  BY DEF Working, Extend, PagesOf
<1>. QED  BY <1>6, <1>10, <1>12, <1>13, <1>14, <1>15, <1>17, <1>18, <1>19, <1>20, <1>21 DEF Working

-----------------------------------------------------------------------------
(* Unless nothing is left of it the rounded size has room for the size,    *)
(* also where the sum wraps.                                               *)
LEMMA RoundedFits ==
    ASSUME NEW size \in Nat, size <= SIZE_MOD, round_to_page_size(size) > 0
    PROVE  size <= round_to_page_size(size)
<1>. DEFINE r == round_to_page_size(size)
            s == (size + page_size - 1) % SIZE_MOD
<1>0. page_size \in Nat \ {0} /\ SIZE_MOD \in Nat \ {0} /\ r \in Nat /\ Multiple(r) /\ r > 0
  BY PageIs, Rounding
<1>1. CASE size + page_size - 1 < SIZE_MOD
  BY <1>1, Rounding
<1>2. CASE size + page_size - 1 >= SIZE_MOD
  <2>. DEFINE d == size + page_size - 1 - SIZE_MOD
  <2>1. d \in 0 .. page_size - 1 /\ size + page_size - 1 = SIZE_MOD * 1 + d
    BY <1>0, <1>2
  <2>2. page_size <= SIZE_MOD
    BY PageIs
  <2>3. d \in 0 .. SIZE_MOD - 1
    BY <1>0, <2>1, <2>2
  <2>. HIDE DEF d
  <2>4. s = d
    BY <1>0, <2>1, <2>3, Remainder
  <2>5. s % page_size \in 0 .. page_size - 1
    BY <1>0, <2>1, <2>4, Division
  <2>6. r = s - (s % page_size)
    BY DEF round_to_page_size
  <2>7. r < page_size
    <3>. HIDE DEF s, r
    <3>. QED  BY <1>0, <2>1, <2>4, <2>5, <2>6
  <2>8. Multiple(0)
    BY <1>0, Remainder, page_size * 0 + 0 = 0, 0 \in 0 .. page_size - 1 DEF Multiple
  <2>. HIDE DEF r
  <2>9. 0 + page_size <= r
    BY <1>0, <2>8, MultipleGap
  <2>. QED  BY <1>0, <2>7, <2>9
<1>3. size + page_size - 1 \in Int
  BY <1>0
<1>. QED  BY <1>0, <1>1, <1>2, <1>3

(* The difference of two values of size_t.                                 *)
LEMMA Difference ==
    ASSUME NEW a \in Nat, NEW b \in Nat, a < SIZE_MOD, b < SIZE_MOD
    PROVE  (a - b) % SIZE_MOD = IF b <= a THEN a - b ELSE a - b + SIZE_MOD
<1>0. SIZE_MOD \in Nat \ {0}
  BY PageIs
<1>1. CASE b <= a
  <2>1. a - b \in 0 .. SIZE_MOD - 1 /\ a - b = SIZE_MOD * 0 + (a - b)
    BY <1>0, <1>1
  <2>2. (SIZE_MOD * 0 + (a - b)) % SIZE_MOD = a - b
    BY <1>0, <2>1, Remainder
  <2>. QED  BY <1>1, <2>1, <2>2
<1>2. CASE a < b
  <2>1. a - b + SIZE_MOD \in 0 .. SIZE_MOD - 1 /\ a - b = SIZE_MOD * (-1) + (a - b + SIZE_MOD)
    BY <1>0, <1>2
  <2>2. (SIZE_MOD * (-1) + (a - b + SIZE_MOD)) % SIZE_MOD = a - b + SIZE_MOD
    BY <1>0, <2>1, -1 \in Int, Remainder
  <2>. QED  BY <1>2, <2>1, <2>2
<1>. QED  BY <1>1, <1>2

(* The caller gets the block h, which was free or did not exist, for n     *)
(* bytes.                                                                  *)
HandsOut(h, n) ==
    /\ DOMAIN block \subseteq Pages /\ HandedOut /\ FitsRequest /\ ~damaged
    /\ DOMAIN asked \subseteq {g + HEADER_SIZE : g \in Pages}
    /\ h \in DOMAIN block' /\ n \in Nat /\ DOMAIN block' \subseteq Pages
    /\ h \in DOMAIN block => block[h].is_free
    /\ block'[h].is_free = FALSE
    /\ \A g \in DOMAIN block : g # h => /\ g \in DOMAIN block'
                                        /\ block'[g].is_free = block[g].is_free
                                        /\ block'[g].size = block[g].size
    /\ \A g \in DOMAIN block' : g \notin DOMAIN block /\ g # h => block'[g].is_free = TRUE
    /\ n <= SIZE_MOD - HEADER_SIZE => n <= block'[h].size
    /\ asked' = [p \in DOMAIN asked \cup {h + HEADER_SIZE} |->
                    IF p = h + HEADER_SIZE THEN n ELSE asked[p]]

(* Then it has one block more, and what it had is as it was.               *)
LEMMA HandedOneMore ==
    ASSUME NEW h, NEW n, HandsOut(h, n)
    PROVE  /\ HandedOut' /\ FitsRequest'
           /\ h + HEADER_SIZE \notin DOMAIN asked
           /\ DOMAIN asked' = DOMAIN asked \cup {h + HEADER_SIZE}
           /\ \A p \in DOMAIN asked : /\ p - HEADER_SIZE \in DOMAIN block' /\ p \in Int
                                      /\ p - HEADER_SIZE # h
                                      /\ block'[p - HEADER_SIZE].size = block[p - HEADER_SIZE].size
           /\ DOMAIN asked' \subseteq {g + HEADER_SIZE : g \in Pages}
<1>. USE DEF HandsOut
<1>0. HEADER_SIZE \in Nat /\ h \in Nat /\ \A g \in Pages : g \in Nat
  BY PageIs
<1>1. \A p \in DOMAIN asked : /\ p - HEADER_SIZE \in DOMAIN block
                              /\ ~block[p - HEADER_SIZE].is_free /\ asked[p] \in Nat
  BY DEF HandedOut
<1>2. \A p \in DOMAIN asked : p \in Int /\ p - HEADER_SIZE # h
  BY <1>0, <1>1
<1>3. h + HEADER_SIZE - HEADER_SIZE = h
  BY <1>0
<1>4. h + HEADER_SIZE \notin DOMAIN asked
  <2>1. \A p \in DOMAIN asked : p # h + HEADER_SIZE
    BY <1>0, <1>2
  <2>. QED  BY <2>1
<1>5. DOMAIN asked' = DOMAIN asked \cup {h + HEADER_SIZE}
  OBVIOUS
<1>6. /\ asked'[h + HEADER_SIZE] = n
      /\ \A p \in DOMAIN asked : asked'[p] = asked[p]
  BY <1>4
<1>7. HandedOut'
  <2>1. ASSUME NEW p \in DOMAIN asked'
        PROVE  /\ p - HEADER_SIZE \in DOMAIN block' /\ ~block'[p - HEADER_SIZE].is_free
               /\ asked'[p] \in Nat
    <3>1. CASE p = h + HEADER_SIZE
      <4>1. p - HEADER_SIZE = h
        BY <1>0, <3>1
      <4>. QED  BY <1>6, <3>1, <4>1
    <3>2. CASE p \in DOMAIN asked
      BY <1>1, <1>2, <1>6, <3>2
    <3>. QED  BY <1>5, <3>1, <3>2
  <2>2. ASSUME NEW g \in DOMAIN block', ~block'[g].is_free PROVE g + HEADER_SIZE \in DOMAIN asked'
    <3>1. CASE g = h
      BY <1>5, <3>1
    <3>2. CASE g # h
      <4>1. g \in DOMAIN block
        BY <2>2, <3>2
      <4>2. ~block[g].is_free
        BY <2>2, <3>2, <4>1
      <4>. QED  BY <1>5, <4>1, <4>2 DEF HandedOut
    <3>. QED  BY <3>1, <3>2
  <2>. QED  BY <2>1, <2>2 DEF HandedOut
<1>8. FitsRequest'
  <2>. SUFFICES ASSUME NEW p \in DOMAIN asked', asked'[p] <= SIZE_MOD - HEADER_SIZE
                PROVE  asked'[p] <= block'[p - HEADER_SIZE].size
    BY DEF FitsRequest
  <2>1. CASE p = h + HEADER_SIZE
    <3>1. p - HEADER_SIZE = h
      BY <1>0, <2>1
    <3>. QED  BY <1>6, <2>1, <3>1
  <2>2. CASE p \in DOMAIN asked
    BY <1>1, <1>2, <1>6, <2>2 DEF FitsRequest
  <2>. QED  BY <1>5, <2>1, <2>2
<1>9. DOMAIN asked' \subseteq {g + HEADER_SIZE : g \in Pages}
  BY <1>5
<1>. QED  BY <1>1, <1>2, <1>4, <1>5, <1>7, <1>8, <1>9

(* The list, and what the caller has of it.                                *)
Sound(n, s) ==
    /\ Working(n, s) /\ s \in [1 .. n -> DOMAIN block] /\ HandedOut /\ FitsRequest
    /\ damaged \in BOOLEAN /\ DOMAIN asked \subseteq {g + HEADER_SIZE : g \in Pages}

(* The inductive invariant holds after a step that leaves them in order.   *)
LEMMA SoundInv == ASSUME NEW n \in Nat, NEW s, Sound(n, s)' PROVE AllocatorInv'
<1>. USE DEF Sound
<1>1. block' \in [DOMAIN block' -> Header] /\ DOMAIN block' \subseteq Pages
  BY DEF Working, Placed
<1>2. ASSUME NEW h \in DOMAIN block' PROVE block'[h].size < SIZE_MOD
  <2>1. h \in Nat /\ block'[h].size \in Nat /\ h + HEADER_SIZE + block'[h].size <= Space
    BY <1>1, PageIs DEF Working, Placed, Extent, Header
  <2>. QED  BY <2>1, PageIs
<1>. QED  BY <1>1, <1>2 DEF Working, AllocatorInv

(* A block that was obtained: unless memory has been damaged it is new to  *)
(* the caller, and everything else stays.                                  *)
Obtained(h, n) ==
    /\ Placed(block)' /\ h \in DOMAIN block' /\ block'[h].size > 0
    /\ h + HEADER_SIZE \notin DOMAIN asked /\ DOMAIN asked' = DOMAIN asked \cup {h + HEADER_SIZE}
    /\ \A p \in DOMAIN asked : /\ p - HEADER_SIZE \in DOMAIN block' /\ p \in Int
                               /\ p - HEADER_SIZE # h
                               /\ block'[p - HEADER_SIZE].size = block[p - HEADER_SIZE].size

(* A free block is used, whole or split: nothing else changes unless the   *)
(* split goes past the end of the block.                                   *)
LEMMA ReuseObtains ==
    ASSUME NEW k \in Nat, NEW s, s \in [1 .. k -> DOMAIN block], Working(k, s),
           AllocatorInv, ~damaged,
           NEW h \in DOMAIN block, NEW size \in Nat, NEW n \in Nat, Suitable(h, size),
           n <= SIZE_MOD - HEADER_SIZE => n = size,
           Reuse(h, Total(size)), damaged' \in BOOLEAN, SplitsPastEnd(h, Total(size)) => damaged',
           asked' = [p \in DOMAIN asked \cup {h + HEADER_SIZE} |->
                        IF p = h + HEADER_SIZE THEN n ELSE asked[p]]
    PROVE  AllocatorInv' /\ (~damaged' => Obtained(h, n))
<1>. DEFINE r == Total(size)
            S == block[h].size
<1>0. /\ HEADER_SIZE \in Nat \ {0} /\ page_size \in Nat /\ 2 * HEADER_SIZE <= page_size
      /\ SIZE_MOD \in Nat /\ Space \in Nat /\ Space <= SIZE_MOD
      /\ block \in [DOMAIN block -> Header] /\ DOMAIN block \subseteq Pages /\ h \in Nat
      /\ S \in Nat /\ S < SIZE_MOD /\ size <= S /\ block[h].is_free
      /\ HandedOut /\ FitsRequest /\ DOMAIN asked \subseteq {g + HEADER_SIZE : g \in Pages}
      /\ mapped \subseteq Pages /\ lossy \in BOOLEAN
  <2>1. block \in [DOMAIN block -> Header] /\ DOMAIN block \subseteq Pages /\ S < SIZE_MOD
    BY DEF AllocatorInv
  <2>2. size <= S /\ block[h].is_free
    BY DEF Suitable
  <2>. QED  BY <2>1, <2>2, PageIs DEF Header, AllocatorInv
<1>1. Extent(block, h) + page_size <= Space
  BY <1>0, FreeLeavesPage DEF Working
<1>2. size + HEADER_SIZE + page_size <= SIZE_MOD
  BY <1>0, <1>1 DEF Extent
<1>3. /\ r \in Nat /\ Multiple(r) /\ size + HEADER_SIZE <= r
      /\ page_size <= r /\ r + page_size <= SIZE_MOD
  BY <1>2, TotalFits
<1>4. Room(h, r) = IF r <= S THEN S - r ELSE S - r + SIZE_MOD
  <2>. HIDE DEF r
  <2>1. r < SIZE_MOD
    BY <1>0, <1>3
  <2>2. (S - r) % SIZE_MOD = IF r <= S THEN S - r ELSE S - r + SIZE_MOD
    <3>. HIDE DEF S
    <3>. QED  BY <1>0, <1>3, <2>1, Difference
  <2>. QED  BY <2>2 DEF Room
<1>5. End(h) = h + HEADER_SIZE + S
  BY DEF End
<1>a. block[h].size = S /\ Total(size) = r
  OBVIOUS
<1>. HIDE DEF r, S
<1>6. CASE Room(h, r) < HEADER_SIZE \/ SplitsPastEnd(h, r)
  <2>1. block' = [block EXCEPT ![h].is_free = FALSE] /\ UNCHANGED <<base, mapped, lossy>>
    BY <1>6, <1>a DEF Reuse
  <2>2. /\ Working(k, s)' /\ DOMAIN block' = DOMAIN block
        /\ block' \in [DOMAIN block -> Header] /\ block'[h].is_free = FALSE
        /\ \A g \in DOMAIN block : /\ block'[g].size = block[g].size
                                   /\ g # h => block'[g].is_free = block[g].is_free
    BY <2>1, KeepWorks
  <2>3. CASE SplitsPastEnd(h, r)
    <3>1. damaged' /\ damaged' = TRUE
      BY <1>a, <2>3
    <3>2. \A g \in DOMAIN block' : block'[g].size < SIZE_MOD
      BY <2>2 DEF AllocatorInv
    <3>3. DOMAIN asked' \subseteq {g + HEADER_SIZE : g \in Pages}
      BY <1>0
    <3>4. Linked(block', base', k, s) /\ s \in [1 .. k -> DOMAIN block']
      BY <2>2 DEF Working
    <3>5. /\ block' \in [DOMAIN block' -> Header] /\ DOMAIN block' \subseteq Pages
          /\ mapped' \subseteq Pages /\ lossy' \in BOOLEAN /\ damaged' \in BOOLEAN
      BY <1>0, <2>1, <2>2
    <3>. QED  BY <3>1, <3>2, <3>3, <3>4, <3>5 DEF AllocatorInv
  <2>4. CASE ~SplitsPastEnd(h, r)
    <3>1. r <= S
      <4>1. Room(h, r) < HEADER_SIZE
        BY <1>6, <2>4
      <4>2. r > S => Room(h, r) = S - r + SIZE_MOD
        BY <1>0, <1>3, <1>4
      <4>. QED  BY <1>0, <1>3, <4>1, <4>2
    <3>2. n <= SIZE_MOD - HEADER_SIZE => n <= block'[h].size
      BY <1>0, <1>a, <2>2
    <3>3. HandsOut(h, n)
      BY <1>0, <2>2, <3>2 DEF HandsOut
    <3>4. Sound(k, s)'
      BY <2>2, <3>3, HandedOneMore DEF Sound
    <3>5. AllocatorInv'
      BY <3>4, SoundInv
    <3>6. block'[h].size > 0
      BY <1>0, <1>a, <1>3, <2>2, <3>1
    <3>7. Placed(block)' /\ h \in DOMAIN block'
      BY <2>2, <3>3 DEF Working, HandsOut
    <3>. QED  BY <3>3, <3>5, <3>6, <3>7, HandedOneMore DEF Obtained
  <2>. QED  BY <2>3, <2>4
<1>7. CASE ~(Room(h, r) < HEADER_SIZE \/ SplitsPastEnd(h, r))
  <2>1. block' = Split(h, r) /\ lossy' = TRUE /\ UNCHANGED <<base, mapped>>
    BY <1>7, <1>a DEF Reuse
  <2>2. r + HEADER_SIZE <= S
    <3>1. Room(h, r) \in Int /\ Room(h, r) >= HEADER_SIZE
      BY <1>0, <1>3, <1>4, <1>7
    <3>2. ~(h + r + HEADER_SIZE > End(h))
      BY <1>7, <3>1 DEF SplitsPastEnd
    <3>3. r <= S
      BY <1>0, <1>3, <1>5, <3>2
    <3>. QED  BY <1>0, <1>3, <1>4, <3>1, <3>3
  <2>3. PICK t \in [1 .. k + 1 -> DOMAIN block'] : Working(k + 1, t)'
    BY <1>0, <1>a, <1>3, <2>1, <2>2, SplitWorks
  <2>4. SplitAt(h, r)
    BY <1>0, <1>a, <1>3, <2>1, <2>2, SplitIs
  <2>5. n <= SIZE_MOD - HEADER_SIZE => n <= block'[h].size
    BY <1>0, <1>3, <2>4 DEF SplitAt
  <2>6. HandsOut(h, n)
    BY <1>0, <2>4, <2>5 DEF HandsOut, SplitAt
  <2>7. Sound(k + 1, t)'
    BY <2>3, <2>6, HandedOneMore DEF Sound
  <2>8. AllocatorInv'
    BY <2>7, k + 1 \in Nat, SoundInv
  <2>9. block'[h].size > 0
    <3>1. block'[h].size = r - HEADER_SIZE
      BY <2>4 DEF SplitAt
    <3>. QED  BY <1>0, <1>3, <3>1
  <2>10. Placed(block)' /\ h \in DOMAIN block'
    BY <2>3, <2>6 DEF Working, HandsOut
  <2>. QED  BY <2>6, <2>8, <2>9, <2>10, HandedOneMore DEF Obtained
<1>. QED  BY <1>6, <1>7

(* A new block is obtained from the system.                                *)
LEMMA ExtendObtains ==
    ASSUME NEW k \in Nat, NEW s, s \in [1 .. k -> DOMAIN block], Working(k, s),
           AllocatorInv, ~damaged,
           NEW h \in Pages, NEW size \in Nat, size < SIZE_MOD, NEW n \in Nat,
           n <= SIZE_MOD - HEADER_SIZE => n = size,
           Extend(h, Total(size)), damaged' \in BOOLEAN,
           asked' = [p \in DOMAIN asked \cup {h + HEADER_SIZE} |->
                        IF p = h + HEADER_SIZE THEN n ELSE asked[p]]
    PROVE  AllocatorInv' /\ Obtained(h, n)
<1>. DEFINE r == Total(size)
<1>0. /\ HEADER_SIZE \in Nat \ {0} /\ page_size \in Nat /\ 2 * HEADER_SIZE <= page_size
      /\ SIZE_MOD \in Nat
      /\ DOMAIN block \subseteq Pages /\ HandedOut /\ FitsRequest
      /\ DOMAIN asked \subseteq {g + HEADER_SIZE : g \in Pages}
  BY PageIs DEF AllocatorInv
<1>1. r \in Nat /\ Multiple(r) /\ r > 0 /\ size + HEADER_SIZE \in Nat
  BY <1>0, Rounding DEF Total, Extend
<1>2. size + HEADER_SIZE <= SIZE_MOD => size + HEADER_SIZE <= r
  BY <1>1, RoundedFits DEF Total
<1>a. Total(size) = r
  OBVIOUS
<1>. HIDE DEF r
<1>3. /\ \E t \in [1 .. k + 1 -> DOMAIN block'] : Working(k + 1, t)'
      /\ h \notin DOMAIN block /\ DOMAIN block' = DOMAIN block \cup {h}
      /\ block' \in [DOMAIN block' -> Header]
      /\ block'[h].is_free = FALSE /\ block'[h].size = r - HEADER_SIZE
      /\ \A g \in DOMAIN block : /\ block'[g].size = block[g].size
                                 /\ block'[g].is_free = block[g].is_free
  BY <1>1, <1>a, ExtendWorks
<1>4. PICK t \in [1 .. k + 1 -> DOMAIN block'] : Working(k + 1, t)'
  BY <1>3
<1>5. n <= SIZE_MOD - HEADER_SIZE => n <= block'[h].size
  BY <1>0, <1>1, <1>2, <1>3
<1>6. HandsOut(h, n)
  BY <1>0, <1>3, <1>5 DEF HandsOut
<1>7. Sound(k + 1, t)'
  BY <1>4, <1>6, HandedOneMore DEF Sound
<1>8. AllocatorInv'
  BY <1>7, k + 1 \in Nat, SoundInv
<1>9. block'[h].size > 0
  <2>1. Multiple(0)
    BY <1>0, Remainder, page_size * 0 + 0 = 0, 0 \in 0 .. page_size - 1 DEF Multiple
  <2>2. 0 + page_size <= r
    BY <1>1, <2>1, MultipleGap
  <2>. QED  BY <1>0, <1>1, <1>3, <2>2
<1>10. Placed(block)' /\ h \in DOMAIN block'
  BY <1>4, <1>6 DEF Working, HandsOut
<1>. QED  BY <1>6, <1>8, <1>9, <1>10, HandedOneMore DEF Obtained

(* Both ways to obtain a block.                                            *)
LEMMA ObtainObtains ==
    ASSUME AllocatorInv, NEW h \in Pages, NEW size \in 0 .. SIZE_MOD - 1, NEW n \in Nat,
           n <= SIZE_MOD - HEADER_SIZE => n = size,
           Obtain(h, size, n), damaged' \in BOOLEAN, SplitsPastEnd(h, Total(size)) => damaged'
    PROVE  AllocatorInv' /\ (~damaged' => Obtained(h, n))
<1>0. size \in Nat /\ size < SIZE_MOD /\ ~damaged
  BY PageIs DEF Obtain
<1>1. PICK k \in Nat : \E s \in [1 .. k -> DOMAIN block] : Working(k, s)
  BY <1>0, InvWorks
<1>2. PICK s \in [1 .. k -> DOMAIN block] : Working(k, s)
  BY <1>1
<1>3. asked' = [p \in DOMAIN asked \cup {h + HEADER_SIZE} |->
                   IF p = h + HEADER_SIZE THEN n ELSE asked[p]]
  BY DEF Obtain
<1>4. CASE \E b \in DOMAIN block : Found(b, size)
  <2>1. Found(h, size) /\ Reuse(h, Total(size))
    BY <1>4 DEF Obtain
  <2>2. PICK m \in 0 .. Length - 1 : h = At[m] /\ Suitable(h, size)
    BY <2>1 DEF Found
  <2>3. Linked(block, base, k, s) /\ DOMAIN block \subseteq Nat
    BY <1>2, PageIs DEF Working, Placed
  <2>4. Length = k
    BY <2>3, LengthIs
  <2>5. m \in Nat /\ m < k /\ m + 1 \in 1 .. k
    BY <2>4
  <2>6. At[m] = s[m + 1]
    BY <2>3, <2>5, AtIs
  <2>7. h \in DOMAIN block
    BY <2>2, <2>3, <2>5, <2>6 DEF Linked
  <2>. QED  BY <1>0, <1>2, <1>3, <2>1, <2>2, <2>7, ReuseObtains
<1>5. CASE ~\E b \in DOMAIN block : Found(b, size)
  <2>1. Extend(h, Total(size))
    BY <1>5 DEF Obtain
  <2>. QED  BY <1>0, <1>2, <1>3, <2>1, ExtendObtains
<1>. QED  BY <1>4, <1>5
-----------------------------------------------------------------------------
(* The list without its k-th block.                                        *)
Without(n, s, k) == [j \in 1 .. n - 1 |-> IF j < k THEN s[j] ELSE s[j + 1]]

(* C is the list B with the block g taken into f.                          *)
Joins(B, f, g, C) ==
    /\ f \in DOMAIN B /\ g \in DOMAIN B /\ f # g
    /\ DOMAIN C = DOMAIN B \ {g} /\ C \in [DOMAIN C -> Header]
    /\ \A e \in DOMAIN C : /\ C[e].is_free = B[e].is_free
                           /\ e # f => C[e].size = B[e].size
    /\ C[f].size = B[f].size + HEADER_SIZE + B[g].size

(* merge_free_blocks takes the next block of the list in, if it is free.   *)
LEMMA MergeJoins ==
    ASSUME NEW B, NEW b, NEW n \in Nat, NEW s, Linked(B, b, n, s),
           B \in [DOMAIN B -> Header], DOMAIN B \subseteq Pages,
           NEW k \in 1 .. n - 1, B[s[k + 1]].is_free
    PROVE  /\ B[s[k]].next = s[k + 1] /\ Merges(B, s[k])
           /\ Joins(B, s[k], s[k + 1], Merge(B, s[k]))
           /\ Linked(Merge(B, s[k]), b, n - 1, Without(n, s, k + 1))
<1>. DEFINE f == s[k]
            g == s[k + 1]
            next == B[g].next
            C == Merge(B, f)
<1>0. /\ \A x \in 1 .. n : s[x] \in DOMAIN B
      /\ \A x, y \in 1 .. n : s[x] = s[y] => x = y
      /\ \A x \in 1 .. n : /\ B[s[x]].next = IF x = n THEN NULL ELSE s[x + 1]
                           /\ B[s[x]].prev = IF x = 1 THEN NULL ELSE s[x - 1]
  BY DEF Linked
<1>1. k \in 1 .. n /\ k + 1 \in 1 .. n /\ k # n /\ k + 1 # k /\ k + 1 # 1 /\ k + 1 - 1 = k
  OBVIOUS
<1>2. /\ f \in DOMAIN B /\ g \in DOMAIN B /\ f # g /\ B[f].next = g /\ B[g].prev = f
      /\ NULL \notin DOMAIN B /\ g # NULL
  BY <1>0, <1>1, PageIs
<1>3. next = IF k + 1 = n THEN NULL ELSE s[k + 2]
  BY <1>0, <1>1
<1>4. Merges(B, f)
  BY <1>2 DEF Merges
<1>5. C = [e \in DOMAIN B \ {g} |->
             IF e = f THEN [B[f] EXCEPT !.size = @ + HEADER_SIZE + B[g].size, !.next = next]
             ELSE IF e = next THEN [B[e] EXCEPT !.prev = f] ELSE B[e]]
  BY <1>2, <1>4 DEF Merge
<1>a. f = s[k] /\ g = s[k + 1] /\ next = B[g].next
  OBVIOUS
<1>. HIDE DEF f, g, C, next
<1>6. HEADER_SIZE \in Nat /\ \A e \in DOMAIN B : B[e] \in Header /\ e \in Int
  BY PageIs
<1>7. next \in Int
  BY <1>2, <1>6, <1>a DEF Header
<1>8. next # f /\ next # g
  <2>1. k + 1 # n => k + 2 \in 1 .. n /\ k + 2 # k + 1 /\ k + 2 # k
    OBVIOUS
  <2>. QED  BY <1>0, <1>1, <1>2, <1>3, <1>a, <2>1
<1>9. /\ C[f] \in Header /\ C[f].is_free = B[f].is_free /\ C[f].prev = B[f].prev
      /\ C[f].next = next /\ C[f].size = B[f].size + HEADER_SIZE + B[g].size
  <2>1. C[f] = [B[f] EXCEPT !.size = @ + HEADER_SIZE + B[g].size, !.next = next]
    BY <1>2, <1>5
  <2>2. B[f] \in Header /\ B[g] \in Header
    BY <1>2, <1>6
  <2>3. B[f].size + HEADER_SIZE + B[g].size \in Nat
    BY <1>6, <2>2 DEF Header
  <2>. QED  BY <1>7, <2>1, <2>2, <2>3 DEF Header
<1>10. ASSUME NEW e \in DOMAIN B, e # f, e # g
       PROVE  /\ C[e] \in Header /\ C[e].is_free = B[e].is_free /\ C[e].size = B[e].size
              /\ C[e].next = B[e].next /\ C[e].prev = IF e = next THEN f ELSE B[e].prev
  <2>1. B[e] \in Header /\ f \in Int
    BY <1>2, <1>6
  <2>2. CASE e = next
    <3>1. C[e] = [B[e] EXCEPT !.prev = f]
      BY <1>5, <1>10, <2>2
    <3>. QED  BY <2>1, <2>2, <3>1 DEF Header
  <2>3. CASE e # next
    <3>1. C[e] = B[e]
      BY <1>5, <1>10, <2>3
    <3>. QED  BY <2>1, <2>3, <3>1
  <2>. QED  BY <2>2, <2>3
<1>11. DOMAIN C = DOMAIN B \ {g}
  BY <1>5
<1>12. Joins(B, f, g, C)
  <2>1. C = [e \in DOMAIN C |-> C[e]]
    BY <1>5
  <2>2. \A e \in DOMAIN C : C[e] \in Header
    BY <1>9, <1>10, <1>11
  <2>3. C \in [DOMAIN C -> Header]
    BY <2>1, <2>2
  <2>. QED  BY <1>2, <1>9, <1>10, <1>11, <2>3 DEF Joins
<1>. DEFINE t == Without(n, s, k + 1)
<1>13. Removes(B, n, s, k + 1, C, t)
  <2>1. ASSUME NEW j \in 1 .. n, j # k + 1
        PROVE  /\ C[s[j]].next = IF j = k + 1 - 1 THEN B[s[k + 1]].next ELSE B[s[j]].next
               /\ C[s[j]].prev = IF j = k + 1 + 1 THEN B[s[k + 1]].prev ELSE B[s[j]].prev
    <3>1. s[j] # g /\ s[j] \in DOMAIN B
      BY <1>0, <1>1, <1>a, <2>1
    <3>2. s[j] = f <=> j = k
      BY <1>0, <1>1, <1>a
    <3>3. s[j] = next <=> j = k + 1 + 1
      <4>1. CASE k + 1 = n
        BY <1>2, <1>3, <3>1, <4>1
      <4>2. CASE k + 1 # n
        <5>1. k + 2 \in 1 .. n /\ k + 1 + 1 = k + 2
          BY <4>2
        <5>. QED  BY <1>0, <1>3, <4>2, <5>1
      <4>. QED  BY <4>1, <4>2
    <3>4. CASE j = k
      <4>1. j # k + 1 + 1
        BY <3>4
      <4>. QED  BY <1>1, <1>9, <1>a, <3>2, <3>4, <4>1
    <3>5. CASE j # k
      BY <1>1, <1>2, <1>10, <1>a, <3>1, <3>2, <3>3, <3>5
    <3>. QED  BY <3>4, <3>5
  <2>2. k + 1 \in 1 .. n /\ (k + 1 = 1 => n = 1)
    BY <1>1
  <2>3. DOMAIN C = DOMAIN B \ {s[k + 1]}
    BY <1>11, <1>a
  <2>. QED  BY <2>1, <2>2, <2>3 DEF Removes, Without
<1>14. Linked(C, b, n - 1, t)
  <2>1. (IF k + 1 = 1 THEN NULL ELSE b) = b
    BY <1>1
  <2>. HIDE DEF t
  <2>2. Linked(C, IF k + 1 = 1 THEN NULL ELSE b, n - 1, t)
    BY <1>13, Removed
  <2>. QED  BY <2>1, <2>2
<1>. QED  BY <1>2, <1>4, <1>12, <1>14, <1>a DEF C

(* Blocks that are neighbours in memory make one that covers what they     *)
(* covered, and nothing else of the list.                                  *)
LEMMA JoinPlaced ==
    ASSUME NEW B, NEW f, NEW g, NEW C, Joins(B, f, g, C), B[f].next = g, Merges(B, f),
           ~Apart(B, f), Placed(B), Backed(B, mapped, lossy), mapped \subseteq Pages
    PROVE  Placed(C) /\ Backed(C, mapped, lossy)
<1>1. /\ f \in DOMAIN B /\ g \in DOMAIN B /\ f # g /\ DOMAIN C = DOMAIN B \ {g}
      /\ C \in [DOMAIN C -> Header] /\ B \in [DOMAIN B -> Header] /\ DOMAIN B \subseteq Pages
      /\ \A e \in DOMAIN C : e # f => C[e].size = B[e].size
      /\ C[f].size = B[f].size + HEADER_SIZE + B[g].size
  BY DEF Joins, Placed
<1>2. /\ HEADER_SIZE \in Nat \ {0} /\ Space \in Nat /\ page_size \in Nat
      /\ \A p \in Pages : p \in Nat /\ Multiple(p)
      /\ \A e \in DOMAIN B : e \in Nat /\ B[e].size \in Nat
  BY <1>1, PageIs DEF Header
<1>3. /\ \A e \in DOMAIN B : Extent(B, e) \in Nat /\ Extent(B, e) > 0
      /\ \A e \in DOMAIN C : e # f => Extent(C, e) = Extent(B, e)
      /\ Extent(C, f) = Extent(B, f) + Extent(B, g)
  BY <1>1, <1>2 DEF Extent
<1>4. /\ \A d, e \in DOMAIN B : d < e => d + Extent(B, d) <= e
      /\ \A e \in DOMAIN B : e + Extent(B, e) <= Space
  BY DEF Placed
<1>5. /\ ~(g < f)
      /\ \A p \in Pages : p > f /\ p < g =>
            p \in mapped /\ \A e \in DOMAIN B \ {f} : p \notin Covered(B, e)
  BY DEF Apart
<1>6. f < g /\ f + Extent(B, f) <= g /\ g + Extent(B, g) <= Space
  <2>1. f < g
    BY <1>1, <1>2, <1>5
  <2>. QED  BY <1>1, <1>4, <2>1
<1>7. \A e \in DOMAIN B : Covered(B, e) = {p \in Pages : e <= p /\ p < e + Extent(B, e)}
  BY <1>1, CoveredIs
<1>8. Placed(C)
  <2>1. ASSUME NEW e \in DOMAIN C PROVE e + Extent(C, e) <= Space
    <3>1. CASE e = f
      BY <1>1, <1>2, <1>3, <1>6, <3>1
    <3>2. CASE e # f
      BY <1>1, <1>3, <1>4, <3>2
    <3>. QED  BY <3>1, <3>2
  <2>2. ASSUME NEW d \in DOMAIN C, NEW e \in DOMAIN C, d < e PROVE d + Extent(C, d) <= e
    <3>1. CASE d # f
      BY <1>1, <1>3, <1>4, <2>2, <3>1
    <3>2. CASE d = f
      <4>1. e \in DOMAIN B /\ e # f /\ e # g /\ f < e /\ e \in Pages /\ e \in Nat
        BY <1>1, <1>2, <2>2, <3>2
      <4>2. e \in Covered(B, e)
        BY <1>2, <1>3, <1>7, <4>1
      <4>3. ~(e < g)
        BY <1>5, <4>1, <4>2
      <4>4. g + Extent(B, g) <= e
        BY <1>1, <1>2, <1>4, <4>1, <4>3
      <4>. QED  BY <1>1, <1>2, <1>3, <1>6, <3>2, <4>1, <4>4
    <3>. QED  BY <3>1, <3>2
  <2>. QED  BY <1>1, <2>1, <2>2 DEF Placed
<1>9. \A e \in DOMAIN C : Covered(C, e) = {p \in Pages : e <= p /\ p < e + Extent(C, e)}
  BY <1>1, CoveredIs
<1>10. \A e \in DOMAIN B : Covered(B, e) \subseteq mapped
  BY DEF Backed
<1>11. ASSUME NEW e \in DOMAIN C, NEW p \in Covered(C, e) PROVE p \in mapped
  <2>1. CASE e # f
    <3>1. p \in Covered(B, e)
      BY <1>1, <1>3, <1>7, <1>9, <1>11, <2>1
    <3>. QED  BY <1>1, <1>10, <3>1
  <2>2. CASE e = f
    <3>1. p \in Pages /\ p \in Nat /\ f <= p /\ p < f + Extent(C, f)
      BY <1>2, <1>9, <1>11, <2>2
    <3>2. CASE p = f
      <4>1. p \in Covered(B, f)
        BY <1>1, <1>2, <1>3, <1>7, <3>1, <3>2
      <4>. QED  BY <1>1, <1>10, <4>1
    <3>3. CASE p > f /\ p < g
      BY <1>5, <3>1, <3>3
    <3>4. CASE p >= g
      <4>1. p < g + Extent(B, g)
        BY <1>1, <1>2, <1>3, <1>6, <3>1
      <4>2. p \in Covered(B, g)
        BY <1>1, <1>7, <3>1, <3>4, <4>1
      <4>. QED  BY <1>1, <1>10, <4>2
    <3>. QED  BY <1>1, <1>2, <3>1, <3>2, <3>3, <3>4
  <2>. QED  BY <2>1, <2>2
<1>12. ASSUME ~lossy
       PROVE  /\ \A e \in DOMAIN C : Multiple(Extent(C, e))
              /\ \A p \in mapped : \E e \in DOMAIN C : p \in Covered(C, e)
  <2>1. /\ \A e \in DOMAIN B : Multiple(Extent(B, e))
        /\ \A p \in mapped : \E e \in DOMAIN B : p \in Covered(B, e)
    BY <1>12 DEF Backed
  <2>2. Multiple(Extent(C, f))
    BY <1>1, <1>3, <2>1, MultipleSum
  <2>. DEFINE q == f + Extent(B, f)
  <2>3. q \in Nat /\ Multiple(q) /\ f < q
    BY <1>1, <1>2, <1>3, <2>1, MultipleSum
  <2>4. q = g
    <3>. SUFFICES ASSUME q < g PROVE FALSE
      BY <1>1, <1>2, <1>6, <2>3
    <3>. HIDE DEF q
    <3>1. g < Space
      BY <1>1, <1>2, <1>3, <1>6
    <3>2. q \in Pages
      BY <1>1, <1>2, <2>3, <3>1 DEF Pages, Multiple
    <3>3. q \in mapped /\ \A e \in DOMAIN B \ {f} : q \notin Covered(B, e)
      BY <1>5, <2>3, <3>2
    <3>4. q \in Covered(B, f)
      BY <2>1, <3>3
    <3>. QED  BY <1>1, <1>7, <2>3, <3>4 DEF q
  <2>5. ASSUME NEW p \in mapped PROVE \E e \in DOMAIN C : p \in Covered(C, e)
    <3>1. PICK e \in DOMAIN B : p \in Covered(B, e)
      BY <2>1
    <3>2. p \in Pages /\ p \in Nat /\ e <= p /\ p < e + Extent(B, e)
      BY <1>2, <1>7, <3>1
    <3>3. CASE e = f \/ e = g
      <4>1. f <= p /\ p < f + Extent(C, f)
        BY <1>1, <1>2, <1>3, <1>6, <2>4, <3>2, <3>3
      <4>. QED  BY <1>1, <1>9, <3>2, <4>1
    <3>4. CASE e # f /\ e # g
      <4>1. e \in DOMAIN C /\ p \in Covered(C, e)
        BY <1>1, <1>3, <1>9, <3>2, <3>4
      <4>. QED  BY <4>1
    <3>. QED  BY <3>3, <3>4
  <2>. QED  BY <1>1, <1>3, <2>1, <2>2, <2>5
<1>. QED  BY <1>8, <1>11, <1>12 DEF Backed

-----------------------------------------------------------------------------
(* A free block among blocks of which no two neighbours are free.          *)
Around(B, n, s, m) ==
    /\ m \in 1 .. n /\ B[s[m]].is_free
    /\ \A x \in 1 .. n - 1 : x # m /\ x # m - 1 => ~(B[s[x]].is_free /\ B[s[x + 1]].is_free)
    /\ m # n => ~B[s[n]].is_free

(* The block before it is in use, or there is none.                        *)
Loose(B, n, s, m) ==
    /\ m \in 1 .. n /\ B[s[m]].is_free
    /\ \A x \in 1 .. n - 1 : x # m => ~(B[s[x]].is_free /\ B[s[x + 1]].is_free)
    /\ m # n => ~B[s[n]].is_free

(* A block in use is marked free.                                          *)
LEMMA MarkAround ==
    ASSUME NEW B, NEW b, NEW n \in Nat, NEW s, Linked(B, b, n, s), Alternating(B, n, s),
           NEW C, NEW m \in 1 .. n, C[s[m]].is_free,
           \A g \in DOMAIN B : g # s[m] => C[g].is_free = B[g].is_free
    PROVE  Around(C, n, s, m)
<1>1. \A x \in 1 .. n : s[x] \in DOMAIN B /\ (x # m => s[x] # s[m])
  BY DEF Linked
<1>2. \A x \in 1 .. n - 1 : x \in 1 .. n /\ x + 1 \in 1 .. n /\ (x # m - 1 => x + 1 # m)
  OBVIOUS
<1>3. n \in 1 .. n
  OBVIOUS
<1>. QED  BY <1>1, <1>2, <1>3 DEF Alternating, Around

(* Merged with a free block before it, it has none before it.              *)
LEMMA JoinBack ==
    ASSUME NEW B, NEW b, NEW n \in Nat, NEW s, Linked(B, b, n, s),
           NEW m \in 2 .. n, Around(B, n, s, m), B[s[m - 1]].is_free,
           NEW C, Joins(B, s[m - 1], s[m], C)
    PROVE  Loose(C, n - 1, Without(n, s, m), m - 1)
<1>. DEFINE t == Without(n, s, m)
<1>1. /\ \A x \in 1 .. n : s[x] \in DOMAIN B
      /\ \A x, y \in 1 .. n : s[x] = s[y] => x = y
  BY DEF Linked
<1>2. \A x \in 1 .. n : x # m => C[s[x]].is_free = B[s[x]].is_free
  BY <1>1 DEF Joins
<1>3. /\ \A x \in 1 .. n - 1 : x # m /\ x # m - 1 => ~(B[s[x]].is_free /\ B[s[x + 1]].is_free)
      /\ m # n => ~B[s[n]].is_free
  BY DEF Around
<1>4. /\ \A x \in 1 .. m - 1 : x \in 1 .. n - 1 /\ x \in 1 .. n /\ x # m /\ t[x] = s[x]
      /\ \A x \in m .. n - 1 : /\ x \in 1 .. n - 1 /\ x + 1 \in 1 .. n /\ x + 1 # m
                               /\ x + 1 # m - 1 /\ t[x] = s[x + 1]
  BY DEF Without
<1>. HIDE DEF t
<1>5. m - 1 \in 1 .. n - 1 /\ m - 1 \in 1 .. m - 1
  OBVIOUS
<1>6. C[t[m - 1]].is_free
  BY <1>2, <1>4, <1>5
<1>7. ASSUME NEW x \in 1 .. n - 1 - 1, x # m - 1
      PROVE  ~(C[t[x]].is_free /\ C[t[x + 1]].is_free)
  <2>1. CASE x < m - 1
    <3>1. x \in 1 .. m - 1 /\ x + 1 \in 1 .. m - 1 /\ x # m /\ x # m - 1
      BY <2>1
    <3>. QED  BY <1>2, <1>3, <1>4, <3>1
  <2>2. CASE x > m - 1
    <3>1. x \in m .. n - 1 /\ x + 1 \in m .. n - 1 /\ x + 1 \in 1 .. n - 1
      BY <2>2
    <3>. QED  BY <1>2, <1>3, <1>4, <3>1
  <2>. QED  BY <1>7, <2>1, <2>2
<1>8. m - 1 # n - 1 => ~C[t[n - 1]].is_free
  <2>1. m # n => n - 1 \in m .. n - 1 /\ n - 1 + 1 = n /\ n \in 1 .. n
    OBVIOUS
  <2>. QED  BY <1>2, <1>3, <1>4, <2>1
<1>. QED  BY <1>5, <1>6, <1>7, <1>8 DEF Loose, t

(* Merged with a free block behind it, it has none there either.           *)
LEMMA JoinNext ==
    ASSUME NEW B, NEW b, NEW n \in Nat, NEW s, Linked(B, b, n, s),
           NEW m \in 1 .. n - 1, Loose(B, n, s, m), B[s[m + 1]].is_free,
           NEW C, Joins(B, s[m], s[m + 1], C)
    PROVE  Alternating(C, n - 1, Without(n, s, m + 1))
<1>. DEFINE t == Without(n, s, m + 1)
<1>1. /\ \A x \in 1 .. n : s[x] \in DOMAIN B
      /\ \A x, y \in 1 .. n : s[x] = s[y] => x = y
  BY DEF Linked
<1>2. \A x \in 1 .. n : x # m + 1 => C[s[x]].is_free = B[s[x]].is_free
  BY <1>1 DEF Joins
<1>3. /\ \A x \in 1 .. n - 1 : x # m => ~(B[s[x]].is_free /\ B[s[x + 1]].is_free)
      /\ ~B[s[n]].is_free /\ m + 1 # n
  BY DEF Loose
<1>4. /\ \A x \in 1 .. m : /\ x \in 1 .. n - 1 /\ x \in 1 .. n /\ x # m + 1 /\ t[x] = s[x]
      /\ \A x \in m + 1 .. n - 1 : /\ x \in 1 .. n - 1 /\ x + 1 \in 1 .. n /\ x + 1 # m + 1
                                   /\ x + 1 # m /\ t[x] = s[x + 1]
  BY DEF Without
<1>. HIDE DEF t
<1>5. ASSUME NEW x \in 1 .. n - 1 - 1 PROVE ~(C[t[x]].is_free /\ C[t[x + 1]].is_free)
  <2>1. CASE x < m
    <3>1. x \in 1 .. m /\ x + 1 \in 1 .. m /\ x # m
      BY <2>1
    <3>. QED  BY <1>2, <1>3, <1>4, <3>1
  <2>2. CASE x = m
    <3>1. m + 1 \in m + 1 .. n - 1 /\ m + 1 \in 1 .. n - 1 /\ m + 1 # m
      BY <1>3
    <3>2. ~B[s[m + 1 + 1]].is_free
      BY <1>3, <3>1
    <3>3. t[x + 1] = s[m + 1 + 1] /\ C[s[m + 1 + 1]].is_free = B[s[m + 1 + 1]].is_free
      BY <1>2, <1>4, <2>2, <3>1
    <3>. QED  BY <3>2, <3>3
  <2>3. CASE x > m
    <3>1. x \in m + 1 .. n - 1 /\ x + 1 \in m + 1 .. n - 1 /\ x + 1 \in 1 .. n - 1
      BY <2>3
    <3>. QED  BY <1>2, <1>3, <1>4, <3>1
  <2>. QED  BY <2>1, <2>2, <2>3
<1>6. ~C[t[n - 1]].is_free
  <2>1. n - 1 \in m + 1 .. n - 1 /\ n - 1 + 1 = n
    BY <1>3
  <2>2. t[n - 1] = s[n] /\ n \in 1 .. n /\ n # m + 1
    BY <1>3, <1>4, <2>1
  <2>. QED  BY <1>2, <1>3, <2>2
<1>. QED  BY <1>5, <1>6 DEF Alternating, t

(* Two or three blocks do not take more than the address space together.   *)
LEMMA SumOfExtents ==
    ASSUME NEW B, Placed(B), NEW f \in DOMAIN B, NEW g \in DOMAIN B, f # g
    PROVE  /\ Extent(B, f) + Extent(B, g) <= Space
           /\ \A e \in DOMAIN B : e # f /\ e # g =>
                 Extent(B, e) + Extent(B, f) + Extent(B, g) <= Space
<1>1. /\ \A d, e \in DOMAIN B : d < e => d + Extent(B, d) <= e
      /\ \A e \in DOMAIN B : /\ e + Extent(B, e) <= Space /\ e \in Nat /\ Extent(B, e) \in Nat
      /\ Space \in Nat
  BY PageIs DEF Placed, Extent, Header
<1>2. Extent(B, f) + Extent(B, g) <= Space
  BY <1>1
<1>3. ASSUME NEW e \in DOMAIN B, e # f, e # g
      PROVE  Extent(B, e) + Extent(B, f) + Extent(B, g) <= Space
  <2>. DEFINE X == Extent(B, e)
              Y == Extent(B, f)
              Z == Extent(B, g)
  <2>1. /\ X \in Nat /\ Y \in Nat /\ Z \in Nat /\ e \in Nat /\ f \in Nat /\ g \in Nat
        /\ e + X <= Space /\ f + Y <= Space /\ g + Z <= Space
        /\ e < f => e + X <= f
        /\ f < e => f + Y <= e
        /\ e < g => e + X <= g
        /\ g < e => g + Z <= e
        /\ f < g => f + Y <= g
        /\ g < f => g + Z <= f
    BY <1>1
  <2>. HIDE DEF X, Y, Z
  <2>2. X + Y + Z <= Space
    BY <1>1, <1>3, <2>1
  <2>. QED  BY <2>2 DEF X, Y, Z
<1>. QED  BY <1>2, <1>3

-----------------------------------------------------------------------------
(* In B the block h is free, and every other block in use is as it was.    *)
Keeps(B, h) ==
    /\ \A g \in DOMAIN block : ~block[g].is_free /\ g # h =>
          g \in DOMAIN B /\ B[g].size = block[g].size /\ ~B[g].is_free
    /\ \A g \in DOMAIN B : g \in DOMAIN block /\ (~B[g].is_free => ~block[g].is_free /\ g # h)

(* The list B while h is being freed: its m-th block is what h has become  *)
(* part of. If no memory was taken for its own the list is still in order. *)
Freeing(B, n, s, m, h, good) ==
    /\ B \in [DOMAIN B -> Header] /\ DOMAIN B \subseteq Pages /\ Linked(B, base, n, s)
    /\ Loose(B, n, s, m) /\ Keeps(B, h)
    /\ \A g \in DOMAIN B : B[g].size < SIZE_MOD
    /\ m # n => B[s[m]].size + HEADER_SIZE + B[s[m + 1]].size < SIZE_MOD
    /\ good => Placed(B) /\ Backed(B, mapped, lossy)

(* And when it has been freed.                                             *)
Freed(n, s, h, good) ==
    /\ block' \in [DOMAIN block' -> Header] /\ DOMAIN block' \subseteq Pages
    /\ mapped' \subseteq Pages /\ Linked(block', base', n, s) /\ Alternating(block', n, s)
    /\ Keeps(block', h) /\ \A g \in DOMAIN block' : block'[g].size < SIZE_MOD
    /\ good => Placed(block') /\ Backed(block', mapped', lossy)

(* The next block of the list is merged, wherever it lies.                 *)
LEMMA FreeMerges ==
    ASSUME NEW B, NEW n \in Nat, NEW s, NEW m \in 1 .. n, NEW h, NEW good \in BOOLEAN,
           Freeing(B, n, s, m, h, good), mapped \subseteq Pages,
           m # n, B[s[m + 1]].is_free,
           block' = Merge(B, s[m]), UNCHANGED <<base, mapped>>
    PROVE  Freed(n - 1, Without(n, s, m + 1), h, good /\ ~Apart(B, s[m]))
<1>. DEFINE t == Without(n, s, m + 1)
            f == s[m]
            g == s[m + 1]
<1>1. /\ B \in [DOMAIN B -> Header] /\ DOMAIN B \subseteq Pages /\ Linked(B, base, n, s)
      /\ Loose(B, n, s, m) /\ Keeps(B, h) /\ \A e \in DOMAIN B : B[e].size < SIZE_MOD
      /\ B[f].size + HEADER_SIZE + B[g].size < SIZE_MOD /\ B[f].is_free /\ B[g].is_free
      /\ good => Placed(B) /\ Backed(B, mapped, lossy)
  BY DEF Freeing, Loose
<1>2. m \in 1 .. n - 1
  OBVIOUS
<1>3. /\ B[f].next = g /\ Merges(B, f) /\ Joins(B, f, g, block') /\ Linked(block', base, n - 1, t)
  BY <1>1, <1>2, MergeJoins
<1>4. Alternating(block', n - 1, t)
  BY <1>1, <1>2, <1>3, JoinNext
<1>. HIDE DEF t, f, g
<1>5. /\ DOMAIN block' = DOMAIN B \ {g} /\ block' \in [DOMAIN block' -> Header]
      /\ \A e \in DOMAIN block' : /\ block'[e].is_free = B[e].is_free
                                  /\ e # f => block'[e].size = B[e].size
      /\ block'[f].size = B[f].size + HEADER_SIZE + B[g].size
  BY <1>3 DEF Joins
<1>6. \A e \in DOMAIN block' : block'[e].size < SIZE_MOD
  BY <1>1, <1>5
<1>7. Keeps(block', h)
  <2>1. ASSUME NEW e \in DOMAIN block, ~block[e].is_free, e # h
        PROVE  e \in DOMAIN block' /\ block'[e].size = block[e].size /\ ~block'[e].is_free
    <3>1. e \in DOMAIN B /\ B[e].size = block[e].size /\ ~B[e].is_free
      BY <1>1, <2>1 DEF Keeps
    <3>2. e # f /\ e # g
      BY <1>1, <3>1
    <3>. QED  BY <1>5, <3>1, <3>2
  <2>2. ASSUME NEW e \in DOMAIN block'
        PROVE  e \in DOMAIN block /\ (~block'[e].is_free => ~block[e].is_free /\ e # h)
    BY <1>1, <1>5 DEF Keeps
  <2>. QED  BY <2>1, <2>2 DEF Keeps
<1>8. ASSUME good, ~Apart(B, f) PROVE Placed(block') /\ Backed(block', mapped', lossy)
  BY <1>1, <1>3, <1>8, JoinPlaced
<1>. QED  BY <1>1, <1>3, <1>4, <1>5, <1>6, <1>7, <1>8 DEF Freed, t, f

(* The next block is in use: nothing is left to do.                        *)
LEMMA FreeStays ==
    ASSUME NEW B, NEW n \in Nat, NEW s, NEW m \in 1 .. n, NEW h, NEW good \in BOOLEAN,
           Freeing(B, n, s, m, h, good), mapped \subseteq Pages,
           m # n, ~B[s[m + 1]].is_free,
           block' = B, UNCHANGED <<base, mapped>>
    PROVE  Freed(n, s, h, good)
<1>1. Alternating(B, n, s)
  <2>1. /\ \A x \in 1 .. n - 1 : x # m => ~(B[s[x]].is_free /\ B[s[x + 1]].is_free)
        /\ ~B[s[n]].is_free
    BY DEF Freeing, Loose
  <2>. QED  BY <2>1 DEF Alternating
<1>. QED  BY <1>1 DEF Freeing, Freed

(* The last block of the list goes back to the system.                     *)
LEMMA FreeReleases ==
    ASSUME NEW B, NEW n \in Nat, NEW s, NEW h, NEW good \in BOOLEAN, n # 0,
           Freeing(B, n, s, n, h, good), mapped \subseteq Pages, Release(B, s[n])
    PROVE  Freed(n - 1, Without(n, s, n), h, good)
<1>. DEFINE t == Without(n, s, n)
            f == s[n]
<1>1. /\ B \in [DOMAIN B -> Header] /\ DOMAIN B \subseteq Pages /\ Linked(B, base, n, s)
      /\ Loose(B, n, s, n) /\ Keeps(B, h) /\ \A e \in DOMAIN B : B[e].size < SIZE_MOD
      /\ good => Placed(B) /\ Backed(B, mapped, lossy)
  BY DEF Freeing
<1>2. /\ \A x \in 1 .. n : s[x] \in DOMAIN B
      /\ \A x, y \in 1 .. n : s[x] = s[y] => x = y
      /\ \A x \in 1 .. n : /\ B[s[x]].next = IF x = n THEN NULL ELSE s[x + 1]
                           /\ B[s[x]].prev = IF x = 1 THEN NULL ELSE s[x - 1]
  BY <1>1 DEF Linked
<1>3. n \in 1 .. n /\ f \in DOMAIN B /\ NULL \notin DOMAIN B
      /\ B[f].prev = IF n = 1 THEN NULL ELSE s[n - 1]
  BY <1>1, <1>2, PageIs
<1>a. f = s[n]
  OBVIOUS
<1>. HIDE DEF f
<1>4. /\ DOMAIN block' = DOMAIN B \ {f}
      /\ block' = [b \in DOMAIN B \ {f} |->
                     IF b = B[f].prev THEN [B[b] EXCEPT !.next = NULL] ELSE B[b]]
      /\ base' = (IF B[f].prev = NULL THEN NULL ELSE base)
      /\ mapped' = mapped \ PagesOf(f, HEADER_SIZE + B[f].size)
  BY <1>a DEF Release
<1>5. ASSUME NEW e \in DOMAIN block'
      PROVE  /\ block'[e] \in Header /\ block'[e].is_free = B[e].is_free
             /\ block'[e].size = B[e].size /\ block'[e].prev = B[e].prev
             /\ block'[e].next = IF e = B[f].prev THEN NULL ELSE B[e].next
  <2>1. B[e] \in Header /\ NULL \in Int
    BY <1>1, <1>4 DEF NULL
  <2>2. CASE e = B[f].prev
    <3>1. block'[e] = [B[e] EXCEPT !.next = NULL]
      BY <1>4, <2>2
    <3>. QED  BY <2>1, <2>2, <3>1 DEF Header
  <2>3. CASE e # B[f].prev
    BY <1>4, <2>1, <2>3
  <2>. QED  BY <2>2, <2>3
<1>6. block' \in [DOMAIN block' -> Header]
  <2>1. block' = [e \in DOMAIN block' |-> block'[e]]
    BY <1>4
  <2>. QED  BY <1>5, <2>1
<1>7. Linked(block', base', n - 1, t)
  <2>1. ASSUME NEW j \in 1 .. n, j # n
        PROVE  /\ block'[s[j]].next = IF j = n - 1 THEN B[s[n]].next ELSE B[s[j]].next
               /\ block'[s[j]].prev = IF j = n + 1 THEN B[s[n]].prev ELSE B[s[j]].prev
    <3>1. s[j] \in DOMAIN block' /\ j # n + 1 /\ n # 1
      BY <1>2, <1>3, <1>4, <1>a, <2>1
    <3>2. n - 1 \in 1 .. n /\ B[f].prev = s[n - 1] /\ B[s[n]].next = NULL
      BY <1>2, <1>3, <3>1
    <3>3. s[j] = B[f].prev <=> j = n - 1
      BY <1>2, <3>2
    <3>. QED  BY <1>5, <3>1, <3>2, <3>3
  <2>2. Removes(B, n, s, n, block', t)
    BY <1>3, <1>4, <1>a, <2>1 DEF Removes, Without
  <2>3. base' = IF n = 1 THEN NULL ELSE base
    <3>1. n # 1 => n - 1 \in 1 .. n
      OBVIOUS
    <3>2. B[f].prev = NULL <=> n = 1
      BY <1>2, <1>3, <3>1
    <3>. QED  BY <1>4, <3>2
  <2>. HIDE DEF t
  <2>4. Linked(block', IF n = 1 THEN NULL ELSE base, n - 1, t)
    BY <1>1, <2>2, Removed
  <2>. QED  BY <2>3, <2>4
<1>8. Alternating(block', n - 1, t)
  <2>1. /\ \A x \in 1 .. n - 1 : ~(B[s[x]].is_free /\ B[s[x + 1]].is_free)
        /\ B[s[n]].is_free
    BY <1>1 DEF Loose
  <2>2. \A x \in 1 .. n - 1 : x \in 1 .. n /\ s[x] \in DOMAIN block' /\ t[x] = s[x]
    BY <1>2, <1>3, <1>4, <1>a DEF Without
  <2>. HIDE DEF t
  <2>3. \A x \in 1 .. n - 1 - 1 : x \in 1 .. n - 1 /\ x + 1 \in 1 .. n - 1
    OBVIOUS
  <2>4. n - 1 # 0 => n - 1 \in 1 .. n - 1 /\ n - 1 + 1 = n
    OBVIOUS
  <2>. QED  BY <1>5, <2>1, <2>2, <2>3, <2>4 DEF Alternating
<1>. HIDE DEF t
<1>9. Keeps(block', h)
  <2>1. B[f].is_free
    BY <1>1, <1>a DEF Loose
  <2>2. ASSUME NEW e \in DOMAIN block, ~block[e].is_free, e # h
        PROVE  e \in DOMAIN block' /\ block'[e].size = block[e].size /\ ~block'[e].is_free
    <3>1. e \in DOMAIN B /\ B[e].size = block[e].size /\ ~B[e].is_free
      BY <1>1, <2>2 DEF Keeps
    <3>. QED  BY <1>4, <1>5, <2>1, <3>1
  <2>3. ASSUME NEW e \in DOMAIN block'
        PROVE  e \in DOMAIN block /\ (~block'[e].is_free => ~block[e].is_free /\ e # h)
    BY <1>1, <1>4, <1>5 DEF Keeps
  <2>. QED  BY <2>2, <2>3 DEF Keeps
<1>10. ASSUME good PROVE Placed(block') /\ Backed(block', mapped', lossy)
  <2>1. Placed(B) /\ Backed(B, mapped, lossy)
    BY <1>1, <1>10
  <2>2. \A e \in DOMAIN block' : Extent(block', e) = Extent(B, e) /\ e \in DOMAIN B /\ e # f
    BY <1>4, <1>5 DEF Extent
  <2>3. Placed(block')
    BY <1>1, <1>4, <1>6, <2>1, <2>2 DEF Placed
  <2>4. \A e \in DOMAIN B : Covered(B, e) = {p \in Pages : e <= p /\ p < e + Extent(B, e)}
    BY <1>1, CoveredIs
  <2>5. \A e \in DOMAIN block' : Covered(block', e) = Covered(B, e)
    BY <1>5 DEF Covered
  <2>6. mapped' = mapped \ Covered(B, f)
    BY <1>4 DEF Covered
  <2>7. ASSUME NEW e \in DOMAIN block', NEW p \in Covered(B, e) PROVE p \notin Covered(B, f)
    <3>1. /\ e \in Nat /\ f \in Nat /\ p \in Nat /\ e # f
          /\ Extent(B, e) \in Nat /\ Extent(B, f) \in Nat
      BY <1>1, <1>3, <2>2, <2>4, <2>7, PageIs DEF Extent, Header
    <3>2. /\ e < f => e + Extent(B, e) <= f
          /\ f < e => f + Extent(B, f) <= e
      BY <1>3, <2>1, <2>2 DEF Placed
    <3>. QED  BY <1>3, <2>2, <2>4, <2>7, <3>1, <3>2
  <2>8. Backed(block', mapped', lossy)
    BY <1>4, <2>1, <2>2, <2>5, <2>6, <2>7 DEF Backed
  <2>. QED  BY <2>3, <2>8
<1>11. DOMAIN block' \subseteq Pages /\ mapped' \subseteq Pages
  BY <1>1, <1>4
<1>. QED  BY <1>1, <1>5, <1>6, <1>7, <1>8, <1>9, <1>10, <1>11, <1>4 DEF Freed, t

(* The steps of my_free: the block is marked, taken into the block before  *)
(* it where that is free, and so becomes part of Head(h).                  *)
Marked(h) == [block EXCEPT ![h].is_free = TRUE]
Head(h) == IF MergesBack(h) THEN block[h].prev ELSE h
MergedBack(h) == IF MergesBack(h) THEN Merge(Marked(h), Head(h)) ELSE Marked(h)
InOrder(h) == ~(MergesBack(h) /\ Apart(Marked(h), Head(h)))

(* Marking it leaves the list and the memory as they are.                  *)
LEMMA FreeMarks ==
    ASSUME NEW n \in Nat, NEW s, Working(n, s), NEW k \in 1 .. n
    PROVE  /\ SameList(block, Marked(s[k])) /\ Linked(Marked(s[k]), base, n, s)
           /\ Around(Marked(s[k]), n, s, k) /\ Keeps(Marked(s[k]), s[k])
           /\ Placed(Marked(s[k])) /\ Backed(Marked(s[k]), mapped, lossy)
           /\ \A g \in DOMAIN block : g # s[k] => Marked(s[k])[g].is_free = block[g].is_free
<1>. DEFINE h == s[k]
            C == Marked(h)
<1>0. /\ block \in [DOMAIN block -> Header] /\ h \in DOMAIN block
      /\ Linked(block, base, n, s) /\ Alternating(block, n, s)
  BY DEF Working, Placed, Linked
<1>a. h = s[k]
  OBVIOUS
<1>. HIDE DEF h
<1>1. /\ DOMAIN C = DOMAIN block
      /\ \A g \in DOMAIN block :
            C[g] = IF g = h THEN [block[h] EXCEPT !.is_free = TRUE] ELSE block[g]
  BY DEF Marked
<1>. HIDE DEF C
<1>2. ASSUME NEW g \in DOMAIN block
      PROVE  /\ C[g] \in Header /\ C[g].size = block[g].size
             /\ C[g].next = block[g].next /\ C[g].prev = block[g].prev
             /\ C[g].is_free = IF g = h THEN TRUE ELSE block[g].is_free
  <2>1. block[g] \in Header
    BY <1>0
  <2>2. CASE g = h
    <3>1. C[g] = [block[g] EXCEPT !.is_free = TRUE]
      BY <1>1, <2>2
    <3>. QED  BY <2>1, <2>2, <3>1 DEF Header
  <2>3. CASE g # h
    <3>1. C[g] = block[g]
      BY <1>1, <2>3
    <3>. QED  BY <2>1, <2>3, <3>1
  <2>. QED  BY <2>2, <2>3
<1>3. C \in [DOMAIN C -> Header]
  <2>1. C = [g \in DOMAIN C |-> C[g]]
    BY DEF C, Marked
  <2>. QED  BY <1>1, <1>2, <2>1
<1>4. SameList(block, C)
  BY <1>0, <1>1, <1>2, <1>3 DEF SameList
<1>5. Linked(C, base, n, s) /\ Placed(C) /\ Backed(C, mapped, lossy)
  BY <1>0, <1>4, SameLayout DEF Working
<1>6. Around(C, n, s, k)
  <2>1. C[s[k]].is_free /\ \A g \in DOMAIN block : g # s[k] => C[g].is_free = block[g].is_free
    BY <1>0, <1>2, <1>a
  <2>. QED  BY <1>0, <2>1, MarkAround
<1>7. Keeps(C, h)
  BY <1>1, <1>2 DEF Keeps
<1>. QED  BY <1>2, <1>4, <1>5, <1>6, <1>7, <1>a DEF C

(* Whether or not it was merged with the block before it, no block before  *)
(* the head is free then, and no size has left size_t.                     *)
LEMMA FreeBack ==
    ASSUME NEW n \in Nat, NEW s, Working(n, s), NEW k \in 1 .. n
    PROVE  \E m \in Nat : \E t : \E x \in 1 .. m :
              t[x] = Head(s[k]) /\ Freeing(MergedBack(s[k]), m, t, x, s[k], InOrder(s[k]))
<1>. DEFINE h == s[k]
            B == Marked(h)
<1>0. /\ block \in [DOMAIN block -> Header] /\ DOMAIN block \subseteq Pages /\ Placed(block)
      /\ \A x \in 1 .. n : s[x] \in DOMAIN block
      /\ \A x, y \in 1 .. n : s[x] = s[y] => x = y
      /\ \A x \in 1 .. n : /\ block[s[x]].next = IF x = n THEN NULL ELSE s[x + 1]
                           /\ block[s[x]].prev = IF x = 1 THEN NULL ELSE s[x - 1]
  BY DEF Working, Placed, Linked
<1>1. /\ SameList(block, B) /\ Linked(B, base, n, s)
      /\ Around(B, n, s, k) /\ Keeps(B, h)
      /\ Placed(B) /\ Backed(B, mapped, lossy)
      /\ \A g \in DOMAIN block : g # h => B[g].is_free = block[g].is_free
  BY FreeMarks
<1>a. h = s[k] /\ h \in DOMAIN block
  BY <1>0
<1>. HIDE DEF h, B
<1>2. /\ B \in [DOMAIN B -> Header] /\ DOMAIN B = DOMAIN block /\ DOMAIN B \subseteq Pages
      /\ \A g \in DOMAIN B : B[g].size = block[g].size
  BY <1>0, <1>1 DEF SameList
<1>3. /\ HEADER_SIZE \in Nat \ {0} /\ Space \in Nat /\ Space <= SIZE_MOD /\ SIZE_MOD \in Nat
      /\ NULL \notin Pages
      /\ \A g \in DOMAIN B : g \in Nat /\ B[g].size \in Nat
  BY <1>2, PageIs DEF Header
<1>4. \A g \in DOMAIN B : B[g].size < SIZE_MOD
  <2>1. \A g \in DOMAIN B : g + Extent(B, g) <= Space
    BY <1>1 DEF Placed
  <2>. QED  BY <1>3, <2>1 DEF Extent
<1>5. ASSUME NEW f \in DOMAIN B, NEW g \in DOMAIN B, f # g
      PROVE  /\ B[f].size + HEADER_SIZE + B[g].size < SIZE_MOD
             /\ \A e \in DOMAIN B : e # f /\ e # g =>
                   B[f].size + HEADER_SIZE + B[g].size + HEADER_SIZE + B[e].size < SIZE_MOD
  <2>1. /\ Extent(B, f) + Extent(B, g) <= Space
        /\ \A e \in DOMAIN B : e # f /\ e # g =>
              Extent(B, e) + Extent(B, f) + Extent(B, g) <= Space
    BY <1>1, <1>5, SumOfExtents
  <2>. QED  BY <1>3, <2>1 DEF Extent
<1>6. k # n => k + 1 \in 1 .. n /\ k + 1 # k
  OBVIOUS
<1>7. CASE ~MergesBack(h)
  <2>1. MergedBack(h) = B /\ Head(h) = h /\ InOrder(h) = TRUE
    BY <1>7 DEF MergedBack, Head, InOrder, B
  <2>2. Loose(B, n, s, k)
    <3>1. ~(k - 1 \in 1 .. n - 1 /\ B[s[k - 1]].is_free)
      <4>. SUFFICES ASSUME k - 1 \in 1 .. n - 1, B[s[k - 1]].is_free PROVE FALSE
        OBVIOUS
      <4>1. k - 1 \in 1 .. n /\ k # 1 /\ k - 1 # k
        OBVIOUS
      <4>2. block[h].prev = s[k - 1] /\ s[k - 1] \in DOMAIN block /\ s[k - 1] # h
        BY <1>0, <1>a, <4>1
      <4>3. block[s[k - 1]].is_free /\ s[k - 1] # NULL
        BY <1>0, <1>1, <1>3, <4>2
      <4>. QED  BY <1>7, <4>2, <4>3 DEF MergesBack
    <3>. QED  BY <1>1, <3>1 DEF Around, Loose
  <2>3. k # n => B[s[k]].size + HEADER_SIZE + B[s[k + 1]].size < SIZE_MOD
    BY <1>0, <1>2, <1>5, <1>6
  <2>4. Freeing(B, n, s, k, h, TRUE)
    BY <1>1, <1>2, <1>4, <2>2, <2>3 DEF Freeing
  <2>. QED  BY <1>a, <2>1, <2>4
<1>8. CASE MergesBack(h)
  <2>. DEFINE f == s[k - 1]
              C == Merge(B, f)
              t == Without(n, s, k)
  <2>1. /\ k # 1 /\ block[h].prev = f /\ block[f].is_free
        /\ k - 1 \in 1 .. n - 1 /\ k - 1 + 1 = k /\ k \in 2 .. n /\ k - 1 \in 1 .. n
        /\ f \in DOMAIN B /\ f # h
    <3>1. k # 1
      BY <1>0, <1>8, <1>a DEF MergesBack
    <3>2. k - 1 \in 1 .. n - 1 /\ k - 1 + 1 = k /\ k \in 2 .. n /\ k - 1 \in 1 .. n /\ k - 1 # k
      BY <3>1
    <3>. QED  BY <1>0, <1>2, <1>8, <1>a, <3>1, <3>2 DEF MergesBack
  <2>2. MergedBack(h) = C /\ Head(h) = f /\ InOrder(h) = ~Apart(B, f)
    BY <1>8, <2>1 DEF MergedBack, Head, InOrder, B
  <2>3. B[f].is_free /\ B[h].is_free
    BY <1>1, <1>2, <1>a, <2>1 DEF Around
  <2>4. B[f].next = h /\ Merges(B, f) /\ Joins(B, f, h, C) /\ Linked(C, base, n - 1, t)
    <3>1. B[s[k - 1 + 1]].is_free
      BY <1>a, <2>1, <2>3
    <3>2. /\ B[s[k - 1]].next = s[k - 1 + 1] /\ Merges(B, s[k - 1])
          /\ Joins(B, s[k - 1], s[k - 1 + 1], Merge(B, s[k - 1]))
          /\ Linked(Merge(B, s[k - 1]), base, n - 1, Without(n, s, k - 1 + 1))
      BY <1>1, <1>2, <2>1, <3>1, MergeJoins
    <3>. QED  BY <1>a, <2>1, <3>2
  <2>5. Loose(C, n - 1, t, k - 1)
    BY <1>1, <1>a, <2>1, <2>3, <2>4, JoinBack
  <2>6. t[k - 1] = f /\ (k - 1 # n - 1 => t[k - 1 + 1] = s[k + 1])
    BY <2>1 DEF Without
  <2>. HIDE DEF f, C, t
  <2>7. /\ C \in [DOMAIN C -> Header] /\ DOMAIN C = DOMAIN B \ {h}
        /\ \A e \in DOMAIN C : C[e].is_free = B[e].is_free /\ (e # f => C[e].size = B[e].size)
        /\ C[f].size = B[f].size + HEADER_SIZE + B[h].size
    BY <2>4 DEF Joins
  <2>8. Keeps(C, h)
    <3>1. ASSUME NEW e \in DOMAIN block, ~block[e].is_free, e # h
          PROVE  e \in DOMAIN C /\ C[e].size = block[e].size /\ ~C[e].is_free
      <4>1. e \in DOMAIN B /\ B[e].size = block[e].size /\ ~B[e].is_free /\ e # f
        BY <1>1, <2>1, <3>1 DEF Keeps
      <4>. QED  BY <2>7, <3>1, <4>1
    <3>2. ASSUME NEW e \in DOMAIN C
          PROVE  e \in DOMAIN block /\ (~C[e].is_free => ~block[e].is_free /\ e # h)
      BY <1>1, <2>7 DEF Keeps
    <3>. QED  BY <3>1, <3>2 DEF Keeps
  <2>9. \A e \in DOMAIN C : C[e].size < SIZE_MOD
    BY <1>2, <1>4, <1>5, <1>a, <2>1, <2>7
  <2>10. k - 1 # n - 1 => C[t[k - 1]].size + HEADER_SIZE + C[t[k - 1 + 1]].size < SIZE_MOD
    <3>. SUFFICES ASSUME k - 1 # n - 1
                  PROVE  C[f].size + HEADER_SIZE + C[s[k + 1]].size < SIZE_MOD
      BY <2>6
    <3>1. k + 1 \in 1 .. n /\ k + 1 # k /\ k + 1 # k - 1
      OBVIOUS
    <3>2. s[k + 1] \in DOMAIN B /\ s[k + 1] # h /\ s[k + 1] # f
      BY <1>0, <1>2, <1>a, <2>1, <3>1 DEF f
    <3>3. C[s[k + 1]].size = B[s[k + 1]].size
      BY <2>7, <3>2
    <3>. QED  BY <1>2, <1>5, <1>a, <2>1, <2>7, <3>2, <3>3
  <2>11. ~Apart(B, f) => Placed(C) /\ Backed(C, mapped, lossy)
    BY <1>1, <2>4, JoinPlaced DEF Working
  <2>12. DOMAIN C \subseteq Pages
    BY <1>2, <2>7
  <2>13. Freeing(C, n - 1, t, k - 1, h, ~Apart(B, f))
    BY <2>4, <2>5, <2>7, <2>8, <2>9, <2>10, <2>11, <2>12 DEF Freeing
  <2>. QED  BY <1>a, <2>1, <2>2, <2>6, <2>13, n - 1 \in Nat
<1>. QED  BY <1>7, <1>8

(* my_free does all of it.                                                 *)
LEMMA FreeFrees ==
    ASSUME NEW n \in Nat, NEW s, Working(n, s), NEW ptr, NEW k \in 1 .. n,
           s[k] = ptr - HEADER_SIZE, my_free(ptr)
    PROVE  \E m \in Nat : \E t : Freed(m, t, s[k], ~damaged')
<1>. DEFINE h == s[k]
            head == Head(h)
            list == MergedBack(h)
<1>1. /\ IF list[head].next # NULL
         THEN block' = Merge(list, head) /\ UNCHANGED <<base, mapped>>
         ELSE Release(list, head)
      /\ damaged' = (~InOrder(h) \/ Apart(list, head))
  BY DEF my_free, Head, MergedBack, Marked, InOrder
<1>2. mapped \subseteq Pages
  BY DEF Working
<1>3. PICK m \in Nat : \E t : \E x \in 1 .. m :
         t[x] = head /\ Freeing(list, m, t, x, h, InOrder(h))
  BY FreeBack
<1>4. PICK t : \E x \in 1 .. m : t[x] = head /\ Freeing(list, m, t, x, h, InOrder(h))
  BY <1>3
<1>5. PICK x \in 1 .. m : t[x] = head /\ Freeing(list, m, t, x, h, InOrder(h))
  BY <1>4
<1>6. InOrder(h) \in BOOLEAN
  BY DEF InOrder
<1>. HIDE DEF h, head, list
<1>7. /\ list[head].next = IF x = m THEN NULL ELSE t[x + 1]
      /\ x # m => t[x + 1] # NULL
  <2>1. Linked(list, base, m, t) /\ DOMAIN list \subseteq Pages
    BY <1>5 DEF Freeing
  <2>2. x # m => x + 1 \in 1 .. m
    OBVIOUS
  <2>. QED  BY <1>5, <2>1, <2>2, PageIs DEF Linked
<1>8. CASE x # m /\ list[t[x + 1]].is_free
  <2>1. block' = Merge(list, t[x]) /\ UNCHANGED <<base, mapped>>
    BY <1>1, <1>5, <1>7, <1>8
  <2>2. Freed(m - 1, Without(m, t, x + 1), h, InOrder(h) /\ ~Apart(list, t[x]))
    BY <1>2, <1>5, <1>6, <1>8, <2>1, FreeMerges
  <2>3. ~damaged' => InOrder(h) /\ ~Apart(list, t[x])
    BY <1>1, <1>5
  <2>4. Freed(m - 1, Without(m, t, x + 1), h, ~damaged')
    BY <2>2, <2>3 DEF Freed
  <2>5. m - 1 \in Nat
    OBVIOUS
  <2>. QED  BY <2>4, <2>5 DEF h
<1>9. CASE x # m /\ ~list[t[x + 1]].is_free
  <2>1. ~Merges(list, head)
    BY <1>7, <1>9 DEF Merges
  <2>2. block' = list /\ UNCHANGED <<base, mapped>>
    BY <1>1, <1>7, <1>9, <2>1 DEF Merge
  <2>3. Freed(m, t, h, InOrder(h))
    BY <1>2, <1>5, <1>6, <1>9, <2>2, FreeStays
  <2>4. ~damaged' => InOrder(h)
    BY <1>1
  <2>5. Freed(m, t, h, ~damaged')
    BY <2>3, <2>4 DEF Freed
  <2>. QED  BY <2>5 DEF h
<1>10. CASE x = m
  <2>1. Release(list, t[m]) /\ m # 0 /\ Freeing(list, m, t, m, h, InOrder(h))
    BY <1>1, <1>5, <1>7, <1>10
  <2>2. Freed(m - 1, Without(m, t, m), h, InOrder(h))
    BY <1>2, <1>6, <2>1, FreeReleases
  <2>3. ~damaged' => InOrder(h)
    BY <1>1
  <2>4. Freed(m - 1, Without(m, t, m), h, ~damaged')
    BY <2>2, <2>3 DEF Freed
  <2>5. m - 1 \in Nat
    BY <2>1
  <2>. QED  BY <2>4, <2>5 DEF h
<1>. QED  BY <1>8, <1>9, <1>10

(* What a call of my_free does for the caller: the block it gave back is   *)
(* no longer its own, and its others stay as they are.                     *)
Returned(ptr) ==
    /\ Placed(block)' /\ DOMAIN asked' = DOMAIN asked \ {ptr}
    /\ \A p \in DOMAIN asked' : /\ p - HEADER_SIZE \in DOMAIN block' /\ p \in Int
                                /\ block'[p - HEADER_SIZE].size = block[p - HEADER_SIZE].size

(* my_free keeps the inductive invariant and returns the block.            *)
LEMMA FreeReturns ==
    ASSUME AllocatorInv, NEW ptr \in DOMAIN asked, my_free(ptr)
    PROVE  AllocatorInv' /\ (~damaged' => Returned(ptr))
<1>. DEFINE h == ptr - HEADER_SIZE
<1>1. /\ ~damaged /\ asked' = [p \in DOMAIN asked \ {ptr} |-> asked[p]] /\ lossy' = lossy
      /\ damaged' \in BOOLEAN
  BY DEF my_free
<1>2. PICK n \in Nat : \E s \in [1 .. n -> DOMAIN block] : Working(n, s)
  BY <1>1, InvWorks
<1>3. PICK s \in [1 .. n -> DOMAIN block] : Working(n, s)
  BY <1>2
<1>4. /\ HandedOut /\ FitsRequest /\ DOMAIN asked \subseteq {g + HEADER_SIZE : g \in Pages}
      /\ DOMAIN block \subseteq Pages /\ lossy \in BOOLEAN
  BY <1>1 DEF AllocatorInv
<1>5. /\ \A p \in DOMAIN asked : /\ p - HEADER_SIZE \in DOMAIN block
                                 /\ ~block[p - HEADER_SIZE].is_free /\ asked[p] \in Nat
      /\ \A g \in DOMAIN block : ~block[g].is_free => g + HEADER_SIZE \in DOMAIN asked
  BY <1>4 DEF HandedOut
<1>6. /\ HEADER_SIZE \in Nat /\ \A g \in Pages : g \in Nat
      /\ \A p \in DOMAIN asked : p \in Int
  <2>1. HEADER_SIZE \in Nat /\ \A g \in Pages : g \in Nat
    BY PageIs
  <2>. QED  BY <1>4, <2>1
<1>7. PICK k \in 1 .. n : s[k] = h
  BY <1>3, <1>5 DEF Working, Linked
<1>8. PICK m \in Nat : \E t : Freed(m, t, h, ~damaged')
  BY <1>3, <1>7, FreeFrees
<1>9. PICK t : Freed(m, t, h, ~damaged')
  BY <1>8
<1>. DEFINE u == [x \in 1 .. m |-> t[x]]
<1>10. /\ block' \in [DOMAIN block' -> Header] /\ DOMAIN block' \subseteq Pages
       /\ mapped' \subseteq Pages /\ Linked(block', base', m, t) /\ Alternating(block', m, t)
       /\ Keeps(block', h) /\ \A g \in DOMAIN block' : block'[g].size < SIZE_MOD
       /\ ~damaged' => Placed(block') /\ Backed(block', mapped', lossy)
  BY <1>9 DEF Freed
<1>11. u \in [1 .. m -> DOMAIN block'] /\ Linked(block', base', m, u) /\ Alternating(block', m, u)
  <2>1. u \in [1 .. m -> DOMAIN block'] /\ \A x \in 1 .. m : u[x] = t[x]
    BY <1>10 DEF Linked
  <2>. HIDE DEF u
  <2>2. /\ \A x \in 1 .. m : /\ x # m => x + 1 \in 1 .. m
                             /\ x # 1 => x - 1 \in 1 .. m
        /\ \A x \in 1 .. m - 1 : x \in 1 .. m /\ x + 1 \in 1 .. m
        /\ m # 0 => 1 \in 1 .. m /\ m \in 1 .. m
    OBVIOUS
  <2>3. Linked(block', base', m, u)
    <3>1. /\ \A x \in 1 .. m : t[x] \in DOMAIN block'
          /\ \A g \in DOMAIN block' : \E x \in 1 .. m : t[x] = g
          /\ \A x, y \in 1 .. m : t[x] = t[y] => x = y
          /\ base' = IF m = 0 THEN NULL ELSE t[1]
          /\ \A x \in 1 .. m : /\ block'[t[x]].next = IF x = m THEN NULL ELSE t[x + 1]
                               /\ block'[t[x]].prev = IF x = 1 THEN NULL ELSE t[x - 1]
      BY <1>10 DEF Linked
    <3>2. \A x \in 1 .. m : /\ block'[u[x]].next = IF x = m THEN NULL ELSE u[x + 1]
                            /\ block'[u[x]].prev = IF x = 1 THEN NULL ELSE u[x - 1]
      BY <2>1, <2>2, <3>1
    <3>3. /\ \A x \in 1 .. m : u[x] \in DOMAIN block'
          /\ \A g \in DOMAIN block' : \E x \in 1 .. m : u[x] = g
          /\ \A x, y \in 1 .. m : u[x] = u[y] => x = y
      BY <2>1, <3>1
    <3>4. base' = IF m = 0 THEN NULL ELSE u[1]
      BY <2>1, <2>2, <3>1
    <3>. QED  BY <3>2, <3>3, <3>4 DEF Linked
  <2>4. Alternating(block', m, u)
    BY <1>10, <2>1, <2>2 DEF Alternating
  <2>. QED  BY <2>1, <2>3, <2>4
<1>. HIDE DEF u
<1>12. ASSUME NEW p \in DOMAIN asked'
       PROVE  /\ p \in DOMAIN asked /\ asked'[p] = asked[p] /\ p - HEADER_SIZE # h
              /\ p - HEADER_SIZE \in DOMAIN block' /\ ~block'[p - HEADER_SIZE].is_free
              /\ block'[p - HEADER_SIZE].size = block[p - HEADER_SIZE].size
  <2>1. p \in DOMAIN asked /\ p # ptr /\ asked'[p] = asked[p]
    BY <1>1
  <2>2. p - HEADER_SIZE # h
    BY <1>6, <2>1
  <2>. QED  BY <1>5, <1>10, <2>1, <2>2 DEF Keeps
<1>13. ASSUME NEW g \in DOMAIN block', ~block'[g].is_free PROVE g + HEADER_SIZE \in DOMAIN asked'
  <2>1. g \in DOMAIN block /\ ~block[g].is_free /\ g # h
    BY <1>10, <1>13 DEF Keeps
  <2>2. g + HEADER_SIZE \in DOMAIN asked
    BY <1>5, <2>1
  <2>3. g + HEADER_SIZE # ptr
    BY <1>4, <1>6, <2>1
  <2>. QED  BY <1>1, <2>2, <2>3
<1>14. HandedOut'
  BY <1>5, <1>12, <1>13 DEF HandedOut
<1>15. ~damaged' => FitsRequest'
  BY <1>1, <1>4, <1>12 DEF FitsRequest
<1>16. DOMAIN asked' = DOMAIN asked \ {ptr}
  BY <1>1
<1>17. AllocatorInv'
  BY <1>1, <1>4, <1>10, <1>11, <1>14, <1>15, <1>16 DEF AllocatorInv
<1>18. ~damaged' => Returned(ptr)
  BY <1>6, <1>10, <1>12, <1>16 DEF Returned
<1>. QED  BY <1>17, <1>18

-----------------------------------------------------------------------------
(* Nothing has been asked for yet.                                         *)
LEMMA InitSound == ASSUME Init PROVE AllocatorInv
<1>. USE DEF Init
<1>1. Linked(block, base, 0, [x \in 1 .. 0 |-> NULL])
  BY DEF Linked
<1>2. Alternating(block, 0, [x \in 1 .. 0 |-> NULL])
  BY DEF Alternating
<1>3. [x \in 1 .. 0 |-> NULL] \in [1 .. 0 -> DOMAIN block]
  OBVIOUS
<1>4. block \in [DOMAIN block -> Header]
  OBVIOUS
<1>5. Placed(block) /\ Backed(block, mapped, lossy) /\ HandedOut /\ FitsRequest
  BY <1>4 DEF Placed, Backed, HandedOut, FitsRequest
<1>. QED  BY <1>1, <1>2, <1>3, <1>4, <1>5 DEF AllocatorInv

(* What a step can do: obtain a block for the caller, take one back, or    *)
(* nothing.                                                                *)
LEMMA StepSound ==
    ASSUME AllocatorInv, [Next]_vars
    PROVE  /\ AllocatorInv'
           /\ ~damaged' => \/ \E h \in Pages : \E n \in Nat : Obtained(h, n)
                           \/ \E ptr \in DOMAIN asked : Returned(ptr)
                           \/ UNCHANGED vars
<1>0. SIZE_MOD \in Nat \ {0} /\ HEADER_SIZE \in Nat \ {0}
  BY PageIs
<1>1. CASE UNCHANGED vars
  <2>1. AllocatorInv'
    BY <1>1 DEF vars, AllocatorInv, HandedOut, FitsRequest
  <2>. QED  BY <1>1, <2>1
<1>2. ASSUME NEW size \in Sizes, my_malloc(size)
      PROVE  AllocatorInv' /\ (~damaged' => \E h \in Pages : \E n \in Nat : Obtained(h, n))
  <2>1. PICK h \in Pages : Obtain(h, size, size) /\ damaged' = SplitsPastEnd(h, Total(size))
    BY <1>2 DEF my_malloc
  <2>2. size \in 0 .. SIZE_MOD - 1 /\ size \in Nat
    BY AllocatorAssumption
  <2>3. damaged' \in BOOLEAN
    BY <2>1 DEF SplitsPastEnd
  <2>4. AllocatorInv' /\ (~damaged' => Obtained(h, size))
    BY <2>1, <2>2, <2>3, ObtainObtains
  <2>. QED  BY <2>2, <2>4
<1>3. ASSUME NEW nelem \in 0 .. SIZE_MOD - 1, NEW size \in 0 .. SIZE_MOD - 1,
             my_calloc(nelem, size)
      PROVE  AllocatorInv' /\ (~damaged' => \E h \in Pages : \E n \in Nat : Obtained(h, n))
  <2>. DEFINE n == nelem * size
              bytes == n % SIZE_MOD
  <2>1. PICK h \in Pages : /\ Obtain(h, bytes, n)
                           /\ damaged' = (\/ SplitsPastEnd(h, Total(bytes))
                                          \/ block'[h].size < bytes)
    BY <1>3 DEF my_calloc
  <2>2. n \in Nat
    BY <1>0
  <2>. HIDE DEF n
  <2>3. bytes \in 0 .. SIZE_MOD - 1
    BY <1>0, <2>2, Division
  <2>4. n <= SIZE_MOD - HEADER_SIZE => n = bytes
    <3>. SUFFICES ASSUME n <= SIZE_MOD - HEADER_SIZE PROVE n = bytes
      OBVIOUS
    <3>1. n = SIZE_MOD * 0 + n /\ n \in 0 .. SIZE_MOD - 1
      BY <1>0, <2>2
    <3>2. (SIZE_MOD * 0 + n) % SIZE_MOD = n
      BY <1>0, <3>1, Remainder
    <3>. QED  BY <3>1, <3>2
  <2>. HIDE DEF bytes
  <2>5. damaged' \in BOOLEAN /\ (SplitsPastEnd(h, Total(bytes)) => damaged')
    BY <2>1
  <2>6. AllocatorInv' /\ (~damaged' => Obtained(h, n))
    BY <2>1, <2>2, <2>3, <2>4, <2>5, ObtainObtains
  <2>. QED  BY <2>2, <2>6
<1>4. ASSUME NEW ptr \in DOMAIN asked, my_free(ptr)
      PROVE  AllocatorInv' /\ (~damaged' => Returned(ptr))
  BY <1>4, FreeReturns
<1>5. ASSUME NEW size, MallocFails(size) PROVE UNCHANGED vars
  BY <1>5 DEF MallocFails
<1>6. ASSUME NEW array \in Arrays
      PROVE  array[1] \in 0 .. SIZE_MOD - 1 /\ array[2] \in 0 .. SIZE_MOD - 1
  BY AllocatorAssumption
<1>. QED  BY <1>1, <1>2, <1>3, <1>4, <1>5, <1>6 DEF Next

-----------------------------------------------------------------------------
(* A reachable state has a list whose blocks are all there are; the rest   *)
(* follows from where they lie and how they alternate.                     *)
THEOREM AllocatorInvariant == Spec => []AllocatorInv
<1>1. Init => AllocatorInv
  BY InitSound
<1>2. AllocatorInv /\ [Next]_vars => AllocatorInv'
  BY StepSound
<1>. QED  BY <1>1, <1>2, PTL DEF Spec

(* The links lead to blocks, and sizes stay within size_t: also those of   *)
(* merged blocks, which the code adds up.                                  *)
LEMMA InvTypes == ASSUME AllocatorInv PROVE TypeOK
<1>1. PICK n \in Nat : \E s \in [1 .. n -> DOMAIN block] : Linked(block, base, n, s)
  BY DEF AllocatorInv
<1>2. PICK s \in [1 .. n -> DOMAIN block] : Linked(block, base, n, s)
  BY <1>1
<1>3. /\ block \in [DOMAIN block -> Header] /\ DOMAIN block \subseteq Pages
      /\ \A h \in DOMAIN block : block[h].size < SIZE_MOD
      /\ mapped \subseteq Pages /\ lossy \in BOOLEAN /\ damaged \in BOOLEAN
      /\ DOMAIN asked \subseteq {h + HEADER_SIZE : h \in Pages}
  BY DEF AllocatorInv
<1>4. Headers = DOMAIN block
  BY <1>3 DEF Headers
<1>5. base \in DOMAIN block \cup {NULL}
  <2>1. n # 0 => 1 \in 1 .. n
    OBVIOUS
  <2>. QED  BY <1>2, <2>1 DEF Linked
<1>6. ASSUME NEW h \in DOMAIN block
      PROVE  /\ block[h] \in Header /\ block[h].size \in 0 .. SIZE_MOD - 1
             /\ block[h].next \in DOMAIN block \cup {NULL}
             /\ block[h].prev \in DOMAIN block \cup {NULL}
  <2>1. PICK x \in 1 .. n : s[x] = h
    BY <1>2 DEF Linked
  <2>2. /\ x # n => x + 1 \in 1 .. n
        /\ x # 1 => x - 1 \in 1 .. n
    OBVIOUS
  <2>3. /\ block[h].next = IF x = n THEN NULL ELSE s[x + 1]
        /\ block[h].prev = IF x = 1 THEN NULL ELSE s[x - 1]
    BY <1>2, <2>1 DEF Linked
  <2>4. block[h] \in Header /\ block[h].size \in Nat /\ SIZE_MOD \in Nat
    BY <1>3, PageIs DEF Header
  <2>. QED  BY <1>2, <1>3, <2>2, <2>3, <2>4
<1>7. block \in [DOMAIN block -> [is_free : BOOLEAN, size : 0 .. SIZE_MOD - 1,
                                  next : DOMAIN block \cup {NULL},
                                  prev : DOMAIN block \cup {NULL}]]
  <2>1. ASSUME NEW h \in DOMAIN block
        PROVE  block[h] \in [is_free : BOOLEAN, size : 0 .. SIZE_MOD - 1,
                             next : DOMAIN block \cup {NULL}, prev : DOMAIN block \cup {NULL}]
    <3>1. /\ block[h] \in Header /\ block[h].size \in 0 .. SIZE_MOD - 1
          /\ block[h].next \in DOMAIN block \cup {NULL}
          /\ block[h].prev \in DOMAIN block \cup {NULL}
      BY <1>6
    <3>. QED  BY <3>1 DEF Header
  <2>2. block = [h \in DOMAIN block |-> block[h]]
    BY <1>3
  <2>. QED  BY <2>1, <2>2
<1>. QED  BY <1>3, <1>4, <1>5, <1>7 DEF TypeOK

(* The list and the memory are the same.                                   *)
LEMMA InvMemory == ASSUME AllocatorInv PROVE ListIsMemory
<1>. SUFFICES ASSUME ~damaged
     PROVE  /\ DOMAIN block = {At[n] : n \in 0 .. Length - 1} \ {NULL}
            /\ \A n \in 1 .. Length - 1 : block[At[n]].prev = At[n - 1]
            /\ \A b, h \in DOMAIN block : b # h => Covered(block, b) \cap Covered(block, h) = {}
            /\ LET all == UNION {Covered(block, h) : h \in DOMAIN block}
               IN  IF lossy THEN all \subseteq mapped ELSE all = mapped
  BY DEF ListIsMemory
<1>1. PICK n \in Nat : \E s \in [1 .. n -> DOMAIN block] : Working(n, s)
  BY InvWorks
<1>2. PICK s \in [1 .. n -> DOMAIN block] : Working(n, s)
  BY <1>1
<1>3. /\ Linked(block, base, n, s) /\ Placed(block) /\ Backed(block, mapped, lossy)
      /\ block \in [DOMAIN block -> Header] /\ DOMAIN block \subseteq Pages
  BY <1>2 DEF Working, Placed
<1>4. DOMAIN block \subseteq Nat /\ NULL \notin DOMAIN block
  BY <1>3, PageIs
<1>5. Length = n /\ \A m \in Nat : At[m] = IF m < n THEN s[m + 1] ELSE NULL
  BY <1>3, <1>4, AtIs, LengthIs
<1>6. \A m \in 0 .. n - 1 : At[m] = s[m + 1] /\ m + 1 \in 1 .. n
  BY <1>5
<1>7. DOMAIN block = {At[m] : m \in 0 .. n - 1} \ {NULL}
  <2>1. ASSUME NEW h \in DOMAIN block PROVE \E m \in 0 .. n - 1 : At[m] = h
    <3>1. PICK x \in 1 .. n : s[x] = h
      BY <1>3 DEF Linked
    <3>2. x - 1 \in 0 .. n - 1 /\ x - 1 + 1 = x
      OBVIOUS
    <3>. QED  BY <1>6, <3>1, <3>2
  <2>2. \A m \in 0 .. n - 1 : At[m] \in DOMAIN block
    BY <1>3, <1>6 DEF Linked
  <2>. QED  BY <1>4, <2>1, <2>2
<1>8. ASSUME NEW m \in 1 .. n - 1 PROVE block[At[m]].prev = At[m - 1]
  <2>1. /\ m \in 0 .. n - 1 /\ m - 1 \in 0 .. n - 1 /\ m - 1 + 1 = m /\ m + 1 - 1 = m
        /\ m + 1 # 1 /\ m + 1 \in 1 .. n
    OBVIOUS
  <2>2. At[m] = s[m + 1] /\ At[m - 1] = s[m]
    BY <1>6, <2>1
  <2>. QED  BY <1>3, <2>1, <2>2 DEF Linked
<1>9. \A h \in DOMAIN block :
         Covered(block, h) = {p \in Pages : h <= p /\ p < h + Extent(block, h)}
  BY <1>3, CoveredIs
<1>10. ASSUME NEW b \in DOMAIN block, NEW h \in DOMAIN block, b # h,
              NEW p \in Covered(block, b), p \in Covered(block, h)
       PROVE  FALSE
  <2>1. /\ b \in Nat /\ h \in Nat /\ p \in Nat
        /\ Extent(block, b) \in Nat /\ Extent(block, h) \in Nat
    <3>1. p \in Pages
      BY <1>9, <1>10
    <3>2. block[b].size \in Nat /\ block[h].size \in Nat
      BY <1>3 DEF Header
    <3>3. b \in Nat /\ h \in Nat
      BY <1>4
    <3>4. HEADER_SIZE \in Nat /\ p \in Nat
      BY <3>1, PageIs
    <3>5. HEADER_SIZE + block[b].size \in Nat /\ HEADER_SIZE + block[h].size \in Nat
      BY <3>2, <3>4
    <3>. QED  BY <3>3, <3>4, <3>5 DEF Extent
  <2>2. /\ b < h => b + Extent(block, b) <= h
        /\ h < b => h + Extent(block, h) <= b
    BY <1>3 DEF Placed
  <2>3. b <= p /\ p < b + Extent(block, b) /\ h <= p /\ p < h + Extent(block, h)
    BY <1>9, <1>10
  <2>. QED  BY <1>10, <2>1, <2>2, <2>3
<1>11. /\ \A h \in DOMAIN block : Covered(block, h) \subseteq mapped
       /\ ~lossy => \A p \in mapped : \E h \in DOMAIN block : p \in Covered(block, h)
  BY <1>3 DEF Backed
<1>12. LET all == UNION {Covered(block, h) : h \in DOMAIN block}
       IN  IF lossy THEN all \subseteq mapped ELSE all = mapped
  BY <1>11
<1>13. \A b, h \in DOMAIN block : b # h => Covered(block, b) \cap Covered(block, h) = {}
  BY <1>10
<1>14. Length = n
  BY <1>5
<1>. QED  BY <1>7, <1>8, <1>12, <1>13, <1>14

(* No two free blocks follow each other.                                   *)
LEMMA InvCoalesced == ASSUME AllocatorInv PROVE Coalesced
<1>. SUFFICES ASSUME ~damaged, NEW h \in DOMAIN block, block[h].is_free, Merges(block, h)
              PROVE  FALSE
  BY DEF Coalesced
<1>1. PICK n \in Nat : \E s \in [1 .. n -> DOMAIN block] : Working(n, s)
  BY InvWorks
<1>2. PICK s \in [1 .. n -> DOMAIN block] : Working(n, s)
  BY <1>1
<1>3. PICK x \in 1 .. n : s[x] = h
  BY <1>2 DEF Working, Linked
<1>4. block[h].next = IF x = n THEN NULL ELSE s[x + 1]
  BY <1>2, <1>3 DEF Working, Linked
<1>5. x # n /\ block[s[x + 1]].is_free
  BY <1>4 DEF Merges
<1>6. x \in 1 .. n - 1
  BY <1>5
<1>. QED  BY <1>2, <1>3, <1>5, <1>6 DEF Working, Alternating

(* The list is well formed, describes the memory, and has its free space   *)
(* in one piece.                                                           *)
THEOREM AllocatorSound == Spec => []Inv
<1>1. AllocatorInv => Inv
  BY InvTypes, InvMemory, InvCoalesced DEF Inv
<1>. QED  BY <1>1, AllocatorInvariant, PTL

(* When the caller has nothing the allocator has nothing either: the last  *)
(* block of a list is never free.                                          *)
THEOREM AllocatorAllReturned == Spec => []AllReturned
<1>1. AllocatorInv => AllReturned
  <2>. SUFFICES ASSUME AllocatorInv, ~damaged, DOMAIN asked = {}
                PROVE  base = NULL /\ DOMAIN block = {} /\ (mapped = {} \/ lossy)
    BY DEF AllReturned
  <2>1. PICK n \in Nat : \E s \in [1 .. n -> DOMAIN block] : Working(n, s)
    BY InvWorks
  <2>2. PICK s \in [1 .. n -> DOMAIN block] : Working(n, s)
    BY <2>1
  <2>3. \A h \in DOMAIN block : block[h].is_free
    BY DEF AllocatorInv, HandedOut
  <2>4. n = 0
    <3>1. n # 0 => n \in 1 .. n
      OBVIOUS
    <3>. QED  BY <2>2, <2>3, <3>1 DEF Working, Alternating, Linked
  <2>5. DOMAIN block = {} /\ base = NULL
    BY <2>2, <2>4 DEF Working, Linked
  <2>. QED  BY <2>2, <2>5 DEF Working, Backed
<1>. QED  BY <1>1, AllocatorInvariant, PTL

(* A block has room for what was asked for, unless the size wrapped.       *)
THEOREM AllocatorFits == Spec => []FitsRequest
<1>1. AllocatorInv => FitsRequest
  BY DEF AllocatorInv, FitsRequest
<1>. QED  BY <1>1, AllocatorInvariant, PTL

-----------------------------------------------------------------------------
(* A new block is one that malloc may return: it lies in the address space *)
(* and overlaps with none that the caller has.                             *)
LEMMA ObtainedIsMalloc ==
    ASSUME AllocatorInv, ~damaged, AllocatorInv', ~damaged',
           NEW h \in Pages, NEW n, Obtained(h, n)
    PROVE  h + HEADER_SIZE \in 0 .. Space - 1 /\ Malloc!Malloc(h + HEADER_SIZE)
<1>. DEFINE p == h + HEADER_SIZE
            S == block'[h].size
<1>1. /\ Placed(block') /\ h \in DOMAIN block' /\ S > 0
      /\ p \notin DOMAIN asked /\ DOMAIN asked' = DOMAIN asked \cup {p}
      /\ \A q \in DOMAIN asked : /\ q - HEADER_SIZE \in DOMAIN block' /\ q \in Int
                                 /\ q - HEADER_SIZE # h
                                 /\ block'[q - HEADER_SIZE].size = block[q - HEADER_SIZE].size
  BY DEF Obtained
<1>2. /\ HEADER_SIZE \in Nat \ {0} /\ Space \in Nat
      /\ \A g \in DOMAIN block' : g \in Nat /\ block'[g].size \in Nat
  BY <1>1, PageIs DEF Placed, Header
<1>3. /\ \A g \in DOMAIN block' : g + HEADER_SIZE + block'[g].size <= Space
      /\ \A f, g \in DOMAIN block' : f < g => f + HEADER_SIZE + block'[f].size <= g
  BY <1>1, <1>2 DEF Placed, Extent
<1>4. p - HEADER_SIZE = h /\ p \in Nat
  BY <1>1, <1>2
<1>5. InUse' = [q \in DOMAIN asked' |-> block'[q - HEADER_SIZE].size]
  BY DEF InUse
<1>6. p \notin DOMAIN InUse /\ DOMAIN InUse' = DOMAIN InUse \cup {p} /\ InUse'[p] = S
  BY <1>1, <1>4, <1>5 DEF InUse
<1>7. p \in 0 .. Space - 1 /\ Malloc!Room(p, S) \subseteq 0 .. Space - 1
  <2>1. h + HEADER_SIZE + S <= Space /\ S \in Nat /\ h \in Nat
    BY <1>1, <1>2, <1>3
  <2>. HIDE DEF S
  <2>. QED  BY <1>1, <1>2, <2>1 DEF Malloc!Room
<1>8. ASSUME NEW q \in DOMAIN InUse
      PROVE  Malloc!Room(p, S) \cap Malloc!Room(q, InUse[q]) = {} /\ InUse'[q] = InUse[q]
  <2>. DEFINE g == q - HEADER_SIZE
              R == InUse[q]
  <2>1. /\ q \in DOMAIN asked /\ q \in Int /\ g \in DOMAIN block' /\ g # h
        /\ R = block[g].size /\ block'[g].size = R /\ InUse'[q] = R
    BY <1>1, <1>5, <1>8 DEF InUse
  <2>2. g \in Nat /\ R \in Nat /\ S \in Nat /\ h \in Nat /\ q = g + HEADER_SIZE
    BY <1>1, <1>2, <2>1
  <2>3. /\ g < h => g + HEADER_SIZE + R <= h
        /\ h < g => h + HEADER_SIZE + S <= g
    BY <1>1, <1>3, <2>1
  <2>. HIDE DEF g, R, S
  <2>4. Malloc!Room(p, S) \cap Malloc!Room(q, R) = {}
    BY <1>2, <2>1, <2>2, <2>3 DEF Malloc!Room
  <2>. QED  BY <2>1, <2>4 DEF R
<1>. QED  BY <1>1, <1>6, <1>7, <1>8 DEF Malloc!Malloc

(* A block that is given back is one the caller had.                       *)
LEMMA ReturnedIsFree ==
    ASSUME AllocatorInv, ~damaged, NEW ptr \in DOMAIN asked, Returned(ptr)
    PROVE  ptr \in 0 .. Space - 1 /\ Malloc!Free(ptr)
<1>1. /\ DOMAIN asked' = DOMAIN asked \ {ptr}
      /\ \A p \in DOMAIN asked' : block'[p - HEADER_SIZE].size = block[p - HEADER_SIZE].size
  BY DEF Returned
<1>2. InUse' = [q \in DOMAIN asked' |-> block'[q - HEADER_SIZE].size]
  BY DEF InUse
<1>3. InUse' = [q \in DOMAIN InUse \ {ptr} |-> InUse[q]]
  BY <1>1, <1>2 DEF InUse
<1>4. ptr \in 0 .. Space - 1
  <2>1. PICK h \in Pages : ptr = h + HEADER_SIZE
    BY DEF AllocatorInv
  <2>. QED  BY <2>1, PageIs
<1>. QED  BY <1>3, <1>4 DEF Malloc!Free, InUse

(* Until something is damaged the allocator is a malloc.                   *)
THEOREM AllocatorImplementsMalloc == Spec => ImplementsMalloc
<1>1. Init => Malloc!Init
  BY DEF Init, Malloc!Init, InUse
<1>2. AllocatorInv /\ [Next]_vars => (damaged => UNCHANGED vars)
  BY DEF Next, my_malloc, MallocFails, my_calloc, my_free, Obtain
<1>3. AllocatorInv /\ [Next]_vars => [~damaged' => [Malloc!Next]_InUse]_vars
  <2>. SUFFICES ASSUME AllocatorInv, [Next]_vars, ~damaged', ~UNCHANGED vars
                PROVE  Malloc!Next
    OBVIOUS
  <2>1. ~damaged
    BY <1>2
  <2>2. AllocatorInv'
    BY StepSound
  <2>3. CASE \E h \in Pages : \E n \in Nat : Obtained(h, n)
    <3>1. PICK h \in Pages : \E n \in Nat : Obtained(h, n)
      BY <2>3
    <3>2. PICK n \in Nat : Obtained(h, n)
      BY <3>1
    <3>3. h + HEADER_SIZE \in 0 .. Space - 1 /\ Malloc!Malloc(h + HEADER_SIZE)
      BY <2>1, <2>2, <3>2, ObtainedIsMalloc
    <3>. QED  BY <3>3 DEF Malloc!Next
  <2>4. CASE \E ptr \in DOMAIN asked : Returned(ptr)
    <3>1. PICK ptr \in DOMAIN asked : Returned(ptr)
      BY <2>4
    <3>2. ptr \in 0 .. Space - 1 /\ Malloc!Free(ptr)
      BY <2>1, <3>1, ReturnedIsFree
    <3>. QED  BY <3>2 DEF Malloc!Next
  <2>. QED  BY <2>3, <2>4, StepSound
<1>. QED  BY <1>1, <1>3, AllocatorInvariant, PTL DEF Spec, ImplementsMalloc

=============================================================================
