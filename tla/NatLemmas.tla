------------------------------- MODULE NatLemmas -------------------------------
(***************************************************************************)
(* Facts about natural numbers that the proofs about the components need:  *)
(* least elements, induction and iteration, stated for sets so that no     *)
(* operator has to be substituted, quotients and remainders, and powers of *)
(* two.                                                                    *)
(***************************************************************************)
EXTENDS Integers, WellFoundedInduction, FiniteSetTheorems, TLAPS

(* A non-empty set of numbers has a least element, so that a search which  *)
(* stops at the first hit finds one.                                       *)
LEMMA LeastNat ==
    ASSUME NEW T \in SUBSET Nat, T # {}
    PROVE  \E x \in T : \A y \in T : x <= y
<1> DEFINE R == {ss \in Nat \X Nat : ss[1] < ss[2]}
<1>1. IsWellFoundedOn(R, Nat)
  BY NatLessThanWellFounded DEF OpToRel
<1>2. \E x \in T : \A y \in T : ~(<<y, x>> \in R)
  <2> HIDE DEF R
  <2> QED BY <1>1, WFMin
<1>3. \A x, y \in Nat : ~(<<y, x>> \in R) => x <= y
  OBVIOUS
<1> QED BY <1>2, <1>3

(* Induction: a set with 0 that has n + 1 for every n in it has all        *)
(* numbers.                                                                *)
LEMMA SetInduction ==
    ASSUME NEW S, 0 \in S, \A n \in Nat : n \in S => n + 1 \in S
    PROVE  Nat \subseteq S
<1>1. ASSUME Nat \ S # {}
      PROVE  FALSE
  <2>1. PICK x \in Nat \ S : \A y \in Nat \ S : x <= y
    BY <1>1, LeastNat
  <2>2. x - 1 \in Nat /\ x - 1 \in S
    BY <2>1
  <2> QED BY <2>1, <2>2
<1> QED BY <1>1

(* A function can be iterated: what a loop that replaces d by F[d] has     *)
(* after n rounds is a function of n.                                      *)
Iterates(f, D, x, F) ==
    /\ f \in [Nat -> D]
    /\ f[0] = x
    /\ \A n \in Nat : f[n + 1] = F[f[n]]

LEMMA IterationExists ==
    ASSUME NEW D, NEW x \in D, NEW F \in [D -> D]
    PROVE  \E f : Iterates(f, D, x, F)
<1> DEFINE Part(n, g) == /\ g \in [0 .. n -> D]
                         /\ g[0] = x
                         /\ \A k \in 0 .. n - 1 : g[k + 1] = F[g[k]]
           S == {n \in Nat : \E g : Part(n, g)}
           T == {k \in Nat : \A n, m \in Nat : \A g, h :
                     Part(n, g) /\ Part(m, h) /\ k <= n /\ k <= m => g[k] = h[k]}
<1>1. \A n \in Nat : \E g : Part(n, g)
  <2>1. 0 \in S
    <3>1. Part(0, [k \in 0 .. 0 |-> x])
      OBVIOUS
    <3> HIDE DEF Part
    <3> QED BY <3>1
  <2>2. ASSUME NEW n \in Nat, n \in S
        PROVE  n + 1 \in S
    <3>1. PICK g : Part(n, g)
      BY <2>2
    <3> DEFINE h == [k \in 0 .. n + 1 |-> IF k <= n THEN g[k] ELSE F[g[n]]]
    <3>2. \A k \in 0 .. n : g[k] \in D /\ F[g[k]] \in D
      BY <3>1
    <3>3. h \in [0 .. n + 1 -> D] /\ h[0] = x
      BY <3>1, <3>2
    <3>4. \A k \in 0 .. (n + 1) - 1 : h[k + 1] = F[h[k]]
      BY <3>1
    <3>5. Part(n + 1, h)
      <4> HIDE DEF h
      <4> QED BY <3>3, <3>4
    <3> HIDE DEF Part, h
    <3> QED BY <3>5
  <2>3. Nat \subseteq S
    <3> HIDE DEF S
    <3> QED BY <2>1, <2>2, SetInduction
  <2> HIDE DEF Part
  <2> QED BY <2>3
<1>2. \A k \in Nat : k \in T
  <2>1. 0 \in T
    OBVIOUS
  <2>2. ASSUME NEW k \in Nat, k \in T
        PROVE  k + 1 \in T
    <3> SUFFICES ASSUME NEW n \in Nat, NEW m \in Nat, NEW g, NEW h,
                        Part(n, g), Part(m, h), k + 1 <= n, k + 1 <= m
                 PROVE  g[k + 1] = h[k + 1]
      <4> HIDE DEF Part
      <4> QED OBVIOUS
    <3>1. g[k] = h[k]
      <4> HIDE DEF Part
      <4>1. k <= n /\ k <= m
        OBVIOUS
      <4> QED BY <2>2, <4>1
    <3>2. k \in 0 .. n - 1 /\ k \in 0 .. m - 1
      OBVIOUS
    <3> QED BY <3>1, <3>2
  <2>3. Nat \subseteq T
    <3> HIDE DEF T
    <3> QED BY <2>1, <2>2, SetInduction
  <2> QED BY <2>3
<1>3. PICK part : \A n \in Nat : Part(n, part[n])
  <2> DEFINE c == [n \in Nat |-> CHOOSE g : Part(n, g)]
  <2>1. \A n \in Nat : Part(n, c[n])
    <3> HIDE DEF Part
    <3> QED BY <1>1
  <2> HIDE DEF Part, c
  <2> QED BY <2>1
<1> DEFINE f == [n \in Nat |-> part[n][n]]
<1>4. f \in [Nat -> D]
  <2>1. ASSUME NEW n \in Nat PROVE part[n][n] \in D
    <3>1. part[n] \in [0 .. n -> D] /\ n \in 0 .. n
      BY <1>3
    <3> QED BY <3>1
  <2> QED BY <2>1
<1>5. f[0] = x
  BY <1>3
<1>6. ASSUME NEW n \in Nat PROVE f[n + 1] = F[f[n]]
  <2>1. Part(n + 1, part[n + 1]) /\ Part(n, part[n]) /\ n \in 0 .. (n + 1) - 1 /\ n + 1 \in Nat
    <3>1. n + 1 \in Nat /\ n \in 0 .. (n + 1) - 1
      OBVIOUS
    <3> HIDE DEF Part
    <3> QED BY <1>3, <3>1
  <2>2. part[n + 1][n + 1] = F[part[n + 1][n]]
    BY <2>1
  <2>3. part[n + 1][n] = part[n][n]
    <3> HIDE DEF Part
    <3>1. n \in T /\ n <= n /\ n <= n + 1
      <4> HIDE DEF T
      <4> QED BY <1>2
    <3> QED BY <2>1, <3>1
  <2> QED BY <2>2, <2>3
<1>7. Iterates(f, D, x, F)
  <2> HIDE DEF f
  <2> QED BY <1>4, <1>5, <1>6 DEF Iterates
<1> HIDE DEF f
<1> QED BY <1>7

(* A sum of two indices wraps at most once.                                *)
LEMMA RingIndex ==
    ASSUME NEW n \in Nat \ {0}, NEW a \in 0 .. 2 * n - 1
    PROVE  a % n = IF a < n THEN a ELSE a - n
<1>1. a % n \in 0 .. n - 1 /\ a = (n * (a \div n)) + (a % n)
  OBVIOUS
<1>2. CASE a < n
  BY <1>2
<1>3. CASE a >= n
  BY <1>1, <1>3
<1> QED BY <1>2, <1>3

(* Quotient and remainder are what multiplies back.                        *)
LEMMA Quotient ==
    ASSUME NEW b \in Nat \ {0}, NEW q \in Int, NEW r \in 0 .. b - 1
    PROVE  (b * q + r) \div b = q /\ (b * q + r) % b = r
<1> DEFINE a == b * q + r
<1>1. a \in Int
  OBVIOUS
<1>2. a % b \in 0 .. b - 1 /\ a = (b * (a \div b)) + (a % b) /\ a \div b \in Int
  BY <1>1
<1> DEFINE p == a \div b
<1>3. b * (q - p) = (a % b) - r
  BY <1>2
<1>4. ~(q - p >= 1)
  BY <1>2, <1>3
<1>5. ~(q - p <= -1)
  BY <1>2, <1>3
<1>6. p = q
  BY <1>2, <1>4, <1>5
<1> QED BY <1>2, <1>6

-----------------------------------------------------------------------------
(* Powers of two, from the number of subsets of an interval.               *)

LEMMA PowerZero == 2 ^ 0 = 1
BY FS_SUBSET, FS_EmptySet, FS_Singleton

LEMMA PowerNat ==
    ASSUME NEW n \in Nat
    PROVE  /\ 2 ^ n = Cardinality(SUBSET (1 .. n))
           /\ 2 ^ n \in Nat
<1>1. IsFiniteSet(1 .. n) /\ Cardinality(1 .. n) = n
  BY FS_Interval
<1>2. IsFiniteSet(SUBSET (1 .. n)) /\ Cardinality(SUBSET (1 .. n)) = 2 ^ Cardinality(1 .. n)
  BY <1>1, FS_SUBSET
<1>3. Cardinality(SUBSET (1 .. n)) \in Nat
  BY <1>2, FS_CardinalityType
<1> QED BY <1>1, <1>2, <1>3

LEMMA PowerSucc ==
    ASSUME NEW n \in Nat
    PROVE  2 ^ (n + 1) = 2 * 2 ^ n
<1>a. IsFiniteSet(1 .. n) /\ Cardinality(1 .. n) = n
  BY FS_Interval
<1>b. IsFiniteSet(SUBSET (1 .. n)) /\ Cardinality(SUBSET (1 .. n)) = 2 ^ Cardinality(1 .. n)
  BY <1>a, FS_SUBSET
<1>c. \A k \in Nat : 2 ^ k = Cardinality(SUBSET (1 .. k)) /\ 2 ^ k \in Nat
  BY PowerNat
<1>6. 2 ^ (n + 1) = Cardinality(SUBSET (1 .. n + 1)) /\ 2 ^ n \in Nat
  <2>1. n + 1 \in Nat
    OBVIOUS
  <2> QED BY <1>c, <2>1
<1> DEFINE A == SUBSET (1 .. n)
           m == n + 1
           B == {a \cup {m} : a \in A}
<1>1. IsFiniteSet(A) /\ Cardinality(A) = 2 ^ n
  BY <1>a, <1>b
<1>2. IsFiniteSet(B) /\ Cardinality(B) = Cardinality(A)
  <2> DEFINE f == [a \in A |-> a \cup {m}]
  <2>1. f \in Bijection(A, B)
    <3>1. f \in [A -> B]
      OBVIOUS
    <3>2. \A a, b \in A : f[a] = f[b] => a = b
      <4> SUFFICES ASSUME NEW a \in A, NEW b \in A, f[a] = f[b]
                   PROVE  a = b
        OBVIOUS
      <4>1. a \cup {m} = b \cup {m} /\ m \notin a /\ m \notin b
        OBVIOUS
      <4> QED BY <4>1
    <3>3. \A b \in B : \E a \in A : f[a] = b
      OBVIOUS
    <3> QED BY <3>1, <3>2, <3>3 DEF Bijection, Injection, Surjection, IsInjective
  <2>2. ExistsBijection(A, B)
    BY <2>1 DEF ExistsBijection
  <2> QED BY <1>1, <2>2, FS_Bijection
<1>3. SUBSET (1 .. m) = A \cup B
  <2>1. ASSUME NEW c \in SUBSET (1 .. m)
        PROVE  c \in A \cup B
    <3>1. CASE m \in c
      <4>1. c \ {m} \in A /\ c = (c \ {m}) \cup {m}
        BY <3>1
      <4> QED BY <4>1
    <3>2. CASE m \notin c
      BY <3>2
    <3> QED BY <3>1, <3>2
  <2>2. ASSUME NEW c \in A \cup B
        PROVE  c \subseteq 1 .. m
    <3>1. 1 .. n \subseteq 1 .. m /\ m \in 1 .. m
      OBVIOUS
    <3> QED BY <3>1
  <2> QED BY <2>1, <2>2
<1>4. A \cap B = {}
  <2>1. \A a \in A : m \notin a
    OBVIOUS
  <2>2. \A b \in B : m \in b
    OBVIOUS
  <2> QED BY <2>1, <2>2
<1>5. Cardinality(A \cup B) = Cardinality(A) + Cardinality(B)
  <2> HIDE DEF A, B
  <2>1. Cardinality(A \cup B) = Cardinality(A) + Cardinality(B) - Cardinality(A \cap B)
    BY <1>1, <1>2, FS_Union
  <2>2. Cardinality(A \cap B) = 0
    BY <1>4, FS_EmptySet
  <2> QED BY <1>1, <1>2, <1>6, <2>1, <2>2
<1>7. Cardinality(SUBSET (1 .. n + 1)) = 2 ^ n + 2 ^ n
  <2> HIDE DEF A, B
  <2> QED BY <1>1, <1>2, <1>3, <1>5
<1> QED BY <1>6, <1>7

(* A larger exponent at least doubles.                                     *)
LEMMA PowerGrows ==
    ASSUME NEW i \in Nat, NEW j \in Nat, i < j
    PROVE  2 * 2 ^ i <= 2 ^ j
<1>a. \A k \in Nat : 2 ^ k \in Nat /\ 2 ^ (k + 1) = 2 * 2 ^ k
  BY PowerNat, PowerSucc
<1> DEFINE S == {d \in Nat : 2 * 2 ^ i <= 2 ^ (i + 1 + d)}
<1>1. 0 \in S
  BY <1>a
<1>2. ASSUME NEW d \in Nat, d \in S
      PROVE  d + 1 \in S
  <2>1. 2 ^ ((i + 1 + d) + 1) = 2 * 2 ^ (i + 1 + d)
    BY <1>a
  <2>2. 2 ^ (i + 1 + d) \in Nat /\ 2 ^ i \in Nat
    BY <1>a
  <2>3. i + 1 + (d + 1) = (i + 1 + d) + 1
    OBVIOUS
  <2> QED BY <1>2, <2>1, <2>2, <2>3
<1>3. Nat \subseteq S
  <2> HIDE DEF S
  <2> QED BY <1>1, <1>2, SetInduction
<1>4. j - i - 1 \in S
  BY <1>3
<1>5. i + 1 + (j - i - 1) = j
  OBVIOUS
<1> QED BY <1>4, <1>5
=============================================================================
