------------------------------ MODULE Arithmetic ------------------------------
(***************************************************************************)
(* Facts about quotients, remainders, least elements, powers of two and    *)
(* the first elements of a set that the proofs of several components use.  *)
(***************************************************************************)
EXTENDS Integers, WellFoundedInduction, FiniteSetTheorems, TLAPS

(* A number is its two digits, whichever way they were found.              *)
LEMMA DigitsUnique ==
  ASSUME NEW N \in Nat \ {0}, NEW a \in Int, NEW b \in 0 .. N - 1
  PROVE  (a * N + b) % N = b /\ (a * N + b) \div N = a
OBVIOUS

LEMMA Digits ==
  ASSUME NEW N \in Nat \ {0}, NEW a \in Int
  PROVE  /\ a % N \in 0 .. N - 1 /\ a \div N \in Int
         /\ a = (a \div N) * N + (a % N)
OBVIOUS

LEMMA ProductMonotone ==
  ASSUME NEW N \in Nat, NEW a \in Int, NEW b \in Int, a >= b
  PROVE  a * N >= b * N
OBVIOUS

(* A number below M * N has a quotient below M.                            *)
LEMMA QuotientBound ==
  ASSUME NEW N \in Nat \ {0}, NEW M \in Nat, NEW a \in Nat, a < M * N
  PROVE  a \div N \in Nat /\ a \div N < M
<1>1. a % N \in 0 .. N - 1 /\ a \div N \in Int /\ a = (a \div N) * N + (a % N)
  BY Digits
<1>2. a \div N >= 0
  <2> SUFFICES ASSUME a \div N <= -1 PROVE FALSE
    BY <1>1
  <2>1. (-1) * N >= (a \div N) * N
    BY <1>1, ProductMonotone
  <2> QED
    BY <1>1, <2>1
<1>3. a \div N < M
  <2> SUFFICES ASSUME a \div N >= M PROVE FALSE
    BY <1>1
  <2>1. (a \div N) * N >= M * N
    BY <1>1, ProductMonotone
  <2> QED
    BY <1>1, <2>1
<1> QED
  BY <1>1, <1>2, <1>3

(* A larger number has no smaller quotient, and no quotient is larger than *)
(* its number.                                                             *)
LEMMA QuotientMonotone ==
  ASSUME NEW N \in Nat \ {0}, NEW a \in Int, NEW b \in Int, a <= b
  PROVE  a \div N <= b \div N
<1>1. /\ a % N \in 0 .. N - 1 /\ a \div N \in Int /\ a = (a \div N) * N + (a % N)
      /\ b % N \in 0 .. N - 1 /\ b \div N \in Int /\ b = (b \div N) * N + (b % N)
  BY Digits
<1> SUFFICES ASSUME a \div N >= (b \div N) + 1 PROVE FALSE
  BY <1>1
<1>2. (a \div N) * N >= ((b \div N) + 1) * N
  BY <1>1, ProductMonotone
<1>3. ((b \div N) + 1) * N = (b \div N) * N + N
  BY <1>1
<1> QED
  BY <1>1, <1>2, <1>3

LEMMA QuotientSmall ==
  ASSUME NEW N \in Nat \ {0}, NEW a \in Nat
  PROVE  a \div N \in Nat /\ a \div N <= a
<1>1. (a \div N) \in Int /\ a = (a \div N) * N + (a % N) /\ a % N \in 0 .. N - 1
  BY Digits
<1>2. a \div N \in Nat
  <2>1. 0 \div N <= a \div N
    BY QuotientMonotone
  <2>2. 0 \div N = 0
    BY DigitsUnique
  <2> QED
    BY <1>1, <2>1, <2>2
<1>3. N * (a \div N) >= 1 * (a \div N)
  BY <1>2, ProductMonotone
<1> QED
  BY <1>1, <1>2, <1>3

(* A nonempty set of naturals has a least element.                         *)
LEMMA LeastExists ==
  ASSUME NEW T, T \subseteq Nat, T # {}
  PROVE  \E x \in T : \A y \in T : x <= y
<1>1. PICK x \in T : \A y \in T : ~ (<<y, x>> \in OpToRel(<, Nat))
  BY NatLessThanWellFounded, WFMin, Zenon
<1>2. \A y \in T : ~ (y < x)
  BY <1>1 DEF OpToRel
<1> QED
  BY <1>2

(* A power of two counts the subsets of a set: it is positive, and one     *)
(* element more doubles it.                                                *)
LEMMA PowerCounts ==
  ASSUME NEW n \in Nat
  PROVE  /\ IsFiniteSet(SUBSET (1 .. n)) /\ Cardinality(SUBSET (1 .. n)) = 2 ^ n
         /\ 2 ^ n \in Nat \ {0}
<1>1. IsFiniteSet(1 .. n) /\ Cardinality(1 .. n) = n
  BY FS_Interval
<1>2. IsFiniteSet(SUBSET (1 .. n)) /\ Cardinality(SUBSET (1 .. n)) = 2 ^ n
  BY <1>1, FS_SUBSET
<1>3. SUBSET (1 .. n) # {}
  OBVIOUS
<1>4. Cardinality(SUBSET (1 .. n)) \in Nat /\ Cardinality(SUBSET (1 .. n)) # 0
  BY <1>2, <1>3, FS_CardinalityType, FS_EmptySet
<1> QED
  BY <1>2, <1>4

LEMMA PowerDoubles ==
  ASSUME NEW n \in Nat
  PROVE  2 ^ (n + 1) = 2 * 2 ^ n
<1> DEFINE A == SUBSET (1 .. n)
           C == SUBSET (1 .. (n + 1))
           With(a) == a \union {n + 1}
           B == {With(a) : a \in A}
           f == [a \in A |-> With(a)]
<1>1. IsFiniteSet(A) /\ Cardinality(A) = 2 ^ n /\ Cardinality(C) = 2 ^ (n + 1) /\ 2 ^ n \in Nat
  <2>1. n + 1 \in Nat
    OBVIOUS
  <2> QED
    BY <2>1, PowerCounts
<1>2. n + 1 \notin 1 .. n /\ 1 .. (n + 1) = (1 .. n) \union {n + 1}
  OBVIOUS
<1>3. f \in Bijection(A, B)
  <2>1. \A a, b \in A : With(a) = With(b) => a = b
    BY <1>2
  <2> HIDE DEF With, A
  <2>2. f \in [A -> B] /\ \A a \in A : f[a] = With(a)
    OBVIOUS
  <2>3. \A b \in B : \E a \in A : f[a] = b
    OBVIOUS
  <2> HIDE DEF f, B
  <2>4. f \in Injection(A, B)
    BY <2>1, <2>2 DEF Injection, IsInjective
  <2>5. f \in Surjection(A, B)
    BY <2>2, <2>3 DEF Surjection
  <2> QED
    BY <2>4, <2>5 DEF Bijection
<1>4. IsFiniteSet(B) /\ Cardinality(B) = 2 ^ n
  BY <1>1, <1>3, FS_Bijection DEF ExistsBijection
<1>5. C = A \union B
  <2>1. A \union B \subseteq C
    BY <1>2
  <2>2. ASSUME NEW c \in C PROVE c \in A \union B
    <3>1. CASE n + 1 \in c
      <4>1. c \ {n + 1} \in A /\ c = With(c \ {n + 1})
        BY <1>2, <3>1
      <4> QED
        BY <4>1
    <3>2. CASE n + 1 \notin c
      BY <1>2, <3>2
    <3> QED
      BY <3>1, <3>2
  <2> QED
    BY <2>1, <2>2
<1>6. A \intersect B = {}
  BY <1>2
<1>7. Cardinality(C) = Cardinality(A) + Cardinality(B) - Cardinality(A \intersect B)
  BY <1>1, <1>4, <1>5, FS_Union
<1>8. Cardinality(A \intersect B) = 0
  BY <1>6, FS_EmptySet
<1> HIDE DEF A, B, C
<1> QED
  BY <1>1, <1>4, <1>7, <1>8

-----------------------------------------------------------------------------
(***************************************************************************)
(* The first elements of a finite set, in the order of a key.              *)
(***************************************************************************)
Below(S, key, x) == {y \in S : key[y] < key[x]}
FirstOf(S, key, n) == {x \in S : Cardinality(Below(S, key, x)) < n}

Keyed(S, key) ==
  IsFiniteSet(S) /\ key \in [S -> Nat] /\ \A x, y \in S : key[x] = key[y] => x = y

LEMMA RankGrows ==
  ASSUME NEW S, NEW key, Keyed(S, key), NEW x \in S
  PROVE  /\ IsFiniteSet(Below(S, key, x)) /\ Cardinality(Below(S, key, x)) \in Nat
         /\ \A y \in S : key[x] < key[y] =>
              Cardinality(Below(S, key, x)) < Cardinality(Below(S, key, y))
<1>1. \A y \in S : IsFiniteSet(Below(S, key, y)) /\ Cardinality(Below(S, key, y)) \in Nat
  BY FS_Subset, FS_CardinalityType DEF Below, Keyed
<1>2. ASSUME NEW y \in S, key[x] < key[y]
      PROVE  Cardinality(Below(S, key, x)) < Cardinality(Below(S, key, y))
  <2>1. key[x] \in Nat /\ key[y] \in Nat /\ \A z \in S : key[z] \in Nat
    BY DEF Keyed
  <2>2. Below(S, key, x) \in SUBSET Below(S, key, y)
    BY <1>2, <2>1 DEF Below
  <2>3. x \in Below(S, key, y) /\ x \notin Below(S, key, x)
    BY <1>2, <2>1 DEF Below
  <2>4. /\ Cardinality(Below(S, key, x)) <= Cardinality(Below(S, key, y))
        /\ Cardinality(Below(S, key, y)) = Cardinality(Below(S, key, x))
             => Below(S, key, y) = Below(S, key, x)
    BY <1>1, <2>2, FS_Subset
  <2> QED
    BY <1>1, <2>3, <2>4
<1> QED
  BY <1>1, <1>2

LEMMA FirstStep ==
  ASSUME NEW S, NEW key, Keyed(S, key), NEW n \in Nat, n < Cardinality(S),
         Cardinality(FirstOf(S, key, n)) = n
  PROVE  Cardinality(FirstOf(S, key, n + 1)) = n + 1
<1> DEFINE F == FirstOf(S, key, n)
           rank(x) == Cardinality(Below(S, key, x))
           rest == {key[x] : x \in S \ F}
<1>0. IsFiniteSet(S) /\ \A z \in S : key[z] \in Nat
  BY DEF Keyed
<1>1. F \in SUBSET S /\ IsFiniteSet(F) /\ F # S
  <2>1. F \in SUBSET S
    BY DEF FirstOf
  <2>2. IsFiniteSet(F)
    BY <1>0, <2>1, FS_Subset
  <2> QED
    BY <2>1, <2>2
<1>2. rest \subseteq Nat /\ rest # {}
  BY <1>0, <1>1
<1>3. PICK k \in rest : \A y \in rest : k <= y
  <2> HIDE DEF rest
  <2> QED
    BY <1>2, LeastExists
<1>4. PICK x \in S \ F : key[x] = k
  BY <1>3
<1>5. \A y \in S \ F : key[x] <= key[y]
  BY <1>3, <1>4
<1>6. \A y \in S : rank(y) \in Nat
  BY RankGrows
<1>7. \A y \in S : y \in F <=> rank(y) < n
  BY DEF FirstOf
<1>8. Below(S, key, x) = F
  <2>1. ASSUME NEW y \in S, key[y] < key[x] PROVE y \in F
    BY <1>0, <1>4, <1>5, <2>1
  <2>2. ASSUME NEW y \in F PROVE key[y] < key[x]
    <3>1. y \in S /\ y # x
      BY <1>1, <1>4
    <3>2. key[y] # key[x]
      BY <1>4, <3>1 DEF Keyed
    <3>3. ~(key[x] < key[y])
      <4>1. rank(y) < n /\ ~(rank(x) < n)
        BY <1>4, <1>7, <2>2, <3>1
      <4>2. key[x] < key[y] => rank(x) < rank(y)
        BY <1>4, <3>1, RankGrows
      <4>3. rank(x) \in Nat /\ rank(y) \in Nat
        BY <1>4, <1>6, <3>1
      <4> QED
        BY <4>1, <4>2, <4>3
    <3> QED
      BY <1>0, <1>4, <3>1, <3>2, <3>3
  <2> QED
    BY <1>1, <2>1, <2>2 DEF Below
<1>9. rank(x) = n
  BY <1>8
<1>10. \A y \in S : rank(y) < n + 1 <=> y \in F \/ y = x
  <2> SUFFICES ASSUME NEW y \in S PROVE rank(y) < n + 1 <=> y \in F \/ y = x
    OBVIOUS
  <2>1. rank(y) = n => y = x
    <3>1. key[y] < key[x] => rank(y) < rank(x)
      BY <1>4, RankGrows
    <3>2. key[x] < key[y] => rank(x) < rank(y)
      BY <1>4, RankGrows
    <3>3. key[y] = key[x] => y = x
      BY <1>4 DEF Keyed
    <3>4. key[x] \in Nat /\ key[y] \in Nat
      BY <1>0, <1>4
    <3> HIDE DEF rank
    <3> QED
      BY <1>9, <3>1, <3>2, <3>3, <3>4
  <2>2. rank(y) \in Nat /\ (y \in F <=> rank(y) < n)
    BY <1>6, <1>7
  <2> HIDE DEF rank
  <2> QED
    BY <1>9, <2>1, <2>2
<1>11. FirstOf(S, key, n + 1) = F \union {x}
  BY <1>1, <1>4, <1>10 DEF FirstOf
<1> HIDE DEF F
<1>12. Cardinality(F \union {x}) = n + 1
  <2>1. Cardinality(F) = n
    BY DEF F
  <2>2. x \notin F
    BY <1>4
  <2> QED
    BY <1>1, <2>1, <2>2, FS_AddElement
<1> QED
  BY <1>11, <1>12

(* There are as many of the first n as one asks for, up to all of them.    *)
LEMMA FirstCount ==
  ASSUME NEW S, NEW key, Keyed(S, key), NEW n \in Nat, n <= Cardinality(S)
  PROVE  Cardinality(FirstOf(S, key, n)) = n
<1> DEFINE bad == {m \in Nat : m <= Cardinality(S) /\ Cardinality(FirstOf(S, key, m)) # m}
<1>0. Cardinality(S) \in Nat
  BY FS_CardinalityType DEF Keyed
<1> SUFFICES ASSUME bad # {} PROVE FALSE
  OBVIOUS
<1>1. PICK m \in bad : \A y \in bad : m <= y
  <2>1. bad \subseteq Nat
    OBVIOUS
  <2> HIDE DEF bad
  <2> QED
    BY <2>1, LeastExists
<1>2. m \in Nat /\ m <= Cardinality(S) /\ Cardinality(FirstOf(S, key, m)) # m
  OBVIOUS
<1>3. CASE m = 0
  <2>1. FirstOf(S, key, 0) = {}
    <3>1. \A x \in S : Cardinality(Below(S, key, x)) \in Nat
      BY RankGrows
    <3>2. \A x \in S : ~(Cardinality(Below(S, key, x)) < 0)
      BY <3>1
    <3> QED
      BY <3>2 DEF FirstOf
  <2>2. Cardinality(FirstOf(S, key, 0)) = 0
    BY <2>1, FS_EmptySet
  <2> QED
    BY <1>2, <1>3, <2>2
<1>4. CASE m # 0
  <2>1. m - 1 \in Nat /\ m - 1 < Cardinality(S) /\ ~(m <= m - 1) /\ (m - 1) + 1 = m
    BY <1>0, <1>2, <1>4
  <2>2. m - 1 \notin bad
    BY <1>1, <2>1
  <2>3. Cardinality(FirstOf(S, key, m - 1)) = m - 1
    BY <1>0, <2>1, <2>2
  <2>4. Cardinality(FirstOf(S, key, (m - 1) + 1)) = (m - 1) + 1
    BY <2>1, <2>3, FirstStep
  <2> QED
    BY <1>2, <2>1, <2>4
<1> QED
  BY <1>3, <1>4

=============================================================================
