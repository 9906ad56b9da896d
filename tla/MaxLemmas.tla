----------------------------- MODULE MaxLemmas ------------------------------
(***************************************************************************)
(* The largest element of a bounded set of integers, as FiniteSetsExt       *)
(* chooses it: it exists, so Max is that element.                           *)
(***************************************************************************)
EXTENDS Integers, FiniteSetsExt, FiniteSetTheorems, WellFoundedInduction, TLAPS

\* A non-empty set of naturals has a least element.
LEMMA LeastNatural ==
  ASSUME NEW T, T \subseteq Nat, T # {}
  PROVE  \E x \in T : \A y \in T : x <= y
<1>1. PICK x \in T : \A y \in T : ~(<<y, x>> \in OpToRel(<, Nat))
  BY NatLessThanWellFounded, WFMin
<1>2. \A y \in T : ~(y < x)
  BY <1>1 DEF OpToRel
<1> QED
  BY <1>2

\* Max(S) is in S and bounds S, for a non-empty S of integers below b.
LEMMA MaxOfBounded ==
  ASSUME NEW S, S \subseteq Int, S # {}, NEW b \in Int, \A x \in S : x <= b
  PROVE  Max(S) \in S /\ \A x \in S : x <= Max(S)
<1> DEFINE T == {b - x : x \in S}
<1>1. T \subseteq Nat
  <2>1. \A x \in S : b - x \in Nat
    OBVIOUS
  <2> QED
    BY <2>1
<1>2. T # {}
  <2>1. PICK x \in S : TRUE
    OBVIOUS
  <2>2. b - x \in T
    OBVIOUS
  <2> QED
    BY <2>2
<1>3. PICK least \in T : \A y \in T : least <= y
  BY <1>1, <1>2, LeastNatural
<1>4. PICK greatest \in S : least = b - greatest
  BY <1>3
<1>5. \A y \in S : greatest >= y
  <2> TAKE y \in S
  <2>1. least <= b - y
    BY <1>3
  <2> QED
    BY <2>1, <1>4
<1> QED
  BY <1>4, <1>5 DEF Max

\* The larger of two integers.
LEMMA MaxOfTwo ==
  ASSUME NEW m \in Int, NEW n \in Int
  PROVE  Max({m, n}) = IF m >= n THEN m ELSE n
<1>1. CASE m >= n
  <2>1. Max({m, n}) \in {m, n} /\ \A x \in {m, n} : x <= Max({m, n})
    BY <1>1, MaxOfBounded
  <2> QED
    BY <1>1, <2>1
<1>2. CASE n > m
  <2>1. Max({m, n}) \in {m, n} /\ \A x \in {m, n} : x <= Max({m, n})
    BY <1>2, MaxOfBounded
  <2> QED
    BY <1>2, <2>1
<1> QED
  BY <1>1, <1>2

\* The smaller of two integers.
LEMMA MinOfTwo ==
  ASSUME NEW m \in Int, NEW n \in Int
  PROVE  Min({m, n}) = IF m <= n THEN m ELSE n
BY DEF Min

\* A finite set of integers has an upper bound: of the beginnings of an enumeration
\* that have none, the shortest would have one by what comes before its last element.
LEMMA FiniteIsBounded ==
  ASSUME NEW S, S \subseteq Int, IsFiniteSet(S)
  PROVE  \E b \in Int : \A x \in S : x <= b
<1> DEFINE n == Cardinality(S)
<1>0. n \in Nat /\ ExistsBijection(1..n, S)
  BY FS_CardinalityType
<1> HIDE DEF n
<1>1. PICK f \in [1..n -> S] : \A x \in S : \E i \in 1..n : f[i] = x
  BY <1>0 DEF ExistsBijection, Bijection, Surjection, Surjection
<1> DEFINE Bounds(b, k) == \A i \in 1..k : f[i] <= b
           T == {k \in 0..n : \A b \in Int : ~Bounds(b, k)}
<1>2. T = {}
  <2> SUFFICES ASSUME T # {} PROVE FALSE
    OBVIOUS
  <2>0. T \subseteq Nat
    BY <1>0
  <2> HIDE DEF Bounds
  <2>1. PICK k \in T : \A j \in T : k <= j
    <3> HIDE DEF T
    <3> QED
      BY <2>0, LeastNatural
  <2>2. k # 0
    <3>1. Bounds(0, 0)
      BY DEF Bounds
    <3> QED
      BY <2>1, <3>1
  <2>3. k - 1 \in 0..n /\ k \in 1..n /\ ~(k <= k - 1)
    BY <1>0, <2>2
  <2>4. k - 1 \notin T
    BY <2>1, <2>3
  <2>5. PICK b \in Int : Bounds(b, k - 1)
    BY <2>3, <2>4
  <2>6. f[k] \in Int
    BY <2>3
  <2>7. PICK c \in Int : b <= c /\ f[k] <= c
    BY <2>6
  <2>8. Bounds(c, k)
    <3> SUFFICES ASSUME NEW i \in 1..k PROVE f[i] <= c
      BY DEF Bounds
    <3> HIDE DEF T
    <3>0. i \in 1..n
      BY <1>0, <2>3
    <3>1. i \in 1..n /\ f[i] \in Int
      BY <3>0
    <3>2. CASE i = k
      BY <2>7, <3>2
    <3>3. CASE i # k
      <4>1. i \in 1..(k - 1)
        BY <2>3, <3>3
      <4>2. f[i] <= b
        BY <2>5, <4>1 DEF Bounds
      <4> QED
        BY <2>7, <3>1, <4>2
    <3> QED
      BY <3>2, <3>3
  <2> QED
    BY <2>8
<1>3. PICK b \in Int : Bounds(b, n)
  <2>1. n \notin T
    BY <1>2
  <2> HIDE DEF Bounds
  <2> QED
    BY <1>0, <2>1
<1> QED
  BY <1>0, <1>1, <1>3

\* So Max(S) is the largest element of a finite S.
LEMMA MaxOfFinite ==
  ASSUME NEW S, S \subseteq Int, S # {}, IsFiniteSet(S)
  PROVE  Max(S) \in S /\ \A x \in S : x <= Max(S)
BY FiniteIsBounded, MaxOfBounded
=============================================================================
