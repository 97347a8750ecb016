--------------------------- MODULE CountingFacts ---------------------------
(***************************************************************************)
(* Lemmas about natural numbers and finite sets that the proofs of several *)
(* components need.  They follow from the least-number principle, which    *)
(* stands in for induction over data.                                      *)
(***************************************************************************)
EXTENDS Integers, FiniteSets, FiniteSetTheorems, WellFoundedInduction, TLAPS

\* The pairs of natural numbers whose first is the smaller.
NatLess == {pair \in Nat \X Nat : pair[1] < pair[2]}

\* The order of the natural numbers is well-founded, as a set of pairs.
LEMMA NatLessIsWellFounded == IsWellFoundedOn(NatLess, Nat)
BY NatLessThanWellFounded DEF OpToRel, NatLess

\* The least-number principle: a set of natural numbers has a least one.
LEMMA LeastNumber ==
    ASSUME NEW T \in SUBSET Nat, T # {}
    PROVE  \E n \in T : \A k \in T : n <= k
<1>1. PICK n \in T : \A k \in T : <<k, n>> \notin NatLess
  BY NatLessIsWellFounded, WFMin
<1>2. \A k \in T : ~(k < n)
  BY <1>1 DEF NatLess
<1>. QED  BY <1>2

\* Induction for a set of numbers: it holds 0 and the successor of each of its own.
LEMMA SetInduction ==
    ASSUME NEW T \in SUBSET Nat, 0 \in T, \A n \in T : n + 1 \in T
    PROVE  T = Nat
<1>. SUFFICES ASSUME Nat \ T # {} PROVE FALSE
  OBVIOUS
<1>1. PICK n \in Nat \ T : \A k \in Nat \ T : n <= k
  BY LeastNumber, Nat \ T \in SUBSET Nat, Zenon
<1>2. n # 0 /\ n - 1 \in Nat /\ ~(n <= n - 1)
  OBVIOUS
<1>3. n - 1 \in T
  BY <1>1, <1>2
<1>. QED  BY <1>3, <1>2

\* A set of numbers up to a bound has a greatest one.
LEMMA GreatestNumber ==
    ASSUME NEW n \in Nat, NEW S \in SUBSET (0..n), S # {}
    PROVE  \E m \in S : \A k \in S : k <= m
<1>. DEFINE T == {b \in Nat : \A k \in S : k <= b}
<1>1. n \in T
  OBVIOUS
<1>2. PICK b \in T : \A c \in T : b <= c
  BY LeastNumber, <1>1
<1>3. CASE b \in S
  BY <1>3
<1>4. CASE b \notin S
  <2>1. b # 0
    <3>1. PICK k \in S : TRUE
      OBVIOUS
    <3>2. k \in Nat /\ k <= b /\ k # b
      BY <1>2, <1>4, <3>1
    <3>. QED  BY <3>2, <1>2
  <2>2. b - 1 \in T
    BY <1>4, <2>1
  <2>. QED  BY <2>2, <1>2
<1>. QED  BY <1>3, <1>4

\* The elements of S that are at most k.
UpTo(S, k) == {x \in S : x <= k}

\* The count up to k is that of a finite set.
LEMMA CountUpTo ==
    ASSUME NEW n \in Nat, NEW S, \A x \in S : x \in 1..n, NEW k \in Nat
    PROVE  /\ IsFiniteSet(S) /\ Cardinality(S) \in Nat
           /\ IsFiniteSet(UpTo(S, k)) /\ Cardinality(UpTo(S, k)) \in Nat
           /\ k = 0 => Cardinality(UpTo(S, k)) = 0
           /\ k >= n => UpTo(S, k) = S
           /\ Cardinality(UpTo(S, k)) <= Cardinality(S)
<1>0. \A x \in S : x \in Nat /\ 1 <= x /\ x <= n
  OBVIOUS
<1>1. IsFiniteSet(S) /\ Cardinality(S) \in Nat
  <2>1. IsFiniteSet(1..n) /\ S \in SUBSET (1..n)
    BY FS_Interval
  <2>. QED  BY <2>1, FS_Subset, FS_CardinalityType
<1>2. IsFiniteSet(UpTo(S, k)) /\ Cardinality(UpTo(S, k)) \in Nat /\ Cardinality(UpTo(S, k)) <= Cardinality(S)
  BY <1>1, FS_Subset, FS_CardinalityType, UpTo(S, k) \in SUBSET S DEF UpTo
<1>3. k = 0 => UpTo(S, k) = {}
  BY <1>0 DEF UpTo
<1>4. k >= n => UpTo(S, k) = S
  BY <1>0 DEF UpTo
<1>. QED  BY <1>1, <1>2, <1>3, <1>4, FS_EmptySet

\* Each element of the set adds one to the count, and nothing else does.
LEMMA CountStep ==
    ASSUME NEW n \in Nat, NEW S, \A x \in S : x \in 1..n, NEW j \in Nat, NEW k \in Nat, k = j + 1
    PROVE  /\ k \in S => Cardinality(UpTo(S, k)) = Cardinality(UpTo(S, j)) + 1
           /\ k \notin S => UpTo(S, k) = UpTo(S, j)
<1>0. \A x \in S : x \in Nat /\ 1 <= x /\ x <= n
  OBVIOUS
<1>1. CASE k \in S
  <2>1. UpTo(S, k) = UpTo(S, j) \cup {k} /\ k \notin UpTo(S, j)
    <3>1. \A x \in S : x <= k <=> x <= j \/ x = k
      BY <1>0
    <3>2. ~(k <= j)
      OBVIOUS
    <3>. QED  BY <1>1, <3>1, <3>2, Zenon DEF UpTo
  <2>2. IsFiniteSet(UpTo(S, j))
    BY CountUpTo
  <2>3. Cardinality(UpTo(S, j) \cup {k}) = Cardinality(UpTo(S, j)) + 1
    BY <2>1, <2>2, FS_AddElement
  <2>. QED  BY <1>1, <2>1, <2>3
<1>2. CASE k \notin S
  BY <1>0, <1>2 DEF UpTo
<1>. QED  BY <1>1, <1>2

\* Between two elements the count grows by at least the second.
LEMMA CountGrows ==
    ASSUME NEW n \in Nat, NEW S, \A x \in S : x \in 1..n, NEW j \in Nat, NEW k \in S, j < k
    PROVE  Cardinality(UpTo(S, j)) < Cardinality(UpTo(S, k))
<1>1. UpTo(S, j) \in SUBSET UpTo(S, k) /\ k \in UpTo(S, k) /\ k \notin UpTo(S, j)
  <2>1. \A x \in S : x \in Nat
    OBVIOUS
  <2>. QED  BY <2>1 DEF UpTo
<1>2. /\ IsFiniteSet(UpTo(S, k)) /\ Cardinality(UpTo(S, k)) \in Nat
      /\ Cardinality(UpTo(S, j)) \in Nat
  BY CountUpTo, k \in Nat
<1>3. Cardinality(UpTo(S, j)) <= Cardinality(UpTo(S, k)) /\ Cardinality(UpTo(S, j)) # Cardinality(UpTo(S, k))
  BY <1>1, <1>2, FS_Subset
<1>. QED  BY <1>2, <1>3

\* Counting reaches every number, at exactly one element.
LEMMA Numbered ==
    ASSUME NEW n \in Nat, NEW S, \A x \in S : x \in 1..n, NEW i \in 1..Cardinality(S)
    PROVE  \E k \in S : /\ Cardinality(UpTo(S, k)) = i
                        /\ \A j \in S : Cardinality(UpTo(S, j)) = i => j = k
<1>. DEFINE T == {k \in Nat : Cardinality(UpTo(S, k)) >= i}
<1>1. n \in T
  BY CountUpTo
<1>2. PICK k \in T : \A j \in T : k <= j
  BY LeastNumber, <1>1
<1>3. k # 0
  BY CountUpTo, <1>2
<1>4. PICK j \in Nat : k = j + 1 /\ j \notin T
  <2>1. k - 1 \in Nat /\ k = (k - 1) + 1 /\ ~(k <= k - 1)
    BY <1>3
  <2>. QED  BY <1>2, <2>1
<1>5. /\ k \in S => Cardinality(UpTo(S, k)) = Cardinality(UpTo(S, j)) + 1
      /\ k \notin S => UpTo(S, k) = UpTo(S, j)
  BY CountStep, <1>4
<1>6. k \in S /\ Cardinality(UpTo(S, k)) = i
  <2>1. Cardinality(UpTo(S, j)) \in Nat /\ Cardinality(UpTo(S, k)) \in Nat /\ Cardinality(S) \in Nat
    BY CountUpTo
  <2>. QED  BY <1>2, <1>4, <1>5, <2>1
<1>7. ASSUME NEW m \in S, Cardinality(UpTo(S, m)) = i PROVE m = k
  <2>1. m \in Nat /\ k \in Nat /\ m \in S /\ k \in S
    BY <1>6
  <2>2. /\ m < k => Cardinality(UpTo(S, m)) < Cardinality(UpTo(S, k))
        /\ k < m => Cardinality(UpTo(S, k)) < Cardinality(UpTo(S, m))
    BY CountGrows, <2>1
  <2>. QED  BY <1>6, <1>7, <2>1, <2>2
<1>. QED  BY <1>6, <1>7
=============================================================================
