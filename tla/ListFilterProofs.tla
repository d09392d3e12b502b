-------------------------- MODULE ListFilterProofs --------------------------
(***************************************************************************)
(* What Keep returns: the rows of the list that are in the set, each at    *)
(* the place of its rank.  Without induction: the least place by which a   *)
(* number of rows is kept is where that row stands.                        *)
(***************************************************************************)
EXTENDS ListFilter, TLAPS, FiniteSetTheorems, WellFoundedInduction

LEMMA LeastNumber ==
  ASSUME NEW S \in SUBSET Nat, S # {}
  PROVE  \E x \in S : \A y \in S : x <= y
<1>1. PICK x \in S : \A y \in S : ~(<<y, x>> \in OpToRel(<, Nat))
  BY NatLessThanWellFounded, WFMin
<1>2. \A y \in S : ~(y < x)
  BY <1>1 DEF OpToRel
<1> QED  BY <1>2

LEMMA KeptFinite ==
  ASSUME NEW l, Len(l) \in Nat, NEW S, NEW n \in Nat
  PROVE  /\ IsFiniteSet(Kept(l, S)) /\ Cardinality(Kept(l, S)) \in Nat
         /\ IsFiniteSet({m \in Kept(l, S) : m <= n})
         /\ KeptUpTo(l, S, n) \in Nat
         /\ KeptUpTo(l, S, n) <= Cardinality(Kept(l, S))
<1>1. IsFiniteSet(1..Len(l))
  BY FS_Interval
<1>2. IsFiniteSet(Kept(l, S)) /\ Cardinality(Kept(l, S)) \in Nat
  <2>1. Kept(l, S) \in SUBSET (1..Len(l))
    BY DEF Kept
  <2> QED  BY <1>1, <2>1, FS_Subset, FS_CardinalityType
<1>3. {m \in Kept(l, S) : m <= n} \in SUBSET Kept(l, S)
  OBVIOUS
<1> QED  BY <1>2, <1>3, FS_Subset, FS_CardinalityType DEF KeptUpTo

\* One place more holds at most one row more, and one exactly if it is kept.
LEMMA KeptUpToNext ==
  ASSUME NEW l, Len(l) \in Nat, NEW S, NEW n \in Nat
  PROVE  KeptUpTo(l, S, n + 1) =
           IF n + 1 \in Kept(l, S) THEN KeptUpTo(l, S, n) + 1
                                   ELSE KeptUpTo(l, S, n)
<1> DEFINE U(i) == {m \in Kept(l, S) : m <= i}
<1>1. Kept(l, S) \subseteq Nat
  BY DEF Kept
<1>2. IsFiniteSet(U(n)) /\ n + 1 \notin U(n)
  BY KeptFinite
<1>3. CASE n + 1 \in Kept(l, S)
  <2>1. U(n + 1) = U(n) \cup {n + 1}
    BY <1>1, <1>3
  <2>2. Cardinality(U(n) \cup {n + 1}) = Cardinality(U(n)) + 1
    <3> HIDE DEF U
    <3> QED  BY <1>2, FS_AddElement
  <2> QED  BY <2>1, <2>2, <1>3 DEF KeptUpTo
<1>4. CASE n + 1 \notin Kept(l, S)
  <2>1. U(n + 1) = U(n)
    BY <1>1, <1>4
  <2> QED  BY <2>1, <1>4 DEF KeptUpTo
<1> QED  BY <1>3, <1>4

LEMMA KeptUpToEnds ==
  ASSUME NEW l, Len(l) \in Nat, NEW S
  PROVE  /\ KeptUpTo(l, S, 0) = 0
         /\ KeptUpTo(l, S, Len(l)) = Cardinality(Kept(l, S))
<1>1. {m \in Kept(l, S) : m <= 0} = {}
  BY DEF Kept
<1>2. {m \in Kept(l, S) : m <= Len(l)} = Kept(l, S)
  BY DEF Kept
<1> QED  BY <1>1, <1>2, FS_EmptySet DEF KeptUpTo

\* Every rank up to the number of rows kept is the rank of a kept row.
LEMMA KeptHasRank ==
  ASSUME NEW l, Len(l) \in Nat, NEW S, NEW i \in 1..Cardinality(Kept(l, S))
  PROVE  \E n \in Kept(l, S) : KeptUpTo(l, S, n) = i
<1> DEFINE Reach == {n \in Nat : KeptUpTo(l, S, n) >= i}
<1>1. Cardinality(Kept(l, S)) \in Nat
  BY KeptFinite
<1>2. Len(l) \in Reach
  BY <1>1, KeptUpToEnds
<1>3. PICK n \in Reach : \A m \in Reach : n <= m
  <2> HIDE DEF Reach
  <2>1. Reach \in SUBSET Nat
    BY DEF Reach
  <2> QED  BY <1>2, <2>1, LeastNumber
<1>4. n # 0
  BY <1>1, KeptUpToEnds
<1>5. n - 1 \in Nat /\ n - 1 \notin Reach
  BY <1>3, <1>4
<1>6. KeptUpTo(l, S, n - 1) \in Nat /\ KeptUpTo(l, S, n - 1) < i
  <2>1. KeptUpTo(l, S, n - 1) \in Nat
    BY <1>5, KeptFinite
  <2>2. ~(KeptUpTo(l, S, n - 1) >= i)
    BY <1>5
  <2> QED  BY <1>1, <2>1, <2>2
<1>7. KeptUpTo(l, S, n) = IF n \in Kept(l, S) THEN KeptUpTo(l, S, n - 1) + 1
                                             ELSE KeptUpTo(l, S, n - 1)
  BY <1>5, KeptUpToNext
<1> QED  BY <1>1, <1>6, <1>7

\* Kept rows at different places have different ranks.
LEMMA RankIsInjective ==
  ASSUME NEW l, Len(l) \in Nat, NEW S, NEW m \in Kept(l, S), NEW n \in Kept(l, S),
         m < n
  PROVE  KeptUpTo(l, S, m) < KeptUpTo(l, S, n)
<1> DEFINE U(i) == {x \in Kept(l, S) : x <= i}
<1>1. Kept(l, S) \subseteq Nat
  BY DEF Kept
<1>2. IsFiniteSet(U(n)) /\ Cardinality(U(n)) \in Nat
  BY <1>1, KeptFinite DEF KeptUpTo
<1>3. U(m) \in SUBSET U(n) /\ n \in U(n) /\ n \notin U(m)
  BY <1>1
<1>4. Cardinality(U(m)) \in Nat
  BY <1>1, KeptFinite DEF KeptUpTo
<1>5. Cardinality(U(m)) <= Cardinality(U(n)) /\ Cardinality(U(m)) # Cardinality(U(n))
  <2> HIDE DEF U
  <2> QED  BY <1>2, <1>3, FS_Subset
<1> QED  BY <1>2, <1>4, <1>5 DEF KeptUpTo

\* Where the i-th row kept comes from.
KeptAt(l, S, i) == CHOOSE n \in Kept(l, S) : KeptUpTo(l, S, n) = i

LEMMA KeptAtRank ==
  ASSUME NEW l, Len(l) \in Nat, NEW S, NEW i \in 1..Cardinality(Kept(l, S))
  PROVE  KeptAt(l, S, i) \in Kept(l, S) /\ KeptUpTo(l, S, KeptAt(l, S, i)) = i
BY KeptHasRank DEF KeptAt

LEMMA KeptAtInverse ==
  ASSUME NEW l, Len(l) \in Nat, NEW S, NEW n \in Kept(l, S)
  PROVE  \E i \in 1..Cardinality(Kept(l, S)) : KeptAt(l, S, i) = n
<1> DEFINE i == KeptUpTo(l, S, n)
<1>1. n \in 1..Len(l) /\ n - 1 \in Nat
  BY DEF Kept
<1>2. i = KeptUpTo(l, S, n - 1) + 1
  BY <1>1, KeptUpToNext
<1>3. i \in 1..Cardinality(Kept(l, S))
  <2>1. KeptUpTo(l, S, n - 1) \in Nat
    BY <1>1, KeptFinite
  <2>2. n \in Nat
    BY <1>1
  <2>3. KeptUpTo(l, S, n) <= Cardinality(Kept(l, S)) /\ Cardinality(Kept(l, S)) \in Nat
    BY <2>2, KeptFinite
  <2> QED  BY <1>2, <2>1, <2>3
<1>4. KeptAt(l, S, i) \in Kept(l, S) /\ KeptUpTo(l, S, KeptAt(l, S, i)) = i
  BY <1>3, KeptAtRank
<1>5. KeptAt(l, S, i) = n
  <2> HIDE DEF i
  <2>1. KeptAt(l, S, i) \in Nat /\ n \in Nat /\ i \in Nat
    BY <1>1, <1>3, <1>4, KeptFinite DEF Kept
  <2>2. KeptUpTo(l, S, n) = i
    BY DEF i
  <2>3. ~(n < KeptAt(l, S, i)) /\ ~(KeptAt(l, S, i) < n)
    BY <1>4, <2>1, <2>2, RankIsInjective
  <2> QED  BY <2>1, <2>3
<1> QED  BY <1>3, <1>5

\* No two places hold the same row.
NoRepeat(l) == \A m, n \in 1..Len(l) : l[m] = l[n] => m = n

LEMMA KeepRows ==
  ASSUME NEW R, NEW l \in Seq(R), NEW S
  PROVE  /\ Keep(l, S) \in Seq(R \cap S)
         /\ Len(Keep(l, S)) = Cardinality(Kept(l, S))
         /\ Rows(Keep(l, S)) = Rows(l) \cap S
         /\ NoRepeat(l) => NoRepeat(Keep(l, S))
<1> DEFINE C == Cardinality(Kept(l, S))
<1>1. C \in Nat /\ Len(l) \in Nat
  <2>1. Len(l) \in Nat /\ 0 \in Nat
    OBVIOUS
  <2> QED  BY <2>1, KeptFinite
<1>2. Keep(l, S) = [i \in 1..C |-> l[KeptAt(l, S, i)]]
  BY DEF Keep, KeptAt
<1>3. \A i \in 1..C : /\ KeptAt(l, S, i) \in 1..Len(l)
                      /\ l[KeptAt(l, S, i)] \in R \cap S
  BY <1>1, KeptAtRank DEF Kept
<1>4. Keep(l, S) \in Seq(R \cap S) /\ Len(Keep(l, S)) = C
  <2> HIDE DEF C
  <2>1. \E n \in Nat : Keep(l, S) \in [1..n -> R \cap S]
    BY <1>1, <1>2, <1>3
  <2> QED  BY <1>1, <1>2, <2>1
<1>5. Rows(Keep(l, S)) \subseteq Rows(l) \cap S
  <2> HIDE DEF C
  <2> SUFFICES ASSUME NEW i \in 1..C
               PROVE  Keep(l, S)[i] \in Rows(l) \cap S
    BY <1>4 DEF Rows
  <2> QED  BY <1>2, <1>3 DEF Rows
<1>6. Rows(l) \cap S \subseteq Rows(Keep(l, S))
  <2> SUFFICES ASSUME NEW n \in 1..Len(l), l[n] \in S
               PROVE  l[n] \in Rows(Keep(l, S))
    BY DEF Rows
  <2>1. n \in Kept(l, S)
    BY DEF Kept
  <2>2. PICK i \in 1..C : KeptAt(l, S, i) = n
    BY <1>1, <2>1, KeptAtInverse
  <2> HIDE DEF C
  <2> QED  BY <1>2, <1>4, <2>2 DEF Rows
<1>7. ASSUME NoRepeat(l), NEW i \in 1..C, NEW j \in 1..C,
             Keep(l, S)[i] = Keep(l, S)[j]
      PROVE  i = j
  <2>1. KeptAt(l, S, i) = KeptAt(l, S, j)
    <3> HIDE DEF C
    <3> QED  BY <1>2, <1>3, <1>7 DEF NoRepeat
  <2> QED  BY <1>1, <2>1, KeptAtRank
<1>8. NoRepeat(l) => NoRepeat(Keep(l, S))
  <2> HIDE DEF C
  <2> QED  BY <1>4, <1>7 DEF NoRepeat
<1> QED  BY <1>4, <1>5, <1>6, <1>8

LEMMA KeepAll ==
  ASSUME NEW R, NEW l \in Seq(R), NEW S, Rows(l) \subseteq S
  PROVE  Keep(l, S) = l
<1> DEFINE C == Cardinality(Kept(l, S))
<1>1. Len(l) \in Nat /\ Kept(l, S) = 1..Len(l)
  BY DEF Kept, Rows
<1>2. \A n \in Nat : Cardinality(1..n) = n
  <2> SUFFICES ASSUME NEW n \in Nat PROVE Cardinality(1..n) = n
    OBVIOUS
  <2>1. Cardinality(1..n) = IF 1 > n THEN 0 ELSE n - 1 + 1
    BY FS_Interval
  <2> QED  BY <2>1
<1>3. C = Len(l)
  BY <1>1, <1>2
<1>4. ASSUME NEW n \in 1..Len(l) PROVE KeptUpTo(l, S, n) = n
  <2>1. {m \in 1..Len(l) : m <= n} = 1..n /\ n \in Nat
    BY <1>1
  <2> QED  BY <1>1, <1>2, <2>1 DEF KeptUpTo
<1>5. ASSUME NEW i \in 1..Len(l) PROVE KeptAt(l, S, i) = i
  <2>1. KeptAt(l, S, i) \in 1..Len(l) /\ KeptUpTo(l, S, KeptAt(l, S, i)) = i
    BY <1>1, <1>3, KeptAtRank
  <2> QED  BY <1>4, <2>1
<1>6. Keep(l, S) = [i \in 1..C |-> l[KeptAt(l, S, i)]]
  BY DEF Keep, KeptAt
<1>7. Keep(l, S) = [i \in 1..Len(l) |-> l[i]]
  <2> HIDE DEF C
  <2> QED  BY <1>3, <1>5, <1>6
<1> QED  BY <1>7

LEMMA KeepNone ==
  ASSUME NEW R, NEW l \in Seq(R), NEW S, Rows(l) \cap S = {}
  PROVE  Keep(l, S) = <<>>
<1>1. Keep(l, S) \in Seq(R \cap S) /\ Rows(Keep(l, S)) = {}
  BY KeepRows
<1>2. ASSUME Len(Keep(l, S)) # 0 PROVE FALSE
  <2>1. 1 \in 1..Len(Keep(l, S))
    BY <1>1, <1>2
  <2> QED  BY <1>1, <2>1 DEF Rows
<1> QED  BY <1>1, <1>2
=============================================================================
