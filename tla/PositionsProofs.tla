-------------------------- MODULE PositionsProofs --------------------------
(***************************************************************************)
(* Facts about ranks and about the elements of a sequence at some of its   *)
(* positions, for sets and sequences of any size.  Induction takes the     *)
(* form of the least number of a set.                                      *)
(***************************************************************************)
EXTENDS Positions, Integers, Sequences, FiniteSetTheorems, WellFoundedInduction, TLAPS

\* Every set of numbers that is not empty has a least one.
LEMMA LeastNumber ==
    ASSUME NEW T \in SUBSET Nat, T # {}
    PROVE  \E m \in T : \A n \in T : m <= n
<1> DEFINE Less == {pair \in Nat \X Nat : pair[1] < pair[2]}
<1>1. IsWellFoundedOn(Less, Nat)
    BY NatLessThanWellFounded DEF OpToRel
<1>2. PICK m \in T : \A n \in T : <<n, m>> \notin Less
    BY <1>1, WFMin
<1>3. \A n \in T : ~(n < m)
    BY <1>2
<1> QED
    BY <1>3

\* Sets of positions are finite.
LEMMA Finite ==
    ASSUME NEW m \in Nat, NEW K, K \subseteq 1..m
    PROVE  IsFiniteSet(K) /\ Cardinality(K) \in Nat /\ Cardinality(K) <= m
<1>1. IsFiniteSet(1..m) /\ Cardinality(1..m) = m
    BY FS_Interval
<1>2. IsFiniteSet(K) /\ Cardinality(K) <= Cardinality(1..m)
    BY <1>1, FS_Subset, Zenon
<1> QED
    BY <1>1, <1>2, FS_CardinalityType

\* If a position is in a set, then so are those before it: an initial segment.
LEMMA InitialSegment ==
    ASSUME NEW m \in Nat, NEW K, K \subseteq 1..m,
           \A i \in K : \A j \in 1..i : j \in K
    PROVE  K = 1..Cardinality(K)
<1> DEFINE Outside == {i \in Nat : i > 0 /\ i \notin K}
<1>1. m + 1 \in Outside
    OBVIOUS
<1>2. PICK n \in Outside : \A i \in Outside : n <= i
    <2> HIDE DEF Outside
    <2> QED
        BY <1>1, LeastNumber DEF Outside
<1>3. \A i \in 1..m : i \in K <=> i < n
    BY <1>2
<1>4. n <= m + 1
    BY <1>1, <1>2
<1>5. K = 1..(n - 1)
    <2>1. n \in Nat /\ n > 0
        OBVIOUS
    <2> HIDE DEF Outside
    <2>2. \A i \in K : i \in 1..m /\ i \in 1..(n - 1)
        BY <1>3, <2>1
    <2>3. \A i \in 1..(n - 1) : i \in 1..m /\ i \in K
        BY <1>3, <1>4, <2>1
    <2> QED
        BY <2>2, <2>3
<1>6. Cardinality(1..(n - 1)) = n - 1
    BY FS_Interval
<1> QED
    BY <1>5, <1>6

-----------------------------------------------------------------------------
(* Ranks *)

LEMMA RankType ==
    ASSUME NEW m \in Nat, NEW K, K \subseteq 1..m, NEW i \in Int
    PROVE  Rank(K, i) \in Nat /\ Rank(K, i) <= Cardinality(K) /\ Cardinality(K) \in Nat
<1> DEFINE Upto == {j \in K : j <= i}
<1>1. IsFiniteSet(K) /\ Cardinality(K) \in Nat
    BY Finite
<1>2. IsFiniteSet(Upto) /\ Cardinality(Upto) <= Cardinality(K)
    <2>1. Upto \in SUBSET K
        OBVIOUS
    <2> QED
        BY <1>1, <2>1, FS_Subset, Zenon
<1> QED
    BY <1>1, <1>2, FS_CardinalityType DEF Rank

\* Nothing has a rank before the first position, and all after the last.
LEMMA RankEnds ==
    ASSUME NEW m \in Nat, NEW K, K \subseteq 1..m
    PROVE  Rank(K, 0) = 0 /\ Rank(K, m) = Cardinality(K)
<1>1. \A j \in K : ~(j <= 0) /\ j <= m
    OBVIOUS
<1>2. {j \in K : j <= 0} = {}
    BY <1>1
<1>3. {j \in K : j <= m} = K
    BY <1>1
<1> QED
    BY <1>2, <1>3, FS_EmptySet DEF Rank

\* From one position to the next the rank grows by one if that is in the set.
LEMMA RankNext ==
    ASSUME NEW m \in Nat, NEW K, K \subseteq 1..m, NEW i \in Int
    PROVE  Rank(K, i) = Rank(K, i - 1) + (IF i \in K THEN 1 ELSE 0)
<1> DEFINE Below == {j \in K : j <= i - 1}
           Upto == {j \in K : j <= i}
<1>1. IsFiniteSet(Below)
    <2>1. IsFiniteSet(K) /\ Below \in SUBSET K
        BY Finite
    <2> QED
        BY <2>1, FS_Subset, Zenon
<1>2. CASE i \in K
    <2>1. i \notin Below
        OBVIOUS
    <2>2. \A j \in K : j <= i <=> j <= i - 1 \/ j = i
        OBVIOUS
    <2>3. Upto = Below \cup {i}
        BY <1>2, <2>2
    <2>4. Cardinality(Below \cup {i}) = Cardinality(Below) + 1
        <3> HIDE DEF Below
        <3> QED
            BY <1>1, <2>1, FS_AddElement
    <2> QED
        BY <1>2, <2>3, <2>4 DEF Rank
<1>3. CASE i \notin K
    <2>1. \A j \in K : j <= i <=> j <= i - 1
        BY <1>3
    <2>2. Upto = Below
        BY <2>1
    <2>3. Rank(K, i - 1) \in Nat
        <3>1. i - 1 \in Int
            OBVIOUS
        <3> QED
            BY <3>1, RankType
    <2>4. Rank(K, i) = Rank(K, i - 1)
        BY <2>2 DEF Rank
    <2> QED
        BY <1>3, <2>3, <2>4
<1> QED
    BY <1>2, <1>3

\* Ranks grow with the positions.
LEMMA RankGrows ==
    ASSUME NEW m \in Nat, NEW K, K \subseteq 1..m, NEW i \in Int, NEW j \in Int, i <= j
    PROVE  Rank(K, i) <= Rank(K, j)
<1> DEFINE Below == {k \in K : k <= i}
           Upto == {k \in K : k <= j}
<1>1. IsFiniteSet(Upto)
    <2>1. IsFiniteSet(K) /\ Upto \in SUBSET K
        BY Finite
    <2> QED
        BY <2>1, FS_Subset, Zenon
<1>2. Below \in SUBSET Upto
    <2>1. \A k \in K : k <= i => k <= j
        OBVIOUS
    <2> QED
        BY <2>1
<1>3. Cardinality(Below) <= Cardinality(Upto)
    <2> HIDE DEF Below, Upto
    <2> QED
        BY <1>1, <1>2, FS_Subset, Zenon
<1> QED
    BY <1>3 DEF Rank

LEMMA RankIncreases ==
    ASSUME NEW m \in Nat, NEW K, K \subseteq 1..m, NEW i \in Int, NEW j \in K, i < j
    PROVE  Rank(K, i) < Rank(K, j)
<1>1. j \in Int /\ j - 1 \in Int /\ i <= j - 1
    OBVIOUS
<1>2. Rank(K, i) <= Rank(K, j - 1)
    BY <1>1, RankGrows
<1>3. Rank(K, j) = Rank(K, j - 1) + 1
    BY <1>1, RankNext
<1>4. Rank(K, i) \in Nat /\ Rank(K, j - 1) \in Nat
    BY <1>1, RankType
<1> QED
    BY <1>2, <1>3, <1>4

LEMMA RankOfMember ==
    ASSUME NEW m \in Nat, NEW K, K \subseteq 1..m, NEW i \in K
    PROVE  Rank(K, i) \in 1..Cardinality(K)
<1>1. i \in Int /\ 0 < i
    OBVIOUS
<1>2. Rank(K, 0) < Rank(K, i)
    <2>1. 0 \in Int
        OBVIOUS
    <2> QED
        BY <1>1, <2>1, RankIncreases
<1>3. Rank(K, 0) = 0
    BY RankEnds
<1>4. Rank(K, i) \in Nat /\ Rank(K, i) <= Cardinality(K) /\ Cardinality(K) \in Nat
    BY <1>1, RankType
<1> QED
    BY <1>2, <1>3, <1>4

\* Every rank up to the number of positions belongs to one of them: the first
\* up to which there are so many.
LEMMA RankTaken ==
    ASSUME NEW m \in Nat, NEW K, K \subseteq 1..m, NEW n \in 1..Cardinality(K)
    PROVE  \E i \in K : Rank(K, i) = n
<1> DEFINE Enough == {i \in Nat : n <= Rank(K, i)}
<1>0. Cardinality(K) \in Nat /\ n \in Nat /\ 0 < n /\ n <= Cardinality(K)
    <2>1. Cardinality(K) \in Nat
        BY Finite
    <2> QED
        BY <2>1
<1>1. m \in Enough /\ 0 \notin Enough
    <2>1. Rank(K, 0) = 0 /\ Rank(K, m) = Cardinality(K)
        BY RankEnds
    <2> QED
        BY <1>0, <2>1
<1>2. PICK i \in Enough : \A j \in Enough : i <= j
    <2> HIDE DEF Enough
    <2> QED
        BY <1>1, LeastNumber DEF Enough
<1>3. i \in Nat /\ i - 1 \in Nat /\ i - 1 \notin Enough
    BY <1>1, <1>2
<1>4. Rank(K, i - 1) \in Nat /\ Rank(K, i) \in Nat
    <2>1. i - 1 \in Int /\ i \in Int
        BY <1>3
    <2> HIDE DEF Enough
    <2> QED
        BY <2>1, RankType
<1>5. Rank(K, i - 1) < n /\ n <= Rank(K, i)
    BY <1>0, <1>2, <1>3, <1>4
<1>6. Rank(K, i) = Rank(K, i - 1) + (IF i \in K THEN 1 ELSE 0)
    <2>1. i \in Int
        BY <1>3
    <2> HIDE DEF Enough
    <2> QED
        BY <2>1, RankNext
<1> QED
    BY <1>0, <1>4, <1>5, <1>6

-----------------------------------------------------------------------------
(* The n-th position, and the elements at the positions *)

LEMMA NthPosition ==
    ASSUME NEW m \in Nat, NEW K, K \subseteq 1..m, NEW n \in 1..Cardinality(K)
    PROVE  Nth(K, n) \in K /\ Rank(K, Nth(K, n)) = n
  BY RankTaken DEF Nth

\* No two positions have the same rank.
LEMMA NthOfRank ==
    ASSUME NEW m \in Nat, NEW K, K \subseteq 1..m, NEW i \in K
    PROVE  Nth(K, Rank(K, i)) = i
<1>1. Rank(K, i) \in 1..Cardinality(K)
    BY RankOfMember
<1> DEFINE j == Nth(K, Rank(K, i))
<1>2. j \in K /\ Rank(K, j) = Rank(K, i)
    BY <1>1, NthPosition
<1>3. i \in Int /\ j \in Int /\ Rank(K, i) \in Int
    <2> HIDE DEF j
    <2>1. Rank(K, i) \in Int
        BY <1>1
    <2> QED
        BY <1>2, <2>1
<1>4. ~(i < j) /\ ~(j < i)
    <2> HIDE DEF j
    <2>1. i < j => Rank(K, i) < Rank(K, j)
        BY <1>2, <1>3, RankIncreases
    <2>2. j < i => Rank(K, j) < Rank(K, i)
        BY <1>2, <1>3, RankIncreases
    <2> QED
        BY <1>2, <1>3, <2>1, <2>2
<1> QED
    BY <1>3, <1>4

\* The positions come in their order.
LEMMA NthIncreases ==
    ASSUME NEW m \in Nat, NEW K, K \subseteq 1..m,
           NEW a \in 1..Cardinality(K), NEW b \in 1..Cardinality(K), a < b
    PROVE  Nth(K, a) < Nth(K, b)
<1> DEFINE i == Nth(K, a)
           j == Nth(K, b)
<1>1. i \in K /\ Rank(K, i) = a /\ j \in K /\ Rank(K, j) = b
    BY NthPosition
<1>2. i \in Int /\ j \in Int
    <2> HIDE DEF i, j
    <2> QED
        BY <1>1
<1>3. ~(j <= i)
    <2> HIDE DEF i, j
    <2>1. j <= i => Rank(K, j) <= Rank(K, i)
        BY <1>2, RankGrows
    <2> QED
        BY <1>1, <2>1
<1> QED
    BY <1>2, <1>3

LEMMA ElementsType ==
    ASSUME NEW S, NEW s \in Seq(S), NEW K, K \subseteq 1..Len(s)
    PROVE  /\ ElementsAt(s, K) \in Seq(S)
           /\ Len(ElementsAt(s, K)) = Cardinality(K)
           /\ DOMAIN ElementsAt(s, K) = 1..Cardinality(K)
           /\ \A n \in 1..Cardinality(K) : ElementsAt(s, K)[n] = s[Nth(K, n)]
<1>1. Len(s) \in Nat /\ Cardinality(K) \in Nat
    <2>1. Len(s) \in Nat
        OBVIOUS
    <2> QED
        BY <2>1, Finite
<1>2. \A n \in 1..Cardinality(K) : Nth(K, n) \in 1..Len(s)
    BY <1>1, NthPosition
<1>3. \A n \in 1..Cardinality(K) : s[Nth(K, n)] \in S
    BY <1>2
<1> QED
    BY <1>1, <1>3 DEF ElementsAt

\* In an interval from one, a position is its own rank.
LEMMA RankInInterval ==
    ASSUME NEW m \in Nat, NEW i \in 1..m
    PROVE  Rank(1..m, i) = i
<1>1. \A j \in Int : (j \in 1..m /\ j <= i) <=> j \in 1..i
    OBVIOUS
<1>2. {j \in 1..m : j <= i} = 1..i
    BY <1>1
<1>3. Cardinality(1..i) = i
    BY FS_Interval
<1> QED
    BY <1>2, <1>3 DEF Rank

\* The last so many are a subsequence of the usual kind.
LEMMA ElementsOfTail ==
    ASSUME NEW S, NEW s \in Seq(S), NEW e \in 0..Len(s)
    PROVE  ElementsAt(s, e+1..Len(s)) = SubSeq(s, e + 1, Len(s))
<1> DEFINE K == e+1..Len(s)
<1>1. Len(s) \in Nat /\ e \in Nat /\ K \subseteq 1..Len(s)
    OBVIOUS
<1>2. Cardinality(K) = Len(s) - e
    <2>1. e + 1 \in Int /\ Len(s) \in Int
        BY <1>1
    <2>2. Cardinality(e+1..Len(s)) = IF e + 1 > Len(s) THEN 0 ELSE Len(s) - (e + 1) + 1
        BY <2>1, FS_Interval
    <2> QED
        BY <1>1, <2>2
<1>3. ASSUME NEW i \in K PROVE Rank(K, i) = i - e
    <2>1. \A j \in Int : (j \in K /\ j <= i) <=> j \in e+1..i
        BY <1>1, <1>3
    <2>2. {j \in K : j <= i} = e+1..i
        BY <2>1
    <2>3. Cardinality(e+1..i) = i - e
        BY <1>1, <1>3, FS_Interval
    <2> QED
        BY <2>2, <2>3 DEF Rank
<1>4. ASSUME NEW n \in 1..Cardinality(K) PROVE Nth(K, n) = n + e
    <2>1. n + e \in K /\ Rank(K, n + e) = n
        BY <1>1, <1>2, <1>3, <1>4
    <2> HIDE DEF K
    <2> QED
        BY <1>1, <2>1, NthOfRank
<1>5. /\ ElementsAt(s, K) \in Seq(S) /\ Len(ElementsAt(s, K)) = Len(s) - e
      /\ \A n \in 1..Len(s) - e : ElementsAt(s, K)[n] = s[n + e]
    <2> HIDE DEF K
    <2>1. /\ ElementsAt(s, K) \in Seq(S) /\ Len(ElementsAt(s, K)) = Cardinality(K)
          /\ \A n \in 1..Cardinality(K) : ElementsAt(s, K)[n] = s[Nth(K, n)]
        BY <1>1, ElementsType
    <2> QED
        BY <1>2, <1>4, <2>1
<1>6. /\ SubSeq(s, e + 1, Len(s)) \in Seq(S) /\ Len(SubSeq(s, e + 1, Len(s))) = Len(s) - e
      /\ \A n \in 1..Len(s) - e : SubSeq(s, e + 1, Len(s))[n] = s[n + e]
    BY <1>1
<1> HIDE DEF K
<1>7. ElementsAt(s, K) = SubSeq(s, e + 1, Len(s))
    BY <1>1, <1>5, <1>6
<1> QED
    BY <1>7 DEF K

\* If the last so many are among the positions, they are the last elements.
LEMMA ElementsAtEnd ==
    ASSUME NEW S, NEW s \in Seq(S), NEW K, K \subseteq 1..Len(s),
           NEW e \in 0..Len(s), e+1..Len(s) \subseteq K
    PROVE  /\ Cardinality(K) \in Nat /\ Cardinality(K) >= Len(s) - e
           /\ \A i \in e+1..Len(s) :
                  ElementsAt(s, K)[Cardinality(K) - (Len(s) - i)] = s[i]
<1>1. Len(s) \in Nat /\ e \in Nat /\ e <= Len(s)
    OBVIOUS
<1>2. IsFiniteSet(K) /\ Cardinality(K) \in Nat
    BY <1>1, Finite
<1>3. ASSUME NEW i \in e..Len(s) PROVE Rank(K, i) = Cardinality(K) - (Len(s) - i)
    <2> DEFINE After == i+1..Len(s)
    <2>1. i \in Int /\ e <= i /\ i <= Len(s)
        BY <1>1, <1>3
    <2>2. \A j \in After : j \in e+1..Len(s)
        BY <1>1, <2>1
    <2>3. K \cap After = After
        BY <2>2
    <2>4. \A j \in K : j <= i <=> j \notin After
        BY <1>1, <2>1
    <2>5. {j \in K : j <= i} = K \ After
        BY <2>4
    <2>6. Cardinality(After) = Len(s) - i
        <3>1. i + 1 \in Int /\ Len(s) \in Int
            BY <1>1, <2>1
        <3>2. Cardinality(i+1..Len(s)) = IF i + 1 > Len(s) THEN 0 ELSE Len(s) - (i + 1) + 1
            BY <3>1, FS_Interval
        <3> QED
            BY <1>1, <2>1, <3>2
    <2> HIDE DEF After
    <2>7. Cardinality(K \ After) = Cardinality(K) - Cardinality(K \cap After)
        BY <1>2, FS_Difference, Zenon
    <2> QED
        BY <2>3, <2>5, <2>6, <2>7 DEF Rank
<1>4. Cardinality(K) >= Len(s) - e
    <2>1. Rank(K, e) = Cardinality(K) - (Len(s) - e)
        <3>1. e \in e..Len(s)
            BY <1>1
        <3> QED
            BY <1>3, <3>1
    <2>2. Rank(K, e) \in Nat
        <3>1. e \in Int
            BY <1>1
        <3> QED
            BY <1>1, <3>1, RankType
    <2> QED
        BY <1>1, <1>2, <2>1, <2>2
<1>5. ASSUME NEW i \in e+1..Len(s)
      PROVE  ElementsAt(s, K)[Cardinality(K) - (Len(s) - i)] = s[i]
    <2>1. i \in K /\ i \in e..Len(s)
        BY <1>1, <1>5
    <2>2. Rank(K, i) = Cardinality(K) - (Len(s) - i)
        BY <1>3, <2>1
    <2>3. Rank(K, i) \in 1..Cardinality(K) /\ Nth(K, Rank(K, i)) = i
        BY <1>1, <2>1, RankOfMember, NthOfRank
    <2>4. ElementsAt(s, K)[Rank(K, i)] = s[Nth(K, Rank(K, i))]
        BY <2>3, ElementsType
    <2> QED
        BY <2>2, <2>3, <2>4
<1> QED
    BY <1>2, <1>4, <1>5

=============================================================================
