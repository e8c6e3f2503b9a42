---------------------------- MODULE AuditProofs ----------------------------
(***************************************************************************)
(* Theorems about AuditLog: how many events a prune leaves, which ones,    *)
(* and for how long an event can stay.                                     *)
(***************************************************************************)
EXTENDS AuditLog, PositionsProofs

-----------------------------------------------------------------------------
(* The first pass *)

LEMMA LeastOfTwo ==
    ASSUME NEW a \in Int, NEW b \in Int
    PROVE  /\ Min({a, b}) = IF a <= b THEN a ELSE b
           /\ Max({a, b}) = IF a <= b THEN b ELSE a
<1>1. Min({a, b}) \in {a, b} /\ Min({a, b}) <= a /\ Min({a, b}) <= b
    <2>1. \E x \in {a, b} : \A y \in {a, b} : x <= y
        OBVIOUS
    <2> QED
        BY <2>1 DEF Min
<1>2. Max({a, b}) \in {a, b} /\ Max({a, b}) >= a /\ Max({a, b}) >= b
    <2>1. \E x \in {a, b} : \A y \in {a, b} : x >= y
        OBVIOUS
    <2> QED
        BY <2>1 DEF Max
<1> QED
    BY <1>1, <1>2

LEMMA LogType ==
    ASSUME TypeOK
    PROVE  /\ Len(log) \in Nat /\ DOMAIN log = 1..Len(log)
           /\ \A i \in DOMAIN log : log[i] \in Int
           /\ Retention \in Nat /\ MaxEvents \in Nat /\ MaxEvents > 0
           /\ back \in Nat /\ fails \in Nat /\ since \in Nat
<1> DEFINE Ages == -MaxBack..Old
<1>1. \A age \in Ages : age \in Int
    OBVIOUS
<1>2. log \in Seq(Ages)
    BY DEF TypeOK
<1>3. Len(log) \in Nat /\ DOMAIN log = 1..Len(log) /\ \A i \in DOMAIN log : log[i] \in Ages
    <2> HIDE DEF Ages
    <2> QED
        BY <1>2
<1> QED
    BY <1>1, <1>3, AuditAssumption DEF TypeOK

\* The expired events are the first of the log, and the next one is not.
LEMMA FirstPass ==
    ASSUME TypeOK
    PROVE  /\ Expired \in Nat /\ Expired <= Len(log)
           /\ Expired < Len(log) => log[Expired + 1] <= Retention
<1> DEFINE Front == {i \in DOMAIN log : \A j \in 1..i : log[j] > Retention}
<1>1. Len(log) \in Nat /\ DOMAIN log = 1..Len(log) /\ Front \subseteq 1..Len(log)
    BY LogType
<1>2. \A i \in Front : \A j \in 1..i : j \in Front
    BY <1>1
<1>3. Expired = Cardinality(Front)
    BY DEF Expired
<1>4. Expired \in Nat /\ Expired <= Len(log) /\ Front = 1..Expired
    <2> HIDE DEF Front
    <2> QED
        BY <1>1, <1>2, <1>3, Finite, InitialSegment
<1>5. ASSUME Expired < Len(log), ~(log[Expired + 1] <= Retention)
      PROVE  FALSE
    <2>1. Expired + 1 \in DOMAIN log /\ Expired + 1 \notin Front
        BY <1>1, <1>4, <1>5
    <2>2. log[Expired + 1] > Retention
        BY <1>5, <2>1, LogType
    <2>3. \A j \in 1..Expired : log[j] > Retention
        BY <1>4
    <2>4. \A j \in 1..(Expired + 1) : log[j] > Retention
        BY <1>4, <2>2, <2>3
    <2> QED
        BY <2>1, <2>4
<1> QED
    BY <1>4, <1>5

\* The second pass is to remove so many, were it not for the first.
LEMMA ExcessType ==
    ASSUME TypeOK
    PROVE  /\ Excess \in Nat
           /\ Len(log) <= MaxEvents => Excess = 0
           /\ Len(log) > MaxEvents => Excess = Len(log) - MaxEvents
    BY LogType DEF Excess

-----------------------------------------------------------------------------
(* The second pass *)

\* It removes the first of those it visits, and only those.
LEMMA FirstOnes ==
    ASSUME NEW m \in Nat, NEW K, K \subseteq 1..m, NEW e \in Nat
    PROVE  LET Firsts == {i \in K : Rank(K, i) <= e} IN
           /\ e <= Cardinality(K) => Cardinality(Firsts) = e
           /\ e >= Cardinality(K) => Firsts = K
<1> DEFINE Firsts == {i \in K : Rank(K, i) <= e}
<1>1. /\ Cardinality(K) \in Nat
      /\ \A i \in K : Rank(K, i) \in Nat /\ 0 < Rank(K, i) /\ Rank(K, i) <= Cardinality(K)
    <2>1. Cardinality(K) \in Nat /\ \A i \in K : Rank(K, i) \in 1..Cardinality(K)
        BY Finite, RankOfMember
    <2> QED
        BY <2>1
<1>2. e >= Cardinality(K) => Firsts = K
    <2>1. e >= Cardinality(K) => \A i \in K : Rank(K, i) <= e
        BY <1>1
    <2> QED
        BY <2>1
<1>3. CASE e = 0
    <2>1. \A i \in K : ~(Rank(K, i) <= e)
        BY <1>1, <1>3
    <2>2. Firsts = {}
        BY <2>1
    <2> QED
        BY <1>2, <1>3, <2>2, FS_EmptySet
<1>4. CASE 0 < e /\ e <= Cardinality(K)
    <2>1. e \in 1..Cardinality(K)
        BY <1>1, <1>4
    <2>2. PICK k \in K : Rank(K, k) = e
        BY <2>1, RankTaken
    <2>3. \A i \in K : Rank(K, i) <= e <=> i <= k
        <3>1. ASSUME NEW i \in K PROVE Rank(K, i) <= e <=> i <= k
            <4>1. i \in Int /\ k \in Int
                OBVIOUS
            <4>2. i <= k => Rank(K, i) <= Rank(K, k)
                BY <4>1, RankGrows
            <4>3. k < i => Rank(K, k) < Rank(K, i)
                BY <4>1, RankIncreases
            <4>4. Rank(K, i) \in Int
                BY <1>1
            <4> QED
                BY <2>2, <4>1, <4>2, <4>3, <4>4
        <3> QED
            BY <3>1
    <2>4. Firsts = {i \in K : i <= k}
        BY <2>3
    <2>5. Cardinality(Firsts) = e
        BY <2>2, <2>4 DEF Rank
    <2> QED
        BY <1>2, <2>5
<1>5. e = 0 \/ (0 < e /\ e <= Cardinality(K)) \/ e > Cardinality(K)
    BY <1>1
<1> QED
    BY <1>1, <1>2, <1>3, <1>4, <1>5

LEMMA KeptPositions ==
    ASSUME TypeOK, NEW t \in Touched
    PROVE  /\ Visited(t) \subseteq Expired+1..Len(log)
           /\ Kept(t) \subseteq 1..Len(log)
           /\ \A i \in Kept(t) : Expired + 1 <= i
           /\ Kept(t) = (Expired+1..Len(log)) \ {i \in Visited(t) : Rank(Visited(t), i) <= Excess}
<1>1. Expired \in Nat /\ Len(log) \in Nat /\ Excess \in Nat
    BY FirstPass, LogType, ExcessType
<1>2. Visited(t) \subseteq Expired+1..Len(log)
    BY DEF Visited
<1>3. \A i \in Visited(t) : Rank(Visited(t), i) \in Nat
    <2>1. Visited(t) \subseteq 1..Len(log) /\ \A i \in Visited(t) : i \in Int
        BY <1>1, <1>2
    <2> QED
        BY <1>1, <2>1, RankType
<1>4. \A i \in Expired+1..Len(log) :
          (i \in Visited(t) => Rank(Visited(t), i) > Excess)
          <=> i \notin {j \in Visited(t) : Rank(Visited(t), j) <= Excess}
    BY <1>1, <1>3
<1>5. Kept(t) = (Expired+1..Len(log)) \ {i \in Visited(t) : Rank(Visited(t), i) <= Excess}
    BY <1>4 DEF Kept
<1>6. \A i \in Kept(t) : i \in Expired+1..Len(log)
    BY DEF Kept
<1>7. \A i \in Expired+1..Len(log) : i \in 1..Len(log) /\ Expired + 1 <= i
    BY <1>1
<1> QED
    BY <1>2, <1>5, <1>6, <1>7

\* What remains: all but the excess, or all but what the cursor visits.
LEMMA KeptCount ==
    ASSUME TypeOK, NEW t \in Touched
    PROVE  LET unexpired == Len(log) - Expired IN
           /\ Cardinality(Kept(t)) \in Nat /\ Cardinality(Kept(t)) <= unexpired
           /\ Cardinality(Kept(t)) >= unexpired - Excess
           /\ \/ Cardinality(Kept(t)) = unexpired - Excess
              \/ Kept(t) = (Expired+1..Len(log)) \ Visited(t)
<1> DEFINE Rest == Expired+1..Len(log)
           Gone == {i \in Visited(t) : Rank(Visited(t), i) <= Excess}
           unexpired == Len(log) - Expired
<1>1. /\ Expired \in Nat /\ Len(log) \in Nat /\ Excess \in Nat /\ Expired <= Len(log)
      /\ Visited(t) \subseteq Rest /\ Kept(t) = Rest \ Gone
    BY FirstPass, LogType, ExcessType, KeptPositions
<1>2. IsFiniteSet(Rest) /\ Cardinality(Rest) = unexpired
    <2>1. Expired + 1 \in Int /\ Len(log) \in Int
        BY <1>1
    <2>2. /\ IsFiniteSet(Expired+1..Len(log))
          /\ Cardinality(Expired+1..Len(log)) =
                 IF Expired + 1 > Len(log) THEN 0 ELSE Len(log) - (Expired + 1) + 1
        BY <2>1, FS_Interval
    <2> QED
        BY <1>1, <2>2
<1>3. Visited(t) \subseteq 1..Len(log)
    BY <1>1
<1>4. /\ Excess <= Cardinality(Visited(t)) => Cardinality(Gone) = Excess
      /\ Excess >= Cardinality(Visited(t)) => Gone = Visited(t)
    BY <1>1, <1>3, FirstOnes
<1>5. Cardinality(Gone) \in Nat /\ Cardinality(Gone) <= Excess
    <2>1. Cardinality(Visited(t)) \in Nat
        BY <1>1, <1>3, Finite
    <2> HIDE DEF Gone
    <2> QED
        BY <1>1, <1>4, <2>1
<1>6. Cardinality(Rest \ Gone) = unexpired - Cardinality(Gone)
    <2>1. Rest \cap Gone = Gone
        BY <1>1
    <2> HIDE DEF Rest, Gone
    <2>2. Cardinality(Rest \ Gone) = Cardinality(Rest) - Cardinality(Rest \cap Gone)
        BY <1>2, FS_Difference, Zenon
    <2> QED
        BY <1>2, <2>1, <2>2
<1>7. Cardinality(Kept(t)) \in Nat
    BY <1>1, Finite, KeptPositions
<1>8. Excess <= Cardinality(Visited(t)) \/ Excess >= Cardinality(Visited(t))
    BY <1>1, <1>3, Finite
<1> HIDE DEF Rest, Gone
<1> QED
    BY <1>1, <1>4, <1>5, <1>6, <1>7, <1>8 DEF Rest

LEMMA PassedOverType ==
    PassedOver \in Nat /\ PassedOver < MaxEvents /\ MaxEvents \in Nat /\ PageEvents \in Nat
  BY AuditAssumption DEF PassedOver

\* The cursor passes over every other event of what is left of a page.
LEMMA FewPassedOver ==
    ASSUME TypeOK, NEW t \in Touched
    PROVE  LET Over == (Expired+1..Len(log)) \ Visited(t)
           IN  IsFiniteSet(Over) /\ Cardinality(Over) <= PassedOver
<1> DEFINE Over == (Expired+1..Len(log)) \ Visited(t)
           half == [i \in Over |-> (i - Expired) \div 2]
<1>1. Expired \in Nat /\ Len(log) \in Nat /\ PageEvents \in Nat /\ PageEvents > 0
    BY FirstPass, LogType, AuditAssumption
<1>2. t \in Nat /\ t <= PageEvents - 1
    <2>1. CASE Expired = 0
        BY <1>1, <2>1 DEF Touched
    <2>2. CASE Expired # 0
        <3>1. PageEvents - 1 \in Int /\ Len(log) - Expired \in Int
            BY <1>1
        <3>2. /\ Min({PageEvents - 1, Len(log) - Expired}) <= PageEvents - 1
              /\ Min({PageEvents - 1, Len(log) - Expired}) \in Int
            BY <3>1, LeastOfTwo
        <3>3. t \in 0..Min({PageEvents - 1, Len(log) - Expired})
            BY <2>2 DEF Touched
        <3> QED
            BY <1>1, <3>2, <3>3
    <2> QED
        BY <2>1, <2>2
<1>3. \A i \in Over : i \in Nat /\ Expired < i /\ i <= Expired + t /\ (i - Expired) % 2 # 1
    BY <1>1, <1>2 DEF Visited
<1>4. \A i \in Over : (i - Expired) \div 2 \in 1..PassedOver /\ i = Expired + 2 * ((i - Expired) \div 2)
    <2>1. ASSUME NEW i \in Over
          PROVE  (i - Expired) \div 2 \in 1..PassedOver /\ i = Expired + 2 * ((i - Expired) \div 2)
        <3>0. i - Expired \in Nat /\ 0 < i - Expired /\ i - Expired <= t /\ (i - Expired) % 2 # 1
            BY <1>1, <1>2, <1>3
        <3>1. PICK n \in Nat : n = i - Expired /\ 0 < n /\ n <= t /\ n % 2 # 1
            BY <3>0
        <3>2. n = 2 * (n \div 2)
            BY <3>1
        <3>3. n \div 2 \in Int
            BY <3>1
        <3>4. n \div 2 \in 1..PassedOver
            BY <1>1, <1>2, <3>1, <3>2, <3>3 DEF PassedOver
        <3>5. i \in Nat
            BY <1>3
        <3> HIDE DEF Over
        <3> QED
            BY <1>1, <3>1, <3>2, <3>3, <3>4, <3>5
    <2> QED
        BY <2>1
<1>5. half \in Injection(Over, 1..PassedOver)
    <2>1. half \in [Over -> 1..PassedOver]
        BY <1>4
    <2>2. \A i, j \in Over : half[i] = half[j] => i = j
        BY <1>4
    <2> HIDE DEF Over, half
    <2> QED
        BY <2>1, <2>2 DEF Injection, IsInjective
<1>6. IsFiniteSet(1..PassedOver) /\ Cardinality(1..PassedOver) = PassedOver
    BY PassedOverType, FS_Interval
<1>7. IsFiniteSet(Over) /\ Cardinality(Over) <= Cardinality(1..PassedOver)
    <2> HIDE DEF Over, half
    <2> QED
        BY <1>5, <1>6, FS_Injection
<1> QED
    BY <1>6, <1>7

\* So an event is hardly further from the first than its rank in the visit.
LEMMA VisitedRank ==
    ASSUME TypeOK, NEW t \in Touched, NEW i \in Expired+1..Len(log)
    PROVE  Rank(Visited(t), i) >= i - Expired - PassedOver
<1> DEFINE Over == (Expired+1..Len(log)) \ Visited(t)
           Upto == {j \in Visited(t) : j <= i}
           Before == {j \in Over : j <= i}
<1>1. /\ Expired \in Nat /\ Len(log) \in Nat /\ i \in Nat /\ Expired < i /\ i <= Len(log)
      /\ Visited(t) \subseteq Expired+1..Len(log) /\ PassedOver \in Nat
    BY FirstPass, LogType, KeptPositions, PassedOverType
<1>2. IsFiniteSet(Over) /\ Cardinality(Over) <= PassedOver
    BY FewPassedOver
<1>3. IsFiniteSet(Before) /\ Cardinality(Before) \in Nat /\ Cardinality(Before) <= PassedOver
    <2>1. Before \in SUBSET Over
        OBVIOUS
    <2> HIDE DEF Over, Before
    <2>2. IsFiniteSet(Before) /\ Cardinality(Before) <= Cardinality(Over)
        BY <1>2, <2>1, FS_Subset, Zenon
    <2>3. Cardinality(Over) \in Nat /\ Cardinality(Before) \in Nat
        BY <1>2, <2>2, FS_CardinalityType
    <2> QED
        BY <1>1, <1>2, <2>2, <2>3
<1>4. IsFiniteSet(Upto) /\ Cardinality(Upto) \in Nat
    <2>1. \A j \in Upto : j \in 1..Len(log)
        BY <1>1
    <2>2. Upto \subseteq 1..Len(log)
        BY <2>1
    <2> HIDE DEF Upto
    <2> QED
        BY <1>1, <2>2, Finite
<1>5. Upto \cup Before = Expired+1..i /\ Upto \cap Before = {}
    <2>1. \A j \in Expired+1..i : j \in Expired+1..Len(log) /\ j <= i
        BY <1>1
    <2>2. \A j \in Expired+1..Len(log) : j <= i => j \in Expired+1..i
        BY <1>1
    <2>3. \A j \in Upto : j \in Expired+1..Len(log) /\ j <= i
        BY <1>1
    <2> QED
        BY <2>1, <2>2, <2>3
<1>6. Cardinality(Expired+1..i) = i - Expired
    <2>1. Expired + 1 \in Int /\ i \in Int
        BY <1>1
    <2>2. Cardinality(Expired+1..i) = IF Expired + 1 > i THEN 0 ELSE i - (Expired + 1) + 1
        BY <2>1, FS_Interval
    <2> QED
        BY <1>1, <2>2
<1>7. Cardinality(Upto \cup Before) = Cardinality(Upto) + Cardinality(Before)
    <2> HIDE DEF Upto, Before
    <2>1. Cardinality(Upto \cup Before)
              = Cardinality(Upto) + Cardinality(Before) - Cardinality(Upto \cap Before)
        BY <1>3, <1>4, FS_Union
    <2>2. Cardinality(Upto \cap Before) = 0
        <3>1. Upto \cap Before = {}
            BY <1>5
        <3> QED
            BY <3>1, FS_EmptySet
    <2> QED
        BY <1>3, <1>4, <2>1, <2>2
<1>8. Rank(Visited(t), i) = Cardinality(Upto)
    BY DEF Rank
<1> HIDE DEF Upto, Before, Over
<1>9. i - Expired = Cardinality(Upto) + Cardinality(Before)
    <2>1. Upto \cup Before = Expired+1..i
        BY <1>5
    <2> QED
        BY <1>6, <1>7, <2>1
<1> QED
    BY <1>1, <1>3, <1>4, <1>8, <1>9

\* The newest of the log are out of the second pass's reach.
LEMMA OutOfReach ==
    ASSUME TypeOK, NEW t \in Touched, NEW i \in Expired+1..Len(log),
           i > Expired + Excess + PassedOver
    PROVE  i \in Kept(t)
<1>1. Rank(Visited(t), i) >= i - Expired - PassedOver
    BY VisitedRank
<1>2. /\ Expired \in Nat /\ Len(log) \in Nat /\ Excess \in Nat /\ PassedOver \in Nat /\ i \in Nat
      /\ Visited(t) \subseteq Expired+1..Len(log)
    BY FirstPass, LogType, ExcessType, KeptPositions, PassedOverType
<1>3. Rank(Visited(t), i) \in Nat
    <2>1. Visited(t) \subseteq 1..Len(log) /\ i \in Int
        BY <1>2
    <2> QED
        BY <1>2, <2>1, RankType
<1>4. Rank(Visited(t), i) > Excess
    BY <1>1, <1>2, <1>3
<1> QED
    BY <1>4 DEF Kept

-----------------------------------------------------------------------------
(* The invariant *)

\* A later event is older than an earlier one by no more than the clock has
\* been set back, and none is from further ahead than that.
NearlyInOrder ==
    /\ \A i \in DOMAIN log : -back <= log[i]
    /\ \A i, j \in DOMAIN log : i < j => log[j] <= log[i] + back

\* Since the last prune that worked, each failure has cost one turn.
NotTooOld ==
    phase = "pruned" =>
        \A i \in DOMAIN log : log[i] <= Retention + Interval * fails + since + back

AuditInv == TypeOK /\ NearlyInOrder /\ NotTooOld

LEMMA OldType == Old \in Nat
<1>1. Interval * (1 + MaxFails) \in Nat
    <2>1. Interval \in Nat /\ 1 + MaxFails \in Nat
        BY AuditAssumption
    <2> QED
        BY <2>1
<1> QED
    BY <1>1, AuditAssumption DEF Old

\* TypeOK, element by element.
LEMMA LogIsTyped ==
    ASSUME NEW s, NEW m \in Nat, DOMAIN s = 1..m, s = [i \in 1..m |-> s[i]], m <= MaxLog,
           \A i \in 1..m : s[i] \in Int /\ -MaxBack <= s[i] /\ s[i] <= Old
    PROVE  s \in Seq(-MaxBack..Old) /\ Len(s) = m /\ Len(s) <= MaxLog
<1> DEFINE Ages == -MaxBack..Old
<1>1. \A i \in 1..m : s[i] \in Ages
    BY OldType, AuditAssumption
<1>2. s \in Seq(Ages) /\ Len(s) = m
    <2> HIDE DEF Ages
    <2>1. s \in [1..m -> Ages]
        BY <1>1
    <2> QED
        BY <2>1
<1> QED
    BY <1>2

\* The ages a log in this state has, with all that is known of them.
LEMMA AgesKnown ==
    ASSUME AuditInv, NEW i \in DOMAIN log
    PROVE  /\ log[i] \in Int /\ -MaxBack <= log[i] /\ -back <= log[i] /\ log[i] <= Old
           /\ \A j \in DOMAIN log : i < j => log[j] <= log[i] + back
           /\ phase = "pruned" => log[i] <= Retention + Interval * fails + since + back
<1> DEFINE Ages == -MaxBack..Old
<1>1. \A age \in Ages : age \in Int /\ -MaxBack <= age /\ age <= Old
    BY OldType, AuditAssumption
<1>2. log \in Seq(Ages)
    BY DEF AuditInv, TypeOK
<1>3. log[i] \in Ages
    <2> HIDE DEF Ages
    <2> QED
        BY <1>2
<1> QED
    BY <1>1, <1>3 DEF AuditInv, NearlyInOrder, NotTooOld

\* Every log a transaction leaves, and what a prune's is made of.
LEMMA PruneLeaves ==
    ASSUME TypeOK, NEW t \in Touched, PruneAudit(t)
    PROVE  /\ Len(log') = Cardinality(Kept(t)) /\ Len(log') \in Nat
           /\ log' = [n \in 1..Len(log') |-> log'[n]]
           /\ \A n \in 1..Len(log') :
                  /\ Nth(Kept(t), n) \in Expired+1..Len(log)
                  /\ log'[n] = log[Nth(Kept(t), n)]
           /\ \A a, b \in 1..Len(log') : a < b => Nth(Kept(t), a) < Nth(Kept(t), b)
<1> DEFINE Ages == -MaxBack..Old
<1>1. log \in Seq(Ages) /\ Kept(t) \subseteq 1..Len(log) /\ Len(log) \in Nat
    BY LogType, KeptPositions DEF TypeOK
<1>2. /\ log' \in Seq(Ages) /\ Len(log') = Cardinality(Kept(t))
      /\ \A n \in 1..Cardinality(Kept(t)) : log'[n] = log[Nth(Kept(t), n)]
    <2>1. log' = ElementsAt(log, Kept(t))
        BY DEF PruneAudit
    <2>2. /\ ElementsAt(log, Kept(t)) \in Seq(Ages)
          /\ Len(ElementsAt(log, Kept(t))) = Cardinality(Kept(t))
          /\ \A n \in 1..Cardinality(Kept(t)) :
                 ElementsAt(log, Kept(t))[n] = log[Nth(Kept(t), n)]
        <3> HIDE DEF Ages
        <3> QED
            BY <1>1, ElementsType
    <2> QED
        BY <2>1, <2>2
<1>3. \A n \in 1..Cardinality(Kept(t)) : Nth(Kept(t), n) \in Kept(t)
    BY <1>1, NthPosition
<1>4. \A i \in Kept(t) : i \in Expired+1..Len(log)
    BY DEF Kept
<1>5. \A a, b \in 1..Cardinality(Kept(t)) : a < b => Nth(Kept(t), a) < Nth(Kept(t), b)
    BY <1>1, NthIncreases
<1>6. Len(log') \in Nat /\ log' = [n \in 1..Len(log') |-> log'[n]]
    <2> HIDE DEF Ages
    <2> QED
        BY <1>2
<1> QED
    BY <1>2, <1>3, <1>4, <1>5, <1>6

LEMMA AuditPrune ==
    ASSUME AuditInv, Prune
    PROVE  AuditInv'
<1>1. PICK t \in Touched : PruneAudit(t)
    BY DEF Prune
<1>2. since' = 0 /\ phase' = "pruned" /\ back' = back /\ fails' = fails
    BY DEF Prune
<1>3. TypeOK
    BY DEF AuditInv
<1>4. /\ Len(log) \in Nat /\ DOMAIN log = 1..Len(log) /\ Expired \in Nat
      /\ Retention \in Nat /\ back \in Nat /\ fails \in Nat /\ Interval \in Nat
    BY <1>3, LogType, FirstPass, AuditAssumption
<1> DEFINE m == Len(log')
           p(n) == Nth(Kept(t), n)
<1>5. /\ m = Cardinality(Kept(t)) /\ m \in Nat /\ DOMAIN log' = 1..m
      /\ log' = [n \in 1..m |-> log'[n]]
      /\ \A n \in 1..m : p(n) \in Expired+1..Len(log) /\ log'[n] = log[p(n)]
      /\ \A a, b \in 1..m : a < b => p(a) < p(b)
    BY <1>1, <1>3, PruneLeaves
<1>6. \A n \in 1..m : p(n) \in DOMAIN log /\ p(n) \in Int /\ Expired + 1 <= p(n)
    BY <1>4, <1>5
<1>7. m <= Len(log) /\ Len(log) <= MaxLog
    <2>1. Cardinality(Kept(t)) <= Len(log) - Expired
        BY <1>3, KeptCount
    <2> QED
        BY <1>3, <1>4, <1>5, <2>1 DEF TypeOK
<1> HIDE DEF m, p
<1>8. TypeOK'
    <2>1. \A n \in 1..m : log'[n] \in Int /\ -MaxBack <= log'[n] /\ log'[n] <= Old
        BY <1>5, <1>6, AgesKnown
    <2>2. m <= MaxLog
        BY <1>4, <1>5, <1>7, AuditAssumption
    <2>3. log' \in Seq(-MaxBack..Old) /\ Len(log') <= MaxLog
        BY <1>5, <2>1, <2>2, LogIsTyped
    <2> QED
        BY <1>2, <1>3, <2>3, AuditAssumption DEF TypeOK
<1>9. NearlyInOrder'
    <2>1. \A n \in 1..m : -back <= log'[n]
        BY <1>5, <1>6, AgesKnown
    <2>2. \A a, b \in 1..m : a < b => log'[b] <= log'[a] + back
        BY <1>5, <1>6, AgesKnown
    <2> QED
        BY <1>2, <1>5, <2>1, <2>2 DEF NearlyInOrder
<1>10. NotTooOld'
    <2>1. ASSUME NEW n \in 1..m PROVE log'[n] <= Retention + back
        <3>1. Expired < Len(log) /\ Expired + 1 \in DOMAIN log
            BY <1>4, <1>6, <2>1
        <3>2. log[Expired + 1] <= Retention
            BY <1>3, <3>1, FirstPass
        <3>3. log[Expired + 1] \in Int /\ log[p(n)] \in Int
            BY <1>6, <3>1, AgesKnown
        <3>4. Expired + 1 < p(n) => log[p(n)] <= log[Expired + 1] + back
            BY <1>6, <3>1, AgesKnown
        <3>5. log[p(n)] <= Retention + back
            BY <1>4, <1>6, <3>2, <3>3, <3>4
        <3> QED
            BY <1>5, <3>5
    <2>2. Interval * fails \in Nat
        BY <1>4
    <2>3. ASSUME NEW n \in 1..m
          PROVE  log'[n] <= Retention + Interval * fails + 0 + back
        <3>1. log'[n] \in Int
            BY <1>5, <1>6, AgesKnown
        <3> QED
            BY <1>4, <2>1, <2>2, <3>1
    <2> QED
        BY <1>2, <1>5, <2>3 DEF NotTooOld
<1> QED
    BY <1>8, <1>9, <1>10 DEF AuditInv

\* The steps that keep the log, or put a new event behind it.
LEMMA AuditAppend ==
    ASSUME AuditInv, AppendAudit
    PROVE  AuditInv'
<1>1. log' = Append(log, 0) /\ Len(log) < MaxLog /\ UNCHANGED <<since, phase, back, fails>>
    BY DEF AppendAudit
<1>2. TypeOK
    BY DEF AuditInv
<1> DEFINE m == Len(log) + 1
<1>3. /\ Len(log) \in Nat /\ DOMAIN log = 1..Len(log) /\ MaxLog \in Nat /\ MaxBack \in Nat
      /\ Retention \in Nat /\ back \in Nat /\ fails \in Nat /\ since \in Nat /\ Interval \in Nat
    BY <1>2, LogType, AuditAssumption
<1>4. /\ DOMAIN log' = 1..m /\ log' = [i \in 1..m |-> log'[i]] /\ m \in Nat
      /\ \A i \in DOMAIN log : log'[i] = log[i]
      /\ log'[m] = 0
      /\ \A i \in 1..m : i \in DOMAIN log \/ i = m
    <2> DEFINE Ages == -MaxBack..Old
    <2>1. log \in Seq(Ages) /\ 0 \in Ages
        BY <1>2, <1>3, OldType DEF TypeOK
    <2>2. m \in Nat /\ \A i \in 1..m : i \in 1..Len(log) \/ i = m
        BY <1>3
    <2> HIDE DEF Ages
    <2>3. /\ log' \in Seq(Ages) /\ Len(log') = Len(log) + 1
          /\ \A i \in 1..Len(log) : log'[i] = log[i]
          /\ log'[Len(log) + 1] = 0
        BY <1>1, <2>1
    <2>4. DOMAIN log' = 1..m /\ log' = [i \in 1..m |-> log'[i]]
        BY <2>3
    <2> QED
        BY <1>3, <2>2, <2>3, <2>4
<1> HIDE DEF m
<1>5. \A i \in 1..m : log'[i] \in Int /\ -MaxBack <= log'[i] /\ -back <= log'[i] /\ log'[i] <= Old
    BY <1>3, <1>4, OldType, AgesKnown
<1>6. TypeOK'
    <2>1. m <= MaxLog
        BY <1>1, <1>3 DEF m
    <2>2. log' \in Seq(-MaxBack..Old) /\ Len(log') <= MaxLog
        BY <1>4, <1>5, <2>1, LogIsTyped
    <2> QED
        BY <1>1, <1>2, <2>2 DEF TypeOK
<1>7. NearlyInOrder'
    <2>1. ASSUME NEW i \in 1..m, NEW j \in 1..m, i < j
          PROVE  log'[j] <= log'[i] + back
        <3>1. i \in DOMAIN log
            BY <1>3, <1>4, <2>1 DEF m
        <3>2. CASE j \in DOMAIN log
            BY <1>4, <2>1, <3>1, <3>2, AgesKnown
        <3>3. CASE j = m
            BY <1>3, <1>4, <1>5, <3>1, <3>3
        <3> QED
            BY <1>4, <3>2, <3>3
    <2> QED
        BY <1>1, <1>4, <1>5, <2>1 DEF NearlyInOrder
<1>8. NotTooOld'
    <2>1. Interval * fails \in Nat
        BY <1>3
    <2>2. ASSUME NEW i \in 1..m, phase = "pruned"
          PROVE  log'[i] <= Retention + Interval * fails + since + back
        <3>1. CASE i \in DOMAIN log
            BY <1>4, <2>2, <3>1, AgesKnown
        <3>2. CASE i = m
            BY <1>3, <1>4, <2>1, <3>2
        <3> QED
            BY <1>4, <3>1, <3>2
    <2> QED
        BY <1>1, <1>4, <2>2 DEF NotTooOld
<1> QED
    BY <1>6, <1>7, <1>8 DEF AuditInv

LEMMA AuditSameLog ==
    ASSUME AuditInv, PruneFails \/ Stop \/ Restart \/ UNCHANGED vars
    PROVE  AuditInv'
<1>1. TypeOK /\ log' = log /\ back' = back
    BY DEF AuditInv, PruneFails, Stop, Restart, vars
<1>2. TypeOK'
    BY <1>1, AuditAssumption DEF TypeOK, PruneFails, Stop, Restart, vars
<1>3. NearlyInOrder'
    BY <1>1 DEF AuditInv, NearlyInOrder
<1>4. NotTooOld'
    <2>1. CASE PruneFails
        <3>1. since = Interval /\ since' = 0 /\ fails' = fails + 1 /\ phase' = phase
            BY <2>1 DEF PruneFails
        <3>2. Interval * fails' = Interval * fails + Interval
            BY <1>1, <3>1, LogType, AuditAssumption
        <3>3. Interval * fails \in Nat /\ Interval \in Nat /\ Retention \in Nat /\ back \in Nat
            BY <1>1, LogType, AuditAssumption
        <3>4. \A i \in DOMAIN log : log[i] \in Int
            BY <1>1, LogType
        <3>5. phase = "pruned" => \A i \in DOMAIN log :
                  log[i] <= Retention + Interval * fails + since + back
            BY DEF AuditInv, NotTooOld
        <3> QED
            BY <1>1, <3>1, <3>2, <3>3, <3>4, <3>5 DEF NotTooOld
    <2>2. CASE Stop \/ Restart
        <3>1. phase' # "pruned"
            BY <2>2 DEF Stop, Restart
        <3> QED
            BY <3>1 DEF NotTooOld
    <2>3. CASE UNCHANGED vars
        BY <2>3 DEF AuditInv, NotTooOld, vars
    <2> QED
        BY <2>1, <2>2, <2>3
<1> QED
    BY <1>2, <1>3, <1>4 DEF AuditInv

\* The steps of the clock change every age alike, except where they are capped.
LEMMA AuditTick ==
    ASSUME AuditInv, Tick
    PROVE  AuditInv'
<1>1. TypeOK /\ log' = Aged /\ UNCHANGED <<phase, back, fails>>
    BY DEF AuditInv, Tick
<1> DEFINE m == Len(log)
<1>2. /\ m \in Nat /\ DOMAIN log = 1..m /\ MaxLog \in Nat /\ MaxBack \in Nat /\ m <= MaxLog
      /\ Retention \in Nat /\ back \in Nat /\ fails \in Nat /\ since \in Nat /\ Interval \in Nat
    BY <1>1, LogType, AuditAssumption DEF TypeOK
<1>3. \A i \in 1..m : log[i] \in Int /\ -MaxBack <= log[i] /\ -back <= log[i] /\ log[i] <= Old
    BY <1>2, AgesKnown
<1>4. /\ DOMAIN log' = 1..m /\ log' = [i \in 1..m |-> log'[i]]
      /\ \A i \in 1..m : log'[i] = IF log[i] + 1 <= Old THEN log[i] + 1 ELSE Old
    <2>1. log' = [i \in 1..m |-> Min({log[i] + 1, Old})]
        BY <1>1, <1>2 DEF Aged
    <2>2. \A i \in 1..m : Min({log[i] + 1, Old}) = IF log[i] + 1 <= Old THEN log[i] + 1 ELSE Old
        BY <1>3, OldType, LeastOfTwo
    <2> QED
        BY <2>1, <2>2
<1> HIDE DEF m
<1>5. \A i \in 1..m : /\ log'[i] \in Int /\ -MaxBack <= log'[i] /\ -back <= log'[i]
                       /\ log'[i] <= Old /\ log'[i] <= log[i] + 1
    BY <1>2, <1>3, <1>4, OldType
<1>6. phase = "pruned" => since' = since + 1 /\ since < Interval
    BY DEF Tick, Up
<1>7. TypeOK'
    <2>1. log' \in Seq(-MaxBack..Old) /\ Len(log') <= MaxLog
        BY <1>2, <1>4, <1>5, LogIsTyped
    <2>2. since' \in 0..Interval
        BY <1>1, <1>2 DEF Tick, TypeOK
    <2> QED
        BY <1>1, <2>1, <2>2 DEF TypeOK
<1>8. NearlyInOrder'
    <2>1. \A i, j \in 1..m : i < j => log[j] <= log[i] + back
        BY <1>2, AgesKnown
    <2>2. ASSUME NEW i \in 1..m, NEW j \in 1..m, i < j
          PROVE  log'[j] <= log'[i] + back
        <3>1. log[j] <= log[i] + back
            BY <2>1, <2>2
        <3>2. log'[j] <= log[j] + 1 /\ log'[j] <= Old
            BY <1>5
        <3>3. log'[i] = log[i] + 1 \/ log'[i] = Old
            BY <1>4
        <3>4. /\ log[i] \in Int /\ log[j] \in Int /\ log'[i] \in Int /\ log'[j] \in Int
              /\ Old \in Int /\ back \in Nat
            BY <1>2, <1>3, <1>5, OldType
        <3> QED
            BY <3>1, <3>2, <3>3, <3>4
    <2> QED
        BY <1>1, <1>4, <1>5, <2>2 DEF NearlyInOrder
<1>9. NotTooOld'
    <2>1. Interval * fails \in Nat
        BY <1>2
    <2>2. ASSUME NEW i \in 1..m, phase = "pruned"
          PROVE  log'[i] <= Retention + Interval * fails + since' + back
        <3>1. log[i] <= Retention + Interval * fails + since + back
            BY <1>2, <2>2, AgesKnown
        <3> QED
            BY <1>2, <1>3, <1>5, <1>6, <2>1, <2>2, <3>1
    <2> QED
        BY <1>1, <1>4, <2>2 DEF NotTooOld
<1> QED
    BY <1>7, <1>8, <1>9 DEF AuditInv

LEMMA AuditSetBack ==
    ASSUME AuditInv, SetBack
    PROVE  AuditInv'
<1>1. /\ TypeOK /\ back < MaxBack /\ back' = back + 1 /\ UNCHANGED <<since, phase, fails>>
      /\ log' = [i \in DOMAIN log |-> log[i] - 1]
    BY DEF AuditInv, SetBack
<1> DEFINE m == Len(log)
<1>2. /\ m \in Nat /\ DOMAIN log = 1..m /\ MaxLog \in Nat /\ MaxBack \in Nat /\ m <= MaxLog
      /\ Retention \in Nat /\ back \in Nat /\ fails \in Nat /\ since \in Nat /\ Interval \in Nat
    BY <1>1, LogType, AuditAssumption DEF TypeOK
<1>3. \A i \in 1..m : log[i] \in Int /\ -back <= log[i] /\ log[i] <= Old
    BY <1>2, AgesKnown
<1>4. /\ DOMAIN log' = 1..m /\ log' = [i \in 1..m |-> log'[i]]
      /\ \A i \in 1..m : log'[i] = log[i] - 1
    BY <1>1, <1>2
<1> HIDE DEF m
<1>5. \A i \in 1..m : /\ log'[i] \in Int /\ -MaxBack <= log'[i]
                       /\ -(back + 1) <= log'[i] /\ log'[i] <= Old
    BY <1>1, <1>2, <1>3, <1>4, OldType
<1>6. TypeOK'
    <2>1. log' \in Seq(-MaxBack..Old) /\ Len(log') <= MaxLog
        BY <1>2, <1>4, <1>5, LogIsTyped
    <2> QED
        BY <1>1, <2>1, AuditAssumption DEF TypeOK
<1>7. NearlyInOrder'
    <2>1. \A i, j \in 1..m : i < j => log[j] <= log[i] + back
        BY <1>2, AgesKnown
    <2>2. \A i, j \in 1..m : i < j => log'[j] <= log'[i] + (back + 1)
        BY <1>2, <1>3, <1>4, <2>1
    <2> QED
        BY <1>1, <1>4, <1>5, <2>2 DEF NearlyInOrder
<1>8. NotTooOld'
    <2>1. Interval * fails \in Nat
        BY <1>2
    <2>2. ASSUME NEW i \in 1..m, phase = "pruned"
          PROVE  log'[i] <= Retention + Interval * fails + since + (back + 1)
        <3>1. log[i] <= Retention + Interval * fails + since + back
            BY <1>2, <2>2, AgesKnown
        <3>2. log[i] \in Int /\ log'[i] = log[i] - 1
            BY <1>3, <1>4
        <3> DEFINE cost == Interval * fails
        <3> HIDE DEF cost
        <3> QED
            BY <1>2, <2>1, <3>1, <3>2 DEF cost
    <2> QED
        BY <1>1, <1>4, <2>2 DEF NotTooOld
<1> QED
    BY <1>6, <1>7, <1>8 DEF AuditInv

-----------------------------------------------------------------------------
(* Theorems *)

\* Nearly in order, and no older than the failures of the pruner explain.
THEOREM AuditInvariant == Spec => []AuditInv
<1>1. Init => AuditInv
    <2> SUFFICES ASSUME Init PROVE AuditInv
        OBVIOUS
    <2>1. log = <<>> /\ since = Interval /\ phase = "started" /\ back = 0 /\ fails = 0
        BY DEF Init
    <2>2. DOMAIN log = 1..0 /\ log = [i \in 1..0 |-> log[i]] /\ 0 \in Nat /\ 0 <= MaxLog
        BY <2>1, AuditAssumption
    <2>3. \A i \in 1..0 : FALSE
        OBVIOUS
    <2>4. log \in Seq(-MaxBack..Old) /\ Len(log) <= MaxLog
        BY <2>2, <2>3, LogIsTyped
    <2>5. TypeOK
        BY <2>1, <2>4, AuditAssumption DEF TypeOK
    <2> QED
        BY <2>1, <2>2, <2>3, <2>5 DEF AuditInv, NearlyInOrder, NotTooOld
<1>2. AuditInv /\ [Next]_vars => AuditInv'
    BY AuditAppend, AuditPrune, AuditSameLog, AuditTick, AuditSetBack DEF Next
<1> QED
    BY <1>1, <1>2, PTL DEF Spec

\* The state of the log and of the pruner is always well formed.
THEOREM TypeCorrect == Spec => []TypeOK
    BY AuditInvariant, PTL DEF AuditInv

\* Retention is kept (PruneAudit, runPruner): once the process has pruned, no
\* event stays longer than the retention and the delays that are accounted for.
THEOREM RetentionKept == Spec => []KeptInTime
<1>1. AuditInv => KeptInTime
    <2> SUFFICES ASSUME AuditInv, phase = "pruned", since < Interval, NEW i \in DOMAIN log
                 PROVE  log[i] <= Retention + Interval * (1 + fails) + back
        BY DEF KeptInTime
    <2>1. /\ Retention \in Nat /\ back \in Nat /\ since \in Nat /\ Interval \in Nat /\ fails \in Nat
        BY LogType, AuditAssumption DEF AuditInv
    <2>2. Interval * (1 + fails) = Interval * fails + Interval /\ Interval * fails \in Nat
        BY <2>1
    <2>3. log[i] \in Int /\ log[i] <= Retention + Interval * fails + since + back
        BY AgesKnown
    <2> QED
        BY <2>1, <2>2, <2>3
<1> QED
    BY <1>1, AuditInvariant, PTL

\* A prune leaves no more than the cap, whatever its cursor passes over.
THEOREM CapKept == Spec => CapAfterPrune
<1>1. ASSUME AuditInv, Prune PROVE Len(log') <= MaxEvents
    <2>1. TypeOK
        BY <1>1 DEF AuditInv
    <2>2. PICK t \in Touched : PruneAudit(t)
        BY <1>1 DEF Prune
    <2>3. Len(log') = Cardinality(Kept(t))
        BY <2>1, <2>2, PruneLeaves
    <2>4. /\ Expired \in Nat /\ Len(log) \in Nat /\ MaxEvents \in Nat /\ Excess \in Nat
          /\ Len(log) <= MaxEvents \/ Excess = Len(log) - MaxEvents
        BY <2>1, FirstPass, LogType, ExcessType
    <2>5. /\ Cardinality(Kept(t)) \in Nat /\ Cardinality(Kept(t)) <= Len(log) - Expired
          /\ \/ Cardinality(Kept(t)) = Len(log) - Expired - Excess
             \/ Kept(t) = (Expired+1..Len(log)) \ Visited(t)
        BY <2>1, KeptCount
    <2>6. Cardinality((Expired+1..Len(log)) \ Visited(t)) <= MaxEvents
        <3> DEFINE Over == (Expired+1..Len(log)) \ Visited(t)
        <3>1. IsFiniteSet(Over) /\ Cardinality(Over) <= PassedOver
            BY <2>1, FewPassedOver
        <3>2. Cardinality(Over) \in Nat
            BY <3>1, FS_CardinalityType
        <3> HIDE DEF Over
        <3>3. Cardinality(Over) <= MaxEvents
            BY <3>1, <3>2, PassedOverType
        <3> QED
            BY <3>3 DEF Over
    <2>7. Cardinality(Kept(t)) <= MaxEvents
        <3>1. CASE Kept(t) = (Expired+1..Len(log)) \ Visited(t)
            BY <2>6, <3>1
        <3>2. CASE Len(log) <= MaxEvents
            BY <2>4, <2>5, <3>2
        <3>3. CASE Excess = Len(log) - MaxEvents /\ Cardinality(Kept(t)) = Len(log) - Expired - Excess
            BY <2>4, <3>3
        <3> QED
            BY <2>4, <2>5, <3>1, <3>2, <3>3
    <2> QED
        BY <2>3, <2>7
<1>2. AuditInv /\ [Next]_vars => [Prune => Len(log') <= MaxEvents]_vars
    BY <1>1
<1> QED
    BY <1>2, AuditInvariant, PTL DEF Spec, CapAfterPrune

\* Within the cap, or when nothing has expired, it leaves exactly what it
\* should.
LEMMA PruneExact ==
    ASSUME TypeOK, NEW t \in Touched, PruneAudit(t), Len(log) <= MaxEvents \/ Expired = 0
    PROVE  log' = SubSeq(log, 1 + Max({Expired, Len(log) - MaxEvents}), Len(log))
<1> DEFINE e == Max({Expired, Len(log) - MaxEvents})
<1>1. /\ Expired \in Nat /\ Expired <= Len(log) /\ Len(log) \in Nat /\ MaxEvents \in Nat
      /\ Excess \in Nat
      /\ Len(log) <= MaxEvents => Excess = 0
      /\ Len(log) > MaxEvents => Excess = Len(log) - MaxEvents
    BY FirstPass, LogType, ExcessType
<1>2. e = IF Expired <= Len(log) - MaxEvents THEN Len(log) - MaxEvents ELSE Expired
    <2>1. Expired \in Int /\ Len(log) - MaxEvents \in Int
        BY <1>1
    <2> QED
        BY <2>1, LeastOfTwo
<1>3. e = Expired + Excess /\ e \in 0..Len(log)
    BY <1>1, <1>2
<1> HIDE DEF e
<1>4. Kept(t) = e+1..Len(log)
    <2>1. CASE Excess = 0
        <3>1. \A i \in Visited(t) : Rank(Visited(t), i) > 0
            <4>1. Visited(t) \subseteq 1..Len(log)
                BY <1>1, KeptPositions
            <4>2. \A i \in Visited(t) : Rank(Visited(t), i) \in 1..Cardinality(Visited(t))
                BY <1>1, <4>1, RankOfMember
            <4>3. Cardinality(Visited(t)) \in Nat
                BY <1>1, <4>1, Finite
            <4> QED
                BY <4>2, <4>3
        <3>2. Kept(t) = Expired+1..Len(log)
            BY <2>1, <3>1 DEF Kept
        <3> QED
            BY <1>1, <1>3, <2>1, <3>2
    <2>2. CASE Expired = 0
        <3>1. Visited(t) = 1..Len(log)
            <4>1. t = 0
                BY <2>2 DEF Touched
            <4> QED
                BY <1>1, <2>2, <4>1 DEF Visited
        <3>2. \A i \in 1..Len(log) : Rank(Visited(t), i) = i
            BY <1>1, <3>1, RankInInterval
        <3>3. \A i \in 1..Len(log) : i \in Kept(t) <=> i > Excess
            BY <1>1, <2>2, <3>1, <3>2 DEF Kept
        <3>4. \A i \in Kept(t) : i \in 1..Len(log)
            BY <1>1, <2>2 DEF Kept
        <3>5. \A i \in e+1..Len(log) : i \in 1..Len(log) /\ i > Excess
            BY <1>1, <1>3, <2>2
        <3>6. \A i \in 1..Len(log) : i > Excess => i \in e+1..Len(log)
            BY <1>1, <1>3, <2>2
        <3> QED
            BY <3>3, <3>4, <3>5, <3>6
    <2> QED
        BY <1>1, <2>1, <2>2
<1>5. ElementsAt(log, e+1..Len(log)) = SubSeq(log, e + 1, Len(log))
    BY <1>3, ElementsOfTail DEF TypeOK
<1>6. e + 1 = 1 + e
    BY <1>1, <1>3
<1> QED
    BY <1>4, <1>5, <1>6 DEF PruneAudit, e

\* And the last of what the second pass cannot reach are the last of the log.
LEMMA PruneSpares ==
    ASSUME TypeOK, NEW t \in Touched, PruneAudit(t), Len(log) > MaxEvents,
           NEW n \in Nat, n > 0, n = MaxEvents - Expired - PassedOver
    PROVE  Newest(log', n) = Newest(log, n)
<1> DEFINE Ages == -MaxBack..Old
           m == Len(log')
           e == Len(log) - n
<1>1. /\ Expired \in Nat /\ Expired <= Len(log) /\ Len(log) \in Nat /\ MaxEvents \in Nat
      /\ Excess = Len(log) - MaxEvents /\ PassedOver \in Nat
    BY FirstPass, LogType, ExcessType, PassedOverType
<1>2. e \in 0..Len(log) /\ e = Expired + Excess + PassedOver
    BY <1>1
<1>3. \A i \in e+1..Len(log) : i \in Kept(t)
    <2>1. ASSUME NEW i \in e+1..Len(log) PROVE i \in Kept(t)
        <3>1. Excess \in Nat
            BY ExcessType
        <3>2. i \in Expired+1..Len(log) /\ i > Expired + Excess + PassedOver
            BY <1>1, <1>2, <2>1, <3>1
        <3> QED
            BY <3>2, OutOfReach
    <2> QED
        BY <2>1
<1>4. log \in Seq(Ages) /\ Kept(t) \subseteq 1..Len(log) /\ e+1..Len(log) \subseteq Kept(t)
    BY <1>3, KeptPositions DEF TypeOK
<1>5. log' = ElementsAt(log, Kept(t)) /\ log' \in Seq(Ages) /\ m = Cardinality(Kept(t))
    <2>1. log' = ElementsAt(log, Kept(t))
        BY DEF PruneAudit
    <2>2. ElementsAt(log, Kept(t)) \in Seq(Ages) /\ Len(ElementsAt(log, Kept(t))) = Cardinality(Kept(t))
        <3> HIDE DEF Ages
        <3> QED
            BY <1>4, ElementsType
    <2> QED
        BY <2>1, <2>2
<1>6. /\ m \in Nat /\ m >= n
      /\ \A i \in e+1..Len(log) : log'[m - (Len(log) - i)] = log[i]
    <2> HIDE DEF Ages, e, m
    <2>1. /\ Cardinality(Kept(t)) \in Nat /\ Cardinality(Kept(t)) >= Len(log) - e
          /\ \A i \in e+1..Len(log) :
                 ElementsAt(log, Kept(t))[Cardinality(Kept(t)) - (Len(log) - i)] = log[i]
        BY <1>2, <1>4, ElementsAtEnd
    <2>2. Len(log) - e = n
        BY <1>1 DEF e
    <2> QED
        BY <1>5, <2>1, <2>2
<1>7. \A k \in 1..n : log'[m - n + k] = log[Len(log) - n + k]
    <2>1. ASSUME NEW k \in 1..n PROVE log'[m - n + k] = log[Len(log) - n + k]
        <3>1. e + k \in e+1..Len(log) /\ m - (Len(log) - (e + k)) = m - n + k
              /\ e + k = Len(log) - n + k
            BY <1>1, <1>6, <2>1
        <3> HIDE DEF e, m
        <3> QED
            BY <1>6, <3>1
    <2> QED
        BY <2>1
<1> HIDE DEF Ages, m, e
<1>8. n <= Len(log)
    BY <1>1, <1>2 DEF e
<1>9. /\ SubSeq(log, Len(log) - n + 1, Len(log)) = [k \in 1..n |-> log[Len(log) - n + k]]
      /\ SubSeq(log', m - n + 1, m) = [k \in 1..n |-> log'[m - n + k]]
    <2>1. SubSeq(log, Len(log) - n + 1, Len(log)) = [k \in 1..n |-> log[Len(log) - n + k]]
        BY <1>1, <1>4, <1>8
    <2>2. m = Len(log')
        BY DEF m
    <2>3. SubSeq(log', m - n + 1, m) = [k \in 1..n |-> log'[m - n + k]]
        BY <1>5, <1>6, <2>2
    <2> QED
        BY <2>1, <2>3
<1> QED
    BY <1>7, <1>9 DEF Newest, m

\* It leaves exactly what it should, or, when something has expired from a log
\* over the cap, the newest in any case and not many events too few.
THEOREM NewestKept == Spec => KeepsNewest
<1> DEFINE spared == MaxEvents - Expired - PassedOver
           Good == IF Len(log) <= MaxEvents \/ Expired = 0
                   THEN log' = SubSeq(log, 1 + Max({Expired, Len(log) - MaxEvents}), Len(log))
                   ELSE /\ Len(log') >= MaxEvents - Expired
                        /\ spared > 0 => Newest(log', spared) = Newest(log, spared)
<1>1. ASSUME AuditInv, Prune PROVE Good
    <2>1. TypeOK
        BY <1>1 DEF AuditInv
    <2>2. PICK t \in Touched : PruneAudit(t)
        BY <1>1 DEF Prune
    <2>3. CASE Len(log) <= MaxEvents \/ Expired = 0
        BY <2>1, <2>2, <2>3, PruneExact
    <2>4. CASE ~(Len(log) <= MaxEvents \/ Expired = 0)
        <3>1. /\ Expired \in Nat /\ Len(log) \in Nat /\ MaxEvents \in Nat /\ PassedOver \in Nat
              /\ Len(log) > MaxEvents /\ Excess = Len(log) - MaxEvents
            BY <2>1, <2>4, FirstPass, LogType, ExcessType, PassedOverType
        <3>2. Len(log') >= MaxEvents - Expired
            <4>1. Len(log') = Cardinality(Kept(t)) /\ Cardinality(Kept(t)) \in Nat
                BY <2>1, <2>2, PruneLeaves, KeptCount
            <4>2. Cardinality(Kept(t)) >= Len(log) - Expired - Excess
                BY <2>1, KeptCount
            <4> QED
                BY <3>1, <4>1, <4>2
        <3>3. ASSUME spared > 0 PROVE Newest(log', spared) = Newest(log, spared)
            <4>1. spared \in Nat
                BY <3>1, <3>3
            <4> QED
                BY <2>1, <2>2, <3>1, <3>3, <4>1, PruneSpares
        <3> QED
            BY <2>4, <3>2, <3>3
    <2> QED
        BY <2>3, <2>4
<1>2. AuditInv /\ [Next]_vars => [Prune => Good]_vars
    BY <1>1
<1> QED
    BY <1>2, AuditInvariant, PTL DEF Spec, KeepsNewest

=============================================================================
