---------------------------- MODULE EntryProofs ----------------------------
(***************************************************************************)
(* What stands before a login and an account: the limiter and the policy.  *)
(*                                                                         *)
(* The limiter is exact: what it remembers of the window is what it has    *)
(* let through in the window.  The loop of ValidatePassword finds exactly  *)
(* the passwords with a run, and normalize those that spell the name, for  *)
(* passwords and names of any length.                                      *)
(***************************************************************************)
EXTENDS LoginLimiter, PasswordPolicy, PositionsProofs

-----------------------------------------------------------------------------
(* The limiter *)

\* The remembered attempts that are still in the window are the admitted
\* ones, and there are never more than Maximum.
ExactInv ==
    \A k \in Key : admitted[k] = kept(k) /\ Cardinality(attempts[k]) <= Maximum

LimiterInv == TypeOK /\ ExactInv

\* What an address has in memory is finite.
LEMMA AttemptsFinite ==
    ASSUME TypeOK, NEW k \in Key
    PROVE  /\ IsFiniteSet(attempts[k]) /\ IsFiniteSet(kept(k))
           /\ Cardinality(kept(k)) \in Nat /\ Cardinality(kept(k)) <= Cardinality(attempts[k])
<1>1. attempts[k] \subseteq Attempt /\ kept(k) \subseteq attempts[k]
    BY DEF TypeOK, kept
<1>2. IsFiniteSet(attempts[k])
    BY <1>1, LimiterAssumption, FS_Subset
<1> QED
    BY <1>1, <1>2, FS_Subset, FS_CardinalityType

LEMMA LimiterInit == Init => LimiterInv
<1> SUFFICES ASSUME Init PROVE LimiterInv
    OBVIOUS
<1> USE LimiterAssumption
<1>1. TypeOK
    BY DEF Init, TypeOK
<1>2. ExactInv
    BY FS_EmptySet DEF Init, ExactInv, kept
<1> QED
    BY <1>1, <1>2 DEF LimiterInv

\* Letting an attempt through adds it to both sides.
LEMMA AllowStep ==
    ASSUME LimiterInv, NEW k \in Key, Allow(k)
    PROVE  LimiterInv'
<1> USE LimiterAssumption
<1>1. PICK a \in Attempt \ InUse :
          /\ attempts' = [attempts EXCEPT ![k] = kept(k) \cup {a}]
          /\ admitted' = [admitted EXCEPT ![k] = @ \cup {a}]
          /\ age' = [age EXCEPT ![a] = 0]
    BY DEF Allow
<1>2. TypeOK'
    BY <1>1 DEF LimiterInv, TypeOK, kept
<1>3. ASSUME NEW j \in Key PROVE a \notin attempts[j] /\ a \notin admitted[j]
    BY <1>1 DEF InUse
<1>4. ASSUME NEW j \in Key PROVE admitted'[j] = kept(j)'
    <2>1. CASE j = k
        <3>1. attempts'[k] = kept(k) \cup {a} /\ admitted'[k] = kept(k) \cup {a}
            BY <1>1 DEF LimiterInv, ExactInv, TypeOK
        <3>2. \A b \in kept(k) \cup {a} : age'[b] < Window
            BY <1>1, <1>3 DEF LimiterInv, TypeOK, kept
        <3> QED
            BY <2>1, <3>1, <3>2 DEF kept
    <2>2. CASE j # k
        <3>1. attempts'[j] = attempts[j] /\ admitted'[j] = admitted[j]
            BY <1>1, <2>2 DEF LimiterInv, TypeOK
        <3>2. \A b \in attempts[j] : age'[b] = age[b]
            BY <1>1, <1>3 DEF LimiterInv, TypeOK
        <3> QED
            BY <3>1, <3>2 DEF LimiterInv, ExactInv, kept
    <2> QED
        BY <2>1, <2>2
<1>5. ASSUME NEW j \in Key PROVE Cardinality(attempts'[j]) <= Maximum
    <2>1. IsFiniteSet(kept(k)) /\ Cardinality(kept(k)) \in Nat
        BY AttemptsFinite DEF LimiterInv
    <2>2. ASSUME NEW S, IsFiniteSet(S), a \notin S
          PROVE  Cardinality(S \cup {a}) = Cardinality(S) + 1
        BY <2>2, FS_AddElement
    <2>3. Cardinality(kept(k)) < Maximum
        BY DEF Allow
    <2>4. Cardinality(kept(k) \cup {a}) = Cardinality(kept(k)) + 1
        <3>1. a \notin kept(k)
            BY <1>3 DEF kept
        <3> QED
            BY <3>1, <2>1, <2>2
    <2> QED
        BY <1>1, <2>1, <2>3, <2>4 DEF LimiterInv, ExactInv, TypeOK
<1> QED
    BY <1>2, <1>4, <1>5 DEF LimiterInv, ExactInv

\* A refusal only forgets what has left the window.
LEMMA RefuseStep ==
    ASSUME LimiterInv, NEW k \in Key, Refuse(k)
    PROVE  LimiterInv'
<1> USE LimiterAssumption
<1>1. TypeOK'
    BY DEF LimiterInv, TypeOK, Refuse, kept
<1>2. ASSUME NEW j \in Key
      PROVE  admitted'[j] = kept(j)' /\ Cardinality(attempts'[j]) <= Maximum
    <2>1. Cardinality(kept(k)) <= Maximum
        <3>1. Cardinality(attempts[k]) <= Maximum /\ Cardinality(attempts[k]) \in Nat
            BY AttemptsFinite, FS_CardinalityType DEF LimiterInv, ExactInv
        <3> QED
            BY <3>1, AttemptsFinite DEF LimiterInv
    <2>2. attempts'[j] = (IF j = k THEN kept(k) ELSE attempts[j]) /\ age' = age
        BY DEF Refuse, LimiterInv, TypeOK
    <2>3. kept(j)' = kept(j)
        BY <2>2 DEF kept
    <2> QED
        BY <2>1, <2>2, <2>3 DEF LimiterInv, ExactInv, Refuse
<1> QED
    BY <1>1, <1>2 DEF LimiterInv, ExactInv

\* With time the same attempts leave both sides.
LEMMA TickStep == LimiterInv /\ Tick => LimiterInv'
<1> SUFFICES ASSUME LimiterInv, Tick PROVE LimiterInv'
    OBVIOUS
<1> USE LimiterAssumption
<1>1. TypeOK'
    BY DEF LimiterInv, TypeOK, Tick, Aged
<1>2. ASSUME NEW j \in Key PROVE admitted'[j] = kept(j)'
    <2>1. \A a \in attempts[j] : age'[a] = Aged(a) /\ (Aged(a) < Window => age[a] < Window)
        BY DEF LimiterInv, TypeOK, Tick, Aged
    <2>2. admitted'[j] = {a \in kept(j) : Aged(a) < Window}
        BY DEF LimiterInv, ExactInv, Tick
    <2>3. attempts'[j] = attempts[j]
        BY DEF Tick
    <2> QED
        BY <2>1, <2>2, <2>3 DEF kept
<1> QED
    BY <1>1, <1>2 DEF LimiterInv, ExactInv, Tick

\* The invariant holds in every reachable state.
THEOREM LimiterInvariant == Spec => []LimiterInv
<1>1. LimiterInv /\ [Next]_vars => LimiterInv'
    <2> SUFFICES ASSUME LimiterInv, [Next]_vars PROVE LimiterInv'
        OBVIOUS
    <2>1. CASE Restart
        <3>1. TypeOK'
            BY <2>1 DEF LimiterInv, TypeOK, Restart
        <3>2. ExactInv'
            BY <2>1, LimiterAssumption, FS_EmptySet DEF Restart, ExactInv, kept
        <3> QED
            BY <3>1, <3>2 DEF LimiterInv
    <2>2. CASE UNCHANGED vars
        BY <2>2 DEF vars, LimiterInv, TypeOK, ExactInv, kept
    <2> QED
        BY <2>1, <2>2, AllowStep, RefuseStep, TickStep DEF Next
<1> QED
    BY <1>1, LimiterInit, PTL DEF Spec

\* In no window does an address get more than Maximum attempts through, for
\* any addresses, limit and window.
THEOREM LimitIsKept == Spec => []LimitHolds
<1>1. LimiterInv => LimitHolds
    <2> SUFFICES ASSUME LimiterInv, NEW k \in Key
                 PROVE  Cardinality(admitted[k]) <= Maximum /\ admitted[k] \subseteq attempts[k]
        BY DEF LimitHolds
    <2>1. admitted[k] = kept(k) /\ Cardinality(attempts[k]) <= Maximum
        BY DEF LimiterInv, ExactInv
    <2>2. Cardinality(kept(k)) <= Cardinality(attempts[k]) /\ Cardinality(kept(k)) \in Nat
          /\ Cardinality(attempts[k]) \in Nat
        BY AttemptsFinite, FS_CardinalityType DEF LimiterInv
    <2> QED
        BY <2>1, <2>2, LimiterAssumption DEF kept
<1> QED
    BY <1>1, LimiterInvariant, PTL

\* An address is refused only when Maximum of its attempts were let through
\* in the window.
THEOREM RefusalsHaveCause == Spec => []RefusedForCause
<1>1. LimiterInv => RefusedForCause
    BY DEF LimiterInv, ExactInv, RefusedForCause
<1> QED
    BY <1>1, LimiterInvariant, PTL

-----------------------------------------------------------------------------
(* The loop over the password *)

\* The loop has counted the run that ends at the last rune it saw, and none
\* that it saw was too long.
Counted ==
    /\ index = 0 => repeated = 1
    /\ index > 0 => /\ previous = password[index]
                    /\ SameRun(index, repeated)
                    /\ ~SameRun(index, repeated + 1)
    /\ verdict = None => /\ repeated < MaxRun
                         /\ \A i \in 1..index : ~SameRun(i, MaxRun)
    /\ verdict = "repeated" => index > 0 /\ repeated = MaxRun
    /\ verdict = "ok" => ~HasRun

PolicyInv == PolicyTypeOK /\ Counted

LEMMA InitCounts == PolicyInit => PolicyInv
<1> SUFFICES ASSUME PolicyInit PROVE PolicyInv
  OBVIOUS
<1>1. name \in Seq(Char) /\ password \in Seq(Char) /\ <<>> \in Seq(Char)
  BY PolicyAssumption DEF PolicyInit
<1>2. Len(password) \in Nat
  BY <1>1
<1>3. PolicyTypeOK
  <2>1. policyName \in Seq(Char)
    BY <1>1 DEF PolicyInit
  <2>2. index \in 0..Len(password) /\ repeated \in 1..MaxRun
    BY <1>2, PolicyAssumption DEF PolicyInit
  <2>3. verdict \in Errors \cup {None, "ok"} /\ previous \in Char \cup {None}
    BY DEF PolicyInit
  <2> QED
    BY <1>1, <2>1, <2>2, <2>3 DEF PolicyTypeOK
<1>4. Counted
  BY PolicyAssumption DEF PolicyInit, Counted, None
<1> QED
  BY <1>3, <1>4 DEF PolicyInv

\* A step that only gives a verdict.
LEMMA AnswerTyped ==
  ASSUME PolicyTypeOK, NEW error \in Errors \cup {"ok"}, Answer(error)
  PROVE  PolicyTypeOK'
  BY DEF PolicyTypeOK, Answer

LEMMA TestsCount == PolicyInv /\ Tests => PolicyInv'
<1> SUFFICES ASSUME PolicyInv, Tests PROVE PolicyInv'
  OBVIOUS
<1>1. FirstError \in Errors \ {"repeated"}
  BY DEF Tests, FirstError, Errors, None
<1>2. Answer(FirstError)
  BY DEF Tests
<1>3. PolicyTypeOK'
  BY <1>1, <1>2, AnswerTyped DEF PolicyInv
<1>4. Counted'
  BY <1>1, <1>2 DEF PolicyInv, Tests, Answer, Counted, SameRun, Errors, None
<1> QED
  BY <1>3, <1>4 DEF PolicyInv

LEMMA AcceptCounts == PolicyInv /\ Accept => PolicyInv'
<1> SUFFICES ASSUME PolicyInv, Accept PROVE PolicyInv'
  OBVIOUS
<1>1. Answer("ok")
  BY DEF Accept
<1>2. PolicyTypeOK'
  BY <1>1, AnswerTyped DEF PolicyInv
<1>3. ~HasRun
  BY DEF PolicyInv, Accept, Counted, HasRun
<1>4. ~HasRun'
  BY <1>1, <1>3 DEF Answer, HasRun, SameRun
<1>5. Counted'
  BY <1>1, <1>4 DEF PolicyInv, Answer, Counted, SameRun, None
<1> QED
  BY <1>2, <1>5 DEF PolicyInv

\* One more rune lengthens the run or starts another.
LEMMA RuneCounts == PolicyInv /\ Rune => PolicyInv'
<1> SUFFICES ASSUME PolicyInv, Rune PROVE PolicyInv'
  OBVIOUS
<1> DEFINE next == index + 1
           again == index > 0 /\ password[next] = previous
<1>1. /\ index \in Nat /\ next \in 1..Len(password) /\ Len(password) \in Nat
      /\ password[next] \in Char
      /\ repeated \in 1..MaxRun /\ repeated < MaxRun /\ MaxRun \in Nat /\ MaxRun > 1
  BY PolicyAssumption DEF PolicyInv, PolicyTypeOK, Rune, Looping, Counted
<1>2. /\ index' = next /\ previous' = password[next] /\ password' = password
      /\ repeated' = IF again THEN repeated + 1 ELSE 1
      /\ verdict' = IF repeated' >= MaxRun THEN "repeated" ELSE None
      /\ UNCHANGED <<name, policyName>>
  BY DEF Rune
<1>3. PolicyTypeOK'
  <2>1. /\ name' \in Seq(Char) /\ password' \in Seq(Char) /\ policyName' \in Seq(Char)
        /\ previous' \in Char \cup {None}
    BY <1>1, <1>2 DEF PolicyInv, PolicyTypeOK
  <2>2. verdict' \in Errors \cup {None, "ok"}
    BY <1>2 DEF Errors
  <2>3. index' \in 0..Len(password') /\ repeated' \in 1..MaxRun
    BY <1>1, <1>2
  <2> QED
    BY <2>1, <2>2, <2>3 DEF PolicyTypeOK
<1>4. SameRun(next, repeated')
  <2>1. CASE again
    BY <1>1, <1>2, <2>1 DEF PolicyInv, Counted, SameRun
  <2>2. CASE ~again
    BY <1>1, <1>2, <2>2 DEF SameRun
  <2> QED
    BY <2>1, <2>2
<1>5. ~SameRun(next, repeated' + 1)
  <2>1. CASE again
    BY <1>1, <1>2, <2>1 DEF PolicyInv, Counted, SameRun
  <2>2. CASE ~again
    BY <1>1, <1>2, <2>2 DEF PolicyInv, Counted, SameRun
  <2> QED
    BY <2>1, <2>2
<1>6. repeated' < MaxRun => ~SameRun(next, MaxRun)
  BY <1>1, <1>2, <1>5 DEF SameRun
<1>7. \A i \in 1..index : ~SameRun(i, MaxRun)
  BY DEF PolicyInv, Rune, Looping, Counted
<1>8. Counted'
  <2>1. SameRun(index, repeated)' /\ ~SameRun(index, repeated + 1)'
    BY <1>2, <1>4, <1>5 DEF SameRun
  <2>2. ASSUME verdict' = None, NEW i \in 1..next PROVE ~SameRun(i, MaxRun)'
    <3>1. repeated' < MaxRun
      BY <1>1, <1>2, <2>2 DEF None
    <3>2. ~SameRun(i, MaxRun)
      BY <1>1, <1>6, <1>7, <3>1
    <3> QED
      BY <1>2, <3>2 DEF SameRun
  <2>3. verdict' = None => repeated' < MaxRun
    BY <1>1, <1>2 DEF None
  <2>4. verdict' = "repeated" => repeated' = MaxRun
    BY <1>1, <1>2 DEF None
  <2>5. verdict' # "ok" /\ index' > 0 /\ previous' = password'[index']
    BY <1>1, <1>2 DEF None
  <2> QED
    BY <1>1, <1>2, <2>1, <2>2, <2>3, <2>4, <2>5 DEF Counted
<1> QED
  BY <1>3, <1>8 DEF PolicyInv

LEMMA CountedSuffices == PolicyInv => RunIsFound
  BY PolicyAssumption DEF PolicyInv, PolicyTypeOK, Counted, RunIsFound, HasRun

\* The loop counts right in every reachable state, for passwords of any
\* length and any bound on repetition from two.
THEOREM LoopInvariant == PolicySpec => []PolicyInv
<1>1. PolicyInv /\ UNCHANGED policyVars => PolicyInv'
  BY DEF PolicyInv, PolicyTypeOK, Counted, HasRun, SameRun, policyVars
<1>2. PolicyInv /\ [PolicyNext]_policyVars => PolicyInv'
  BY <1>1, TestsCount, RuneCounts, AcceptCounts DEF PolicyNext
<1> QED
  BY InitCounts, <1>2, PTL DEF PolicySpec

\* ValidatePassword accepts no password in which a character comes MaxRun
\* times in a row and refuses none for it without one.
THEOREM RunsAreFound == PolicySpec => []RunIsFound
  BY LoopInvariant, CountedSuffices, PTL

-----------------------------------------------------------------------------
(* What normalize finds *)

\* The positions that normalize keeps.
Letters(value) == {i \in 1..Len(value) : IsWord(Lookalike(value[i]))}

\* It takes the letters one after the other.
LEMMA NormalForm ==
  ASSUME NEW value \in Seq(Char)
  PROVE  LET K == Letters(value) IN
         /\ K \subseteq 1..Len(value) /\ Len(value) \in Nat /\ Cardinality(K) \in Nat
         /\ DOMAIN normalize(value) = 1..Cardinality(K) /\ Len(normalize(value)) = Cardinality(K)
         /\ \A n \in 1..Cardinality(K) :
               Nth(K, n) \in K /\ normalize(value)[n] = Lookalike(value[Nth(K, n)])
         /\ normalize(value) = <<>> <=> Cardinality(K) = 0
<1> DEFINE K == Letters(value)
           mapped == [i \in 1..Len(value) |-> Lookalike(value[i])]
<1>1. K \subseteq 1..Len(value) /\ Len(value) \in Nat
  BY DEF Letters
<1>2. Cardinality(K) \in Nat /\ \A n \in 1..Cardinality(K) : Nth(K, n) \in K
  <2> HIDE DEF K
  <2> QED
    BY <1>1, Finite, NthPosition
<1>3. normalize(value) = [n \in 1..Cardinality(K) |-> mapped[Nth(K, n)]]
  BY DEF normalize, ElementsAt, Letters
<1> HIDE DEF K
<1>4. \A n \in 1..Cardinality(K) : normalize(value)[n] = Lookalike(value[Nth(K, n)])
  BY <1>1, <1>2, <1>3
<1>5. DOMAIN normalize(value) = 1..Cardinality(K) /\ Len(normalize(value)) = Cardinality(K)
  BY <1>2, <1>3
<1>6. normalize(value) = <<>> <=> Cardinality(K) = 0
  BY <1>2, <1>3, <1>5
<1> QED
  BY <1>1, <1>2, <1>4, <1>5, <1>6 DEF K

\* The letter after another has the next rank.
LEMMA NextLetter ==
  ASSUME NEW m \in Nat, NEW K, K \subseteq 1..m, NEW i \in K, NEW j \in K,
         i < j, \A x \in K : ~(i < x /\ x < j)
  PROVE  Rank(K, j) = Rank(K, i) + 1
<1>1. /\ i \in Int /\ j \in Int /\ Rank(K, i) < Rank(K, j)
      /\ Rank(K, i) \in 1..Cardinality(K) /\ Rank(K, j) \in 1..Cardinality(K)
      /\ Cardinality(K) \in Nat
  <2>1. i \in Int /\ j \in Int
    OBVIOUS
  <2> QED
    BY <2>1, RankIncreases, RankOfMember, Finite
<1>2. ASSUME Rank(K, i) + 1 < Rank(K, j) PROVE FALSE
  <2>1. Rank(K, i) + 1 \in 1..Cardinality(K)
    BY <1>1, <1>2
  <2>2. PICK x \in K : Rank(K, x) = Rank(K, i) + 1
    BY <2>1, RankTaken
  <2>3. x \in Int
    OBVIOUS
  <2>4. x <= i => Rank(K, x) <= Rank(K, i)
    BY <1>1, <2>3, RankGrows
  <2>5. j <= x => Rank(K, j) <= Rank(K, x)
    BY <1>1, <2>3, RankGrows
  <2> QED
    BY <1>1, <1>2, <2>2, <2>3, <2>4, <2>5
<1> QED
  BY <1>1, <1>2

\* Each position is the next one in K after that before it.
Follow(at, len, K, m) ==
  /\ K \subseteq 1..m
  /\ at \in [1..len -> K]
  /\ \A k \in 1..len - 1 :
        at[k] < at[k + 1] /\ \A i \in K : ~(at[k] < i /\ i < at[k + 1])

\* Letters that follow each other have ranks that follow each other.
LEMMA RanksInStep ==
  ASSUME NEW m \in Nat, NEW K, NEW len \in Nat, NEW at, NEW k \in 1..len,
         Follow(at, len, K, m)
  PROVE  Rank(K, at[k]) = Rank(K, at[1]) + k - 1
<1> DEFINE OffStep == {n \in Nat : n \in 1..len /\ Rank(K, at[n]) # Rank(K, at[1]) + n - 1}
<1>0. K \subseteq 1..m
  BY DEF Follow
<1>1. \A n \in 1..len : at[n] \in K /\ Rank(K, at[n]) \in Nat
  <2>1. \A i \in K : i \in Int
    BY <1>0
  <2>2. \A n \in 1..len : at[n] \in K
    BY DEF Follow
  <2> QED
    BY <1>0, <2>1, <2>2, RankType
<1>2. ASSUME OffStep # {} PROVE FALSE
  <2>1. PICK n \in OffStep : \A x \in OffStep : n <= x
    <3>1. OffStep \in SUBSET Nat
      OBVIOUS
    <3> HIDE DEF OffStep
    <3> QED
      BY <1>2, <3>1, LeastNumber
  <2>2. n \in 1..len /\ n # 1
    BY <1>1
  <2>3. n - 1 \in 1..len - 1 /\ n - 1 \in 1..len /\ n = (n - 1) + 1 /\ n - 1 \in Nat
    BY <2>2
  <2>4. Rank(K, at[n - 1]) = Rank(K, at[1]) + (n - 1) - 1
    BY <2>1, <2>3
  <2>5. Rank(K, at[n]) = Rank(K, at[n - 1]) + 1
    <3>1. at[n - 1] < at[n] /\ \A i \in K : ~(at[n - 1] < i /\ i < at[n])
      BY <2>3 DEF Follow
    <3>2. at[n - 1] \in K /\ at[n] \in K
      BY <2>2, <2>3 DEF Follow
    <3> QED
      BY <1>0, <3>1, <3>2, NextLetter
  <2>6. 1 \in 1..len /\ Rank(K, at[1]) \in Nat
    BY <1>1
  <2> QED
    BY <2>1, <2>3, <2>4, <2>5, <2>6
<1> QED
  BY <1>2

\* A password contains the normalized name if it spells it, and only then.
LEMMA FoundIsSpelled ==
  ASSUME password \in Seq(Char), NEW n \in Seq(Char), normalize(n) # <<>>
  PROVE  Contains(normalize(password), normalize(n)) <=> SpellsName(n)
<1> DEFINE word == normalize(n)
           text == normalize(password)
           len == Len(word)
           K == Letters(password)
           size == Cardinality(K)
           Spells(at) ==
             /\ \A k \in 1..len : Lookalike(password[at[k]]) = word[k]
             /\ \A k \in 1..len - 1 :
                   at[k] < at[k + 1] /\ \A i \in K : ~(at[k] < i /\ i < at[k + 1])
<1>1. SpellsName(n) <=> \E at \in [1..len -> K] : Spells(at)
  BY DEF SpellsName, Letters
<1>2. len \in Nat /\ len > 0
  <2>1. Len(normalize(n)) = Cardinality(Letters(n)) /\ Cardinality(Letters(n)) \in Nat
        /\ (normalize(n) = <<>> <=> Cardinality(Letters(n)) = 0)
    BY NormalForm
  <2> QED
    BY <2>1
<1>3. /\ Len(password) \in Nat /\ K \subseteq 1..Len(password) /\ size \in Nat /\ Len(text) = size
      /\ \A k \in 1..size : Nth(K, k) \in K /\ text[k] = Lookalike(password[Nth(K, k)])
  BY NormalForm
<1>4. Contains(text, word) <=>
        \E o \in 0..size - len : \A k \in 1..len : text[o + k] = word[k]
  BY <1>3 DEF Contains
<1> HIDE DEF K, size, word, text, len
<1>5. ASSUME NEW o \in 0..size - len, \A k \in 1..len : text[o + k] = word[k]
      PROVE  \E at \in [1..len -> K] : Spells(at)
  <2> DEFINE at == [k \in 1..len |-> Nth(K, o + k)]
  <2>1. \A k \in 1..len : o + k \in 1..size /\ o + k \in Int
    BY <1>2, <1>3, <1>5
  <2>2. at \in [1..len -> K]
    BY <1>3, <2>1
  <2>3. \A k \in 1..len : Lookalike(password[at[k]]) = word[k]
    BY <1>3, <1>5, <2>1
  <2>4. ASSUME NEW k \in 1..len - 1
        PROVE  at[k] < at[k + 1] /\ \A i \in K : ~(at[k] < i /\ i < at[k + 1])
    <3>1. /\ k \in 1..len /\ k + 1 \in 1..len
          /\ o + k \in 1..size /\ o + (k + 1) \in 1..size /\ o + k < o + (k + 1)
          /\ o + k \in Int /\ o + (k + 1) = (o + k) + 1
      BY <1>2, <1>3, <1>5, <2>1, <2>4
    <3>2. at[k] = Nth(K, o + k) /\ at[k + 1] = Nth(K, o + (k + 1))
      BY <3>1
    <3>3. at[k] < at[k + 1]
      BY <1>3, <3>1, <3>2, NthIncreases DEF size
    <3>4. at[k] \in K /\ Rank(K, at[k]) = o + k /\ at[k + 1] \in K /\ Rank(K, at[k + 1]) = o + k + 1
      BY <1>3, <3>1, <3>2, NthPosition DEF size
    <3>5. ASSUME NEW i \in K, at[k] < i, i < at[k + 1] PROVE FALSE
      <4>1. i \in Int /\ at[k] \in Int
        <5>1. \A x \in K : x \in Int
          BY <1>3
        <5> QED
          BY <3>4, <5>1
      <4> HIDE DEF at
      <4>2. Rank(K, at[k]) < Rank(K, i) /\ Rank(K, i) < Rank(K, at[k + 1])
        BY <1>3, <3>4, <3>5, <4>1, RankIncreases
      <4>3. Rank(K, i) \in Nat
        BY <1>3, <4>1, RankType
      <4> QED
        BY <3>1, <3>4, <4>2, <4>3
    <3> QED
      BY <3>3, <3>5
  <2>5. Spells(at)
    BY <2>3, <2>4
  <2> HIDE DEF at, Spells
  <2> QED
    BY <2>2, <2>5
<1>6. ASSUME NEW at \in [1..len -> K], Spells(at)
      PROVE  \E o \in 0..size - len : \A k \in 1..len : text[o + k] = word[k]
  <2> DEFINE o == Rank(K, at[1]) - 1
  <2>1. \A k \in 1..len : at[k] \in K /\ Rank(K, at[k]) \in 1..size
    BY <1>3, RankOfMember DEF size
  <2>2. 1 \in 1..len /\ len \in 1..len
    BY <1>2
  <2>3. ASSUME NEW k \in 1..len PROVE Rank(K, at[k]) = Rank(K, at[1]) + k - 1
    <3>1. Follow(at, len, K, Len(password))
      BY <1>3, <1>6 DEF Follow
    <3> QED
      BY <1>2, <1>3, <3>1, RanksInStep
  <2>4. o \in 0..size - len
    BY <1>2, <1>3, <2>1, <2>2, <2>3
  <2>5. ASSUME NEW k \in 1..len PROVE text[o + k] = word[k]
    <3>1. Rank(K, at[k]) = o + k
      BY <2>1, <2>2, <2>3
    <3>2. Nth(K, o + k) = at[k]
      BY <1>3, <2>1, <3>1, NthOfRank
    <3>3. o + k \in 1..size
      BY <2>1, <3>1
    <3> QED
      BY <1>3, <1>6, <3>2, <3>3
  <2> QED
    BY <2>4, <2>5
<1> QED
  BY <1>1, <1>4, <1>5, <1>6 DEF word, text, len

\* The tests before the loop have been passed, or are the verdict.
Tested ==
  /\ policyName \in {name, <<>>} /\ name # <<>>
  /\ index > 0 => FirstError = None
  /\ verdict = "ok" => index > 0
  /\ verdict = "contains name" => FirstError = "contains name"

\* FirstError looks at nothing that the request changes.
LEMMA SameError ==
  ASSUME UNCHANGED <<password, policyName>>
  PROVE  FirstError' = FirstError
  BY DEF FirstError

LEMMA TestedSteps == PolicyInv /\ Tested /\ [PolicyNext]_policyVars => Tested'
<1> SUFFICES ASSUME PolicyInv, Tested, [PolicyNext]_policyVars PROVE Tested'
  OBVIOUS
<1>1. CASE Tests
  BY <1>1, SameError DEF Tested, Tests, Answer, FirstError, None
<1>2. CASE Rune
  <2>1. FirstError = None /\ FirstError' = FirstError
    <3>1. UNCHANGED <<password, policyName>> /\ (index = 0 => FirstError = None)
      BY <1>2 DEF Rune, Looping
    <3>2. index = 0 \/ index > 0
      BY DEF PolicyInv, PolicyTypeOK
    <3> QED
      BY <3>1, <3>2, SameError DEF Tested
  <2>2. verdict' \in {"repeated", None} /\ UNCHANGED <<name, policyName>>
    BY <1>2 DEF Rune
  <2> QED
    BY <2>1, <2>2 DEF Tested, None
<1>3. CASE Accept
  BY <1>3, SameError DEF Tested, Accept, Answer, None
<1>4. CASE UNCHANGED policyVars
  BY <1>4, SameError DEF Tested, policyVars
<1> QED
  BY <1>1, <1>2, <1>3, <1>4 DEF PolicyNext

LEMMA TestedSuffices == PolicyInv /\ Tested => NameIsFound
<1> SUFFICES ASSUME PolicyInv, Tested PROVE NameIsFound
  OBVIOUS
<1>1. password \in Seq(Char) /\ name \in Seq(Char)
  BY DEF PolicyInv, PolicyTypeOK
<1>2. normalize(name) # <<>> =>
        (Contains(normalize(password), normalize(name)) <=> SpellsName(name))
  BY <1>1, FoundIsSpelled
<1>3. SpellsName(name) => normalize(name) # <<>>
  BY DEF SpellsName
<1>4. ASSUME verdict = "ok", policyName = name PROVE ~SpellsName(name)
  <2>1. FirstError = None /\ policyName # <<>>
    BY <1>4 DEF Tested
  <2>2. ~Contains(normalize(password), normalize(policyName))
    BY <2>1 DEF FirstError, None
  <2> QED
    BY <1>2, <1>3, <1>4, <2>2
<1>5. ASSUME verdict = "contains name"
      PROVE  SpellsName(name) \/ normalize(name) = <<>>
  <2>1. FirstError = "contains name"
    BY <1>5 DEF Tested
  <2>2. policyName # <<>> /\ Contains(normalize(password), normalize(policyName))
    BY <2>1 DEF FirstError, None
  <2>3. policyName = name
    BY <2>2 DEF Tested
  <2> QED
    BY <1>2, <2>2, <2>3
<1> QED
  BY <1>4, <1>5 DEF NameIsFound

\* ValidatePassword refuses a password for the user's name exactly if the
\* letters and digits of the name come one after the other in it, whatever
\* stands between them; but for a name without any it refuses all.
THEOREM NamesAreFound == PolicySpec => []NameIsFound
<1>1. PolicyInit => Tested
  <2> SUFFICES ASSUME PolicyInit PROVE Tested
    OBVIOUS
  <2>1. name \in Seq(Char) /\ Len(name) # 0
    BY PolicyAssumption DEF PolicyInit, validateUsername
  <2> QED
    BY <2>1 DEF PolicyInit, Tested, None
<1> QED
  BY <1>1, TestedSteps, TestedSuffices, LoopInvariant, PTL DEF PolicySpec

=============================================================================
