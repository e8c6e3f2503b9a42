---------------------------- MODULE SessionProofs ----------------------------
(***************************************************************************)
(* A session is used within its two lifetimes, give or take the time a     *)
(* transaction waits, for any number of requests and any lengths of time.  *)
(***************************************************************************)
EXTENDS SessionLifetime, TLAPS

\* LastSeen is older than the last use by no more than that request waited.
SeenFollowsUse == idle <= seen /\ seen <= idle + Delay

\* A time of day t ago would be refused.
TooLate(t) == left + t <= 0 \/ seen - t > IdleTime

\* What has been refused since the last use would be refused again, and so
\* would all that is younger.
RefusedStays == \A t \in 0..Delay : t <= refused => TooLate(t)

SessionInv == TypeOK /\ SeenFollowsUse /\ RefusedStays

\* Delays are integers; None is below all of them.
LEMMA Delays ==
    /\ IdleTime \in Nat /\ IdleTime > 0 /\ MaxTime \in Nat /\ Extra \in Nat /\ Delay \in Nat
    /\ None = -1 /\ Cap = IdleTime + Delay + 1
  BY LifetimeAssumption DEF None, Cap

\* The flags, and what is counted.
Flags == there \in BOOLEAN /\ socket \in BOOLEAN
Ages ==
    /\ seen \in 0..Cap /\ idle \in 0..Cap /\ left \in -Delay..MaxTime
    /\ cookie \in 0..IdleTime + Extra
    /\ late \in [Request -> None..Delay] /\ refused \in None..Delay + 1

LEMMA TypeParts == (TypeOK <=> Flags /\ Ages) /\ (Flags' /\ Ages' => TypeOK')
  BY DEF TypeOK, Flags, Ages

LEMMA FlagsStep == TypeOK /\ [Next]_vars => Flags'
<1> SUFFICES ASSUME Flags, [Next]_vars PROVE Flags'
    BY TypeParts
<1>1. ASSUME NEW r \in Request, Send(r) \/ NotFound(r) \/ Accept(r) \/ Refuse(r)
      PROVE  Flags'
    <2>1. socket' \in {FALSE, TRUE, socket}
        <3>1. (socket \/ cookie > 0) \in {TRUE, FALSE}
            OBVIOUS
        <3> QED
            BY <1>1, <3>1, Zenon DEF Send, NotFound, Accept, Refuse, Flags
    <2>2. there' = there
        BY <1>1 DEF Send, NotFound, Accept, Refuse
    <2> QED
        BY <2>1, <2>2 DEF Flags
<1>2. CASE Revoke \/ Disconnect \/ Tick \/ UNCHANGED vars
    BY <1>2 DEF Revoke, Disconnect, Tick, vars, Flags
<1> QED
    BY <1>1, <1>2 DEF Next

LEMMA SessionInit == Init => SessionInv
<1> SUFFICES ASSUME Init PROVE SessionInv
    OBVIOUS
<1>1. TypeOK
    <2>1. Flags
        BY DEF Init, Flags
    <2>2. Ages
        BY Delays DEF Init, Ages
    <2> QED
        BY <2>1, <2>2, TypeParts
<1>2. SeenFollowsUse /\ RefusedStays
    BY Delays DEF Init, SeenFollowsUse, RefusedStays
<1> QED
    BY <1>1, <1>2 DEF SessionInv

\* The request's time becomes LastSeen.
LEMMA AcceptKeeps ==
    ASSUME SessionInv, [Next]_vars, NEW r \in Request, Accept(r)
    PROVE  SessionInv'
<1>1. late[r] \in 0..Delay
    BY Delays DEF Accept, SessionInv, TypeOK
<1>2. TypeOK'
    <2>1. Ages'
        BY <1>1, TypeParts, Delays DEF Accept, Done, SessionInv, Ages
    <2> QED
        BY <2>1, TypeParts, FlagsStep DEF SessionInv
<1>3. SeenFollowsUse' /\ RefusedStays'
    BY <1>1, Delays DEF Accept, SeenFollowsUse, RefusedStays
<1> QED
    BY <1>2, <1>3 DEF SessionInv

\* Nothing moves but the earliest time refused.
LEMMA RefuseKeeps ==
    ASSUME SessionInv, [Next]_vars, NEW r \in Request, Refuse(r)
    PROVE  SessionInv'
<1>1. late[r] \in 0..Delay /\ refused \in None..Delay + 1 /\ seen \in Int /\ left \in Int
    BY Delays DEF Refuse, SessionInv, TypeOK
<1>2. TypeOK'
    <2>1. Ages'
        BY <1>1, TypeParts, Delays DEF Refuse, Done, SessionInv, Ages
    <2> QED
        BY <2>1, TypeParts, FlagsStep DEF SessionInv
<1>3. SeenFollowsUse'
    BY DEF Refuse, SessionInv, SeenFollowsUse
<1>4. RefusedStays'
    <2> SUFFICES ASSUME NEW t \in 0..Delay, t <= refused' PROVE TooLate(t)'
        BY DEF RefusedStays
    <2>1. TooLate(late[r])
        BY DEF Refuse, Expired, TooLate
    <2>2. TooLate(t)
        BY <1>1, <2>1, Delays DEF Refuse, SessionInv, RefusedStays, TooLate
    <2> QED
        BY <2>2 DEF Refuse, TooLate
<1> QED
    BY <1>2, <1>3, <1>4 DEF SessionInv

\* All ages grow alike, as far as they are counted.
LEMMA TickKeeps == SessionInv /\ Tick => SessionInv'
<1> SUFFICES ASSUME SessionInv, Tick PROVE SessionInv'
    OBVIOUS
<1>1. /\ seen \in 0..Cap /\ idle \in 0..Cap /\ left \in -Delay..MaxTime
      /\ cookie \in 0..IdleTime + Extra /\ refused \in None..Delay + 1
      /\ late \in [Request -> None..Delay]
    BY DEF SessionInv, TypeOK
<1>2. TypeOK'
    <2>1. late' \in [Request -> None..Delay]
        BY <1>1, Delays DEF Tick
    <2>2. /\ seen' \in 0..Cap /\ idle' \in 0..Cap /\ left' \in -Delay..MaxTime
          /\ cookie' \in 0..IdleTime + Extra /\ refused' \in None..Delay + 1
        BY <1>1, Delays DEF Tick, Bounded
    <2> QED
        BY <2>1, <2>2 DEF Tick, SessionInv, TypeOK
<1>3. SeenFollowsUse'
    BY <1>1, Delays DEF Tick, Bounded, SessionInv, SeenFollowsUse
<1>4. RefusedStays'
    <2> SUFFICES ASSUME NEW t \in 0..Delay, t <= refused' PROVE TooLate(t)'
        BY DEF RefusedStays
    <2>1. CASE t > 0
        <3>1. t - 1 \in 0..Delay /\ t - 1 <= refused
            BY <1>1, <2>1, Delays DEF Tick, Bounded
        <3>2. left + (t - 1) <= 0 \/ seen - (t - 1) > IdleTime
            BY <3>1 DEF SessionInv, RefusedStays, TooLate
        <3> QED
            BY <1>1, <3>1, <3>2, Delays DEF Tick, Bounded, TooLate
    <2>2. CASE t = 0
        <3>1. left <= 0 \/ seen > IdleTime
            BY <1>1, <2>2, Delays DEF Tick, Bounded, SessionInv, RefusedStays, TooLate
        <3> QED
            BY <1>1, <2>2, <3>1, Delays DEF Tick, Bounded, TooLate
    <2> QED
        BY <2>1, <2>2, Delays
<1> QED
    BY <1>2, <1>3, <1>4 DEF SessionInv

LEMMA SessionStep == SessionInv /\ [Next]_vars => SessionInv'
<1> SUFFICES ASSUME SessionInv, [Next]_vars PROVE SessionInv'
    OBVIOUS
<1>1. CASE UNCHANGED vars \/ Revoke \/ Disconnect
    BY <1>1 DEF vars, Revoke, Disconnect, SessionInv, TypeOK, SeenFollowsUse, RefusedStays, TooLate
<1>2. ASSUME NEW r \in Request, Send(r) \/ NotFound(r) PROVE SessionInv'
    <2>1. TypeOK'
        <3>1. Send(r) => Ages'
            BY TypeParts, Delays DEF Send, SessionInv, Ages
        <3>2. NotFound(r) => Ages'
            BY TypeParts, Delays DEF NotFound, Done, SessionInv, Ages
        <3> QED
            BY <1>2, <3>1, <3>2, TypeParts, FlagsStep DEF SessionInv
    <2>2. SeenFollowsUse' /\ RefusedStays'
        BY <1>2 DEF Send, NotFound, SessionInv, SeenFollowsUse, RefusedStays, TooLate
    <2> QED
        BY <2>1, <2>2 DEF SessionInv
<1> QED
    BY <1>1, <1>2, AcceptKeeps, RefuseKeeps, TickKeeps DEF Next

THEOREM SessionInvariant == Spec => []SessionInv
    BY SessionInit, SessionStep, PTL DEF Spec

\* Every reachable state of a session is well typed: no age leaves its range,
\* the remaining time does not grow.
THEOREM TypeCorrect == Spec => []TypeOK
<1>1. SessionInv => TypeOK
    BY DEF SessionInv
<1> QED
    BY <1>1, SessionInvariant, PTL

\* A request is accepted only within SessionIdle of the use before it and
\* SessionMax of the login, up to the time a transaction waits: LastSeen is
\* never younger than the last use.
THEOREM UsedInTime == Spec => AcceptedInTime
<1>1. SessionInv /\ [Next]_vars
      => [\A r \in Request : Accept(r) => idle <= IdleTime + Delay /\ left > -Delay]_vars
    <2> SUFFICES ASSUME SessionInv, NEW r \in Request, Accept(r)
                 PROVE  idle <= IdleTime + Delay /\ left > -Delay
        OBVIOUS
    <2>1. late[r] \in 0..Delay /\ seen \in Int /\ idle \in Int /\ left \in Int
        BY Delays DEF Accept, SessionInv, TypeOK
    <2> QED
        BY <2>1, Delays DEF Accept, Expired, SessionInv, SeenFollowsUse
<1> QED
    BY <1>1, SessionInvariant, PTL DEF Spec, AcceptedInTime

\* A request is refused for idleness only when nothing was accepted for
\* SessionIdle, less the time a transaction waits: LastSeen is never older
\* than the last use by more than that.
THEOREM RefusedOnlyIdle == Spec => RefusedInTime
<1>1. SessionInv /\ [Next]_vars
      => [\A r \in Request : Refuse(r) => left + late[r] <= 0 \/ idle > IdleTime - Delay]_vars
    <2> SUFFICES ASSUME SessionInv, NEW r \in Request, Refuse(r)
                 PROVE  left + late[r] <= 0 \/ idle > IdleTime - Delay
        OBVIOUS
    <2>1. late[r] \in 0..Delay /\ seen \in Int /\ idle \in Int /\ left \in Int
        BY Delays DEF Refuse, SessionInv, TypeOK
    <2> QED
        BY <2>1, Delays DEF Refuse, Expired, SessionInv, SeenFollowsUse
<1> QED
    BY <1>1, SessionInvariant, PTL DEF Spec, RefusedInTime

\* A session that was refused comes back only for a request that took its
\* time before the one refused, although its record is still there: all that
\* is younger than a refused time is refused.
THEOREM RevivedByEarlier == Spec => RevivedOnlyByEarlier
<1>1. SessionInv /\ [Next]_vars
      => [\A r \in Request : Accept(r) /\ refused # None => late[r] > refused]_vars
    <2> SUFFICES ASSUME SessionInv, NEW r \in Request, Accept(r), refused # None
                 PROVE  late[r] > refused
        OBVIOUS
    <2>1. late[r] \in 0..Delay /\ refused \in Int
        BY Delays DEF Accept, SessionInv, TypeOK
    <2>2. ~TooLate(late[r])
        BY DEF Accept, Expired, TooLate
    <2> QED
        BY <2>1, <2>2, Delays DEF SessionInv, RefusedStays
<1> QED
    BY <1>1, SessionInvariant, PTL DEF Spec, RevivedOnlyByEarlier

=============================================================================
