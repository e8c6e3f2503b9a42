---------------------------- MODULE LoginLimiter ----------------------------
(***************************************************************************)
(* loginLimiter of internal/server/server.go: a sliding window over the    *)
(* attempts of each address, shared by bootstrap, registration, login and  *)
(* password reset.  Allow holds the limiter's mutex and reads the clock    *)
(* under it, so a call is one step.  The list of an address is cut back    *)
(* only when that address calls again, and is lost when the process ends.  *)
(*                                                                         *)
(* An attempt has an age; the code tells none apart that have left the     *)
(* window.  admitted is what the properties compare attempts with: the     *)
(* attempts let through within the last Window, kept by themselves.        *)
(***************************************************************************)
EXTENDS Naturals, FiniteSets

CONSTANTS
    Key,      \* addresses
    Attempt,  \* calls; one that is forgotten may come again
    Maximum,  \* 10, from every caller
    Window    \* five minutes

ASSUME LimiterAssumption ==
    Maximum \in Nat \ {0} /\ Window \in Nat \ {0} /\ IsFiniteSet(Attempt)

VARIABLES
    attempts,  \* loginLimiter.attempts
    admitted,  \* the attempts let through and younger than Window
    age        \* of each attempt; it stops at Window

vars == <<attempts, admitted, age>>

TypeOK ==
    /\ attempts \in [Key -> SUBSET Attempt]
    /\ admitted \in [Key -> SUBSET Attempt]
    /\ age \in [Attempt -> 0..Window]

Init ==
    /\ attempts = [k \in Key |-> {}]
    /\ admitted = [k \in Key |-> {}]
    /\ age = [a \in Attempt |-> 0]

\* timestamp.After(cutoff)
kept_Bad(k) == attempts[k]

kept(k) == {a \in attempts[k] : age[a] < Window}

InUse == UNION {attempts[k] \cup admitted[k] : k \in Key}

\* Admits one too many.
Allow_Bad(k) ==
    /\ Cardinality(kept(k)) <= Maximum
    /\ \E a \in Attempt \ InUse :
        /\ a = CHOOSE b \in Attempt \ InUse : TRUE
        /\ attempts' = [attempts EXCEPT ![k] = kept(k) \cup {a}]
        /\ admitted' = [admitted EXCEPT ![k] = @ \cup {a}]
        /\ age' = [age EXCEPT ![a] = 0]

Allow(k) ==
    /\ Cardinality(kept(k)) < Maximum
    /\ \E a \in Attempt \ InUse :
        /\ a = CHOOSE b \in Attempt \ InUse : TRUE
        /\ attempts' = [attempts EXCEPT ![k] = kept(k) \cup {a}]
        /\ admitted' = [admitted EXCEPT ![k] = @ \cup {a}]
        /\ age' = [age EXCEPT ![a] = 0]

\* A refused attempt is remembered in the place of the oldest.
Refuse_Bad(k) ==
    /\ Cardinality(kept(k)) >= Maximum
    /\ \E a \in kept(k) :
        /\ \A b \in kept(k) : age[b] <= age[a]
        /\ age' = [age EXCEPT ![a] = 0]
    /\ attempts' = [attempts EXCEPT ![k] = kept(k)]
    /\ UNCHANGED admitted

Refuse(k) ==
    /\ Cardinality(kept(k)) >= Maximum
    /\ attempts' = [attempts EXCEPT ![k] = kept(k)]
    /\ UNCHANGED <<admitted, age>>

Aged(a) == IF age[a] < Window THEN age[a] + 1 ELSE Window

Tick ==
    /\ age' = [a \in Attempt |-> Aged(a)]
    /\ admitted' = [k \in Key |-> {a \in admitted[k] : Aged(a) < Window}]
    /\ UNCHANGED attempts

\* The process ends and starts again; the promise is one of each process.
Restart ==
    /\ attempts' = [k \in Key |-> {}]
    /\ admitted' = [k \in Key |-> {}]
    /\ UNCHANGED age

Next == (\E k \in Key : Allow(k) \/ Refuse(k)) \/ Tick \/ Restart

Spec == Init /\ [][Next]_vars

\* Time passes, and a client that could get through tries.
FairSpec == Spec /\ WF_vars(Tick) /\ \A k \in Key : WF_vars(Allow(k))

-----------------------------------------------------------------------------
(* Properties.                                                             *)

\* In no window does an address get more than Maximum attempts through, and
\* what the limiter remembers is never short of one (Allow).
LimitHolds ==
    \A k \in Key : Cardinality(admitted[k]) <= Maximum /\ admitted[k] \subseteq attempts[k]

\* An address is refused only when Maximum of its attempts were let through
\* in the window: attempts that were refused, those of other addresses and
\* those at the window's end do not count (Allow).
RefusedForCause ==
    \A k \in Key : Cardinality(kept(k)) >= Maximum => Cardinality(admitted[k]) >= Maximum

\* Whoever goes on trying is let in again and again, however many attempts
\* were refused (Allow does not remember those).
LetInAgain == \A k \in Key : []<><<Allow(k)>>_vars

=============================================================================
