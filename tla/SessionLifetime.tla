-------------------------- MODULE SessionLifetime --------------------------
(***************************************************************************)
(* How long one session lives: createSession of internal/server/server.go, *)
(* GetSession of internal/store/store.go, and the browser's cookie.        *)
(* Requests of the session overlap.  Each takes its time of day before the *)
(* database grants it the transaction, so that one with an earlier time    *)
(* can commit after one with a later.  Server has the same transaction for *)
(* many sessions and says who may act; this module says until when.        *)
(*                                                                         *)
(* Times are ages, counted from now; an age stops where neither the code   *)
(* nor a property tells it from a greater one.                             *)
(***************************************************************************)
EXTENDS Integers

CONSTANTS
    Request,   \* requests under way
    IdleTime,  \* SessionIdle
    MaxTime,   \* SessionMax
    Extra,     \* what the cookie lives longer than SessionIdle: an hour
    Delay      \* bound: time from time.Now() to the commit

\* Config.Validate asks for the first two.
ASSUME LifetimeAssumption ==
    /\ IdleTime \in Nat \ {0} /\ MaxTime \in Nat /\ IdleTime <= MaxTime
    /\ Extra \in Nat /\ Delay \in Nat

None == -1

VARIABLES
    there,    \* the record is in the database
    seen,     \* age of LastSeen
    left,     \* time to ExpiresAt
    cookie,   \* time the browser keeps the cookie
    socket,   \* a WebSocket is open, which needs no cookie any more
    late,     \* of each request: the age of its time, or None
    idle,     \* time since the last request that was accepted
    refused   \* age of the earliest time refused since then, or None

vars == <<there, seen, left, cookie, socket, late, idle, refused>>

Cap == IdleTime + Delay + 1
Bounded(x, bound) == IF x > bound THEN bound ELSE x

TypeOK ==
    /\ there \in BOOLEAN /\ socket \in BOOLEAN
    /\ seen \in 0..Cap /\ idle \in 0..Cap
    /\ left \in -Delay..MaxTime
    /\ cookie \in 0..IdleTime + Extra
    /\ late \in [Request -> None..Delay]
    /\ refused \in None..Delay + 1

\* createSession, answered with the cookie.
Init ==
    /\ there = TRUE /\ seen = 0 /\ left = MaxTime
    /\ cookie = IdleTime + Extra
    /\ socket = FALSE
    /\ late = [r \in Request |-> None]
    /\ idle = 0 /\ refused = None

\* A request of the page or a message on the WebSocket takes its time.
Send(r) ==
    /\ late[r] = None /\ (cookie > 0 \/ socket)
    /\ late' = [late EXCEPT ![r] = 0]
    /\ UNCHANGED <<there, seen, left, cookie, socket, idle, refused>>

\* Only the absolute expiry.
Expired_Bad(r) == left + late[r] <= 0

Expired(r) == left + late[r] <= 0 \/ seen - late[r] > IdleTime

Done(r) == late' = [late EXCEPT ![r] = None]

\* Keeps LastSeen as it is.
Accept_Bad(r) ==
    /\ there /\ late[r] # None /\ ~Expired(r)
    /\ idle' = 0 /\ refused' = None
    /\ Done(r)
    /\ socket' \in {socket, socket \/ cookie > 0}
    /\ UNCHANGED <<there, seen, left, cookie>>

\* Each use moves the absolute expiry too.
Accept_Slides_Bad(r) ==
    /\ there /\ late[r] # None /\ ~Expired(r)
    /\ seen' = late[r] /\ left' = left + IdleTime
    /\ idle' = 0 /\ refused' = None
    /\ Done(r)
    /\ socket' \in {socket, socket \/ cookie > 0}
    /\ UNCHANGED <<there, cookie>>

\* The record is put with the request's time; the request may be the one
\* that becomes the WebSocket.
Accept(r) ==
    /\ there /\ late[r] # None /\ ~Expired(r)
    /\ seen' = late[r]
    /\ idle' = 0 /\ refused' = None
    /\ Done(r)
    /\ socket' \in {socket, socket \/ cookie > 0}
    /\ UNCHANGED <<there, left, cookie>>

\* The time is put whether or not the session has expired.
Refuse_Bad(r) ==
    /\ there /\ late[r] # None /\ Expired(r)
    /\ refused' = IF late[r] > refused THEN late[r] ELSE refused
    /\ seen' = late[r]
    /\ Done(r)
    /\ socket' \in {FALSE, socket}
    /\ UNCHANGED <<there, left, cookie, idle>>

\* The error undoes the Delete, and the record stays.  The WebSocket is
\* closed when it was its message.
Refuse(r) ==
    /\ there /\ late[r] # None /\ Expired(r)
    /\ refused' = IF late[r] > refused THEN late[r] ELSE refused
    /\ Done(r)
    /\ socket' \in {FALSE, socket}
    /\ UNCHANGED <<there, seen, left, cookie, idle>>

NotFound(r) ==
    /\ ~there /\ late[r] # None
    /\ Done(r)
    /\ socket' \in {FALSE, socket}
    /\ UNCHANGED <<there, seen, left, cookie, idle, refused>>

\* Logout, a reset, or an administrator.
Revoke ==
    /\ there /\ there' = FALSE
    /\ UNCHANGED <<seen, left, cookie, socket, late, idle, refused>>

Disconnect ==
    /\ socket /\ socket' = FALSE
    /\ UNCHANGED <<there, seen, left, cookie, late, idle, refused>>

Tick ==
    /\ \A r \in Request : late[r] < Delay
    /\ seen' = Bounded(seen + 1, Cap) /\ idle' = Bounded(idle + 1, Cap)
    /\ left' = IF left > -Delay THEN left - 1 ELSE -Delay
    /\ cookie' = IF cookie > 0 THEN cookie - 1 ELSE 0
    /\ late' = [r \in Request |-> IF late[r] = None THEN None ELSE late[r] + 1]
    /\ refused' = IF refused = None THEN None ELSE Bounded(refused + 1, Delay + 1)
    /\ UNCHANGED <<there, socket>>

Next ==
    \/ \E r \in Request : Send(r) \/ Accept(r) \/ Refuse(r) \/ NotFound(r)
    \/ Revoke \/ Disconnect \/ Tick

Spec == Init /\ [][Next]_vars

-----------------------------------------------------------------------------
(* Properties.                                                             *)

\* "30-minute idle expiry, and 12-hour absolute expiry": a request is
\* accepted only within SessionIdle of the one accepted before it and within
\* SessionMax of the login, up to the time a transaction waits.  Times that
\* commit out of order take LastSeen back, never forward (GetSession).
AcceptedInTime ==
    [][\A r \in Request : Accept(r) => idle <= IdleTime + Delay /\ left > -Delay]_vars

\* A request is refused for idleness only when none was accepted for
\* SessionIdle, less the time a transaction waits: one that commits late
\* with its old time costs no more than that (GetSession).
RefusedInTime ==
    [][\A r \in Request :
         Refuse(r) => left + late[r] <= 0 \/ idle > IdleTime - Delay]_vars

\* The record of an expired session stays, yet a session that was refused is
\* accepted again only for a request that took its time before the one
\* refused (GetSession, whose Delete is undone).
RevivedOnlyByEarlier ==
    [][\A r \in Request : Accept(r) /\ refused # None => late[r] > refused]_vars

=============================================================================
