------------------------------- MODULE Store -------------------------------
(***************************************************************************)
(* The bbolt database of internal/store/store.go: its buckets and the      *)
(* transactions the server runs on them.  bbolt runs one read-write        *)
(* transaction at a time, commits it atomically and durably, and undoes it *)
(* when its function returns an error; every transaction that succeeds is  *)
(* therefore one action here, and one that fails changes nothing.          *)
(*                                                                         *)
(* A bucket is a function from keys to records, with None for a key that   *)
(* holds nothing yet.  The keys the program draws at random (user ids,     *)
(* session tokens, invitation and reset codes) are never drawn twice, so a *)
(* key that was used and deleted keeps a mark instead of None: Gone, or    *)
(* Revoked for a session that RevokeUserSessions deleted.  The code does   *)
(* not tell the two marks apart; the properties do.                        *)
(*                                                                         *)
(* A definition whose name ends in _Bad is a plausible mistake in the one  *)
(* that follows it; no behaviour uses it, and the README names the         *)
(* property that would notice it.                                          *)
(***************************************************************************)
EXTENDS Naturals

CONSTANTS
    UserId,            \* ids newID can draw
    Name,              \* user names after normalizeUsername
    Password,          \* passwords; a stored hash stands for its password
    Token,             \* session tokens createSession can draw
    InviteCode,        \* invitation codes
    ResetCode,         \* password reset codes
    SessionIdle,       \* config.SessionIdle
    SessionMax,        \* config.SessionMax
    InviteLife,        \* the lifetimes an administrator gives invitations
    ResetLife,         \* 10 minutes (handleResetUser)
    maxLoginAttempts,  \* 5
    lockDuration,      \* 15 minutes
    None, Gone, Revoked

Role == {"admin", "user"}

User == [name : Name, pw : Password, role : Role, enabled : BOOLEAN,
         failed : 0..maxLoginAttempts, lockedUntil : Nat]

Session == [user : UserId, lastSeen : Nat, expires : Nat]

Invite == [expires : Nat, usedBy : UserId \cup {None}]

PasswordReset == [user : UserId, expires : Nat, used : BOOLEAN]

\* The marks are none of the values they stand beside, and durations are
\* positive as config.Validate and the handlers' constants make them.
ASSUME MarksAssumption ==
    /\ None \notin UserId \cup User \cup Session \cup Invite \cup PasswordReset
    /\ Gone \notin Session \cup Invite
    /\ Revoked \notin Session
    /\ None # Gone /\ None # Revoked /\ Gone # Revoked

ASSUME DurationAssumption ==
    /\ SessionIdle \in Nat \ {0} /\ SessionMax \in Nat /\ SessionMax >= SessionIdle
    /\ InviteLife \subseteq Nat \ {0} /\ ResetLife \in Nat \ {0}
    /\ maxLoginAttempts \in Nat \ {0} /\ lockDuration \in Nat \ {0}

VARIABLES
    users,     \* bucket "users"
    names,     \* bucket "users_by_name": the index from name to id
    sessions,  \* bucket "sessions"
    invites,   \* bucket "invites"
    resets     \* bucket "password_resets"

store == <<users, names, sessions, invites, resets>>

StoreTypeOK ==
    /\ users \in [UserId -> User \cup {None}]
    /\ names \in [Name -> UserId \cup {None}]
    /\ sessions \in [Token -> Session \cup {None, Gone, Revoked}]
    /\ invites \in [InviteCode -> Invite \cup {None, Gone}]
    /\ resets \in [ResetCode -> PasswordReset \cup {None}]

\* initialize: every bucket exists and is empty.
StoreInit ==
    /\ users = [u \in UserId |-> None]
    /\ names = [n \in Name |-> None]
    /\ sessions = [t \in Token |-> None]
    /\ invites = [c \in InviteCode |-> None]
    /\ resets = [c \in ResetCode |-> None]

-----------------------------------------------------------------------------
(* Accounts *)

HasUsers == \E u \in UserId : users[u] # None

NewUser(name, pw, role) ==
    [name |-> name, pw |-> pw, role |-> role, enabled |-> TRUE,
     failed |-> 0, lockedUntil |-> 0]

PutNewUser_Bad(id, user) ==
    /\ users[id] = None
    /\ users' = [users EXCEPT ![id] = user]
    /\ names' = [names EXCEPT ![user.name] = id]

\* Both creations put the record and its index entry; ErrAlreadyExists when
\* the index already has the name.
PutNewUser(id, user) ==
    /\ users[id] = None
    /\ names[user.name] = None
    /\ users' = [users EXCEPT ![id] = user]
    /\ names' = [names EXCEPT ![user.name] = id]

CreateFirstUser_Bad(id, name, pw) ==
    /\ PutNewUser(id, NewUser(name, pw, "admin"))
    /\ UNCHANGED <<sessions, invites, resets>>

CreateFirstUser(id, name, pw) ==
    /\ ~HasUsers
    /\ PutNewUser(id, NewUser(name, pw, "admin"))
    /\ UNCHANGED <<sessions, invites, resets>>

InviteUsable_Bad(code, t) ==
    invites[code] \notin {None, Gone} /\ t < invites[code].expires

InviteUsable(code, t) ==
    /\ invites[code] \notin {None, Gone}
    /\ invites[code].usedBy = None
    /\ t < invites[code].expires

CreateInvitedUser_Bad(code, id, name, pw, t) ==
    /\ InviteUsable(code, t)
    /\ PutNewUser(id, NewUser(name, pw, "user"))
    /\ invites' = [invites EXCEPT ![code].usedBy = name]
    /\ UNCHANGED <<sessions, resets>>

CreateInvitedUser(code, id, name, pw, t) ==
    /\ InviteUsable(code, t)
    /\ PutNewUser(id, NewUser(name, pw, "user"))
    /\ invites' = [invites EXCEPT ![code].usedBy = id]
    /\ UNCHANGED <<sessions, resets>>

\* The count is only ever compared with maxLoginAttempts, so it stops there:
\* a count beyond it tells nothing apart.
RecordLoginFailure(id, t) ==
    /\ users[id] # None
    /\ LET failed == IF users[id].failed < maxLoginAttempts
                     THEN users[id].failed + 1 ELSE maxLoginAttempts
           until  == IF failed >= maxLoginAttempts THEN t + lockDuration
                                                   ELSE users[id].lockedUntil
       IN  users' = [users EXCEPT ![id] = [@ EXCEPT !.failed = failed,
                                                    !.lockedUntil = until]]
    /\ UNCHANGED <<names, sessions, invites, resets>>

ClearLoginFailures(id) ==
    /\ users[id] # None
    /\ users' = [users EXCEPT ![id] = [@ EXCEPT !.failed = 0, !.lockedUntil = 0]]
    /\ UNCHANGED <<names, sessions, invites, resets>>

\* A blind put of the caller's copy of the whole record.
UpdateUser(id, user) ==
    /\ users' = [users EXCEPT ![id] = user]
    /\ UNCHANGED <<names, sessions, invites, resets>>

-----------------------------------------------------------------------------
(* Sessions *)

IsSession(token) == sessions[token] \notin {None, Gone, Revoked}

SessionValid(token, t) ==
    /\ IsSession(token)
    /\ t < sessions[token].expires
    /\ t <= sessions[token].lastSeen + SessionIdle

CreateSession(token, id, t) ==
    /\ sessions[token] = None
    /\ sessions' = [sessions EXCEPT ![token] =
                       [user |-> id, lastSeen |-> t, expires |-> t + SessionMax]]
    /\ UNCHANGED <<users, names, invites, resets>>

\* A session that has expired is refused with ErrNotFound; the error undoes
\* the transaction, its Delete included, so a refusal changes nothing.
GetSession(token, t) ==
    /\ SessionValid(token, t)
    /\ sessions' = [sessions EXCEPT ![token] = [@ EXCEPT !.lastSeen = t]]
    /\ UNCHANGED <<users, names, invites, resets>>

\* Deleting a key that is already gone is no error.
RevokeSession(token) ==
    /\ sessions' = [sessions EXCEPT ![token] = IF IsSession(token) THEN Gone ELSE @]
    /\ UNCHANGED <<users, names, invites, resets>>

RevokeUserSessions(id) ==
    /\ sessions' = [t \in Token |-> IF IsSession(t) /\ sessions[t].user = id
                                    THEN Revoked ELSE sessions[t]]
    /\ UNCHANGED <<users, names, invites, resets>>

-----------------------------------------------------------------------------
(* Invitations and password resets *)

CreateInvite(code, expires) ==
    /\ invites[code] = None
    /\ invites' = [invites EXCEPT ![code] = [expires |-> expires, usedBy |-> None]]
    /\ UNCHANGED <<users, names, sessions, resets>>

\* Found by id, whether used, expired or neither.
DeleteInvite(code) ==
    /\ invites[code] \notin {None, Gone}
    /\ invites' = [invites EXCEPT ![code] = Gone]
    /\ UNCHANGED <<users, names, sessions, resets>>

CreatePasswordReset(code, id, expires) ==
    /\ resets[code] = None
    /\ resets' = [resets EXCEPT ![code] =
                     [user |-> id, expires |-> expires, used |-> FALSE]]
    /\ UNCHANGED <<users, names, sessions, invites>>

ResetUsable(code, t) ==
    /\ resets[code] # None
    /\ ~resets[code].used
    /\ t < resets[code].expires
    /\ users[resets[code].user] # None

ConsumePasswordReset(code, pw, t) ==
    /\ ResetUsable(code, t)
    /\ users' = [users EXCEPT ![resets[code].user] =
                    [@ EXCEPT !.pw = pw, !.failed = 0, !.lockedUntil = 0]]
    /\ resets' = [resets EXCEPT ![code] = [@ EXCEPT !.used = TRUE]]
    /\ UNCHANGED <<names, sessions, invites>>

=============================================================================
