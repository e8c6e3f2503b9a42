------------------------------- MODULE Server -------------------------------
(***************************************************************************)
(* The HTTP server of internal/server/server.go over the database.  Every  *)
(* request runs in a goroutine of its own, and so does the input loop      *)
(* (forwardInput) of every terminal; they share the database, adminMu and  *)
(* the terminal manager's table, and whatever one of them has read may be  *)
(* out of date when it acts.  An action is what one goroutine does between *)
(* two points where another can run: a store transaction with the local    *)
(* tests around it, the acquisition of adminMu, or a call of the manager.  *)
(*                                                                         *)
(* Requests the server refuses before they touch the database (origin,     *)
(* rate limit, body, validation) change nothing here.  The route of an     *)
(* authenticated request and the fields of its body are chosen where the   *)
(* handler first looks at them.  The audit log, which no handler reads     *)
(* back, is left out.                                                      *)
(***************************************************************************)
EXTENDS Store, FiniteSets

CONSTANTS
    Request,       \* goroutines that serve requests, reused
    Term,          \* slots for terminal sessions, reused
    MaxTerminals,  \* config.MaxTerminals
    Routes,        \* the routes clients of this instance call
    Faulty,        \* program points at which a store call may return an error
    MaxTime,       \* bound: the clock stops here
    Delay          \* bound: a call commits at most Delay after its time.Now()

ASSUME ServerAssumption ==
    /\ MaxTerminals \in Nat \ {0} /\ MaxTime \in Nat \ {0} /\ Delay \in Nat
    /\ None \notin Request /\ None \notin Token /\ None \notin Term
    /\ None \notin [role : Role, enabled : BOOLEAN]
    /\ Faulty \subseteq {"verify", "session", "drop", "read", "put", "revoke"}

VARIABLES
    now,      \* the wall clock; 0 is the zero time.Time
    adminMu,  \* the request that holds Server.adminMu, or None
    req,      \* what each request's goroutine knows
    term      \* the terminal sessions and their input loops

vars == <<users, names, sessions, invites, resets, now, adminMu, req, term>>

\* The program points of a request.  "auth" to "asAdmin" are the middleware;
\* "lock" to "put" are handleUpdateUser; "revoke" to "mu" end every handler
\* that throws a user out, and at "mu" it waits for the mutex of a session.
Updating == {"read", "role", "enabled", "put"}
Revoking == {"revoke", "snapshot", "close", "mu"}
Point == {"idle", "verify", "session", "auth", "drop", "asUser", "asAdmin", "lock"}
             \cup Updating \cup Revoking

Frame == [pc : Point,
          token : Token \cup {None},     \* session of the request's cookie
          actor : UserId \cup {None},    \* user in the request's context
          target : UserId \cup {None},   \* user the handler acts on
          copy : User \cup {None},       \* record the handler read
          closing : SUBSET Term,         \* sessions CloseUser still has to close
          at : Term \cup {None}]         \* the one it is at

Idle == [pc |-> "idle", token |-> None, actor |-> None, target |-> None,
         copy |-> None, closing |-> {}, at |-> None]

\* "wait" to "writing" are points of forwardInput: reading a message, about
\* to look the session up, about to write to the PTY, in the middle of a
\* Write, which holds Session.mu.  A session is listed in the manager's table
\* until its shell has been reaped, closed or not; the loops go on without
\* the shell as long as a process it left has the PTY open.
Free == [pc |-> "free", listed |-> FALSE, user |-> None, token |-> None]

TermFrame ==
    {Free} \cup [pc : {"wait", "check", "write", "writing", "closed"}, listed : BOOLEAN,
                 user : UserId \cup {None}, token : Token \cup {None}]

ServerTypeOK ==
    /\ now \in Nat
    /\ adminMu \in Request \cup {None}
    /\ req \in [Request -> Frame]
    /\ term \in [Term -> TermFrame]

ServerInit ==
    /\ now = 1
    /\ adminMu = None
    /\ req = [r \in Request |-> Idle]
    /\ term = [w \in Term |-> Free]

Init == StoreInit /\ ServerInit

-----------------------------------------------------------------------------
(* What the steps are made of *)

\* What time.Now() returned to a call that commits at this instant.
Sampled == {t \in 1..now : now <= t + Delay}

At(r, point) == req[r].pc = point

Step(r, frame) == req' = [req EXCEPT ![r] = frame]

Return_Bad(r) == Step(r, Idle) /\ UNCHANGED adminMu

\* The handler returns; its deferred Unlock releases adminMu if it holds it.
Return(r) ==
    /\ Step(r, Idle)
    /\ adminMu' = IF adminMu = r THEN None ELSE adminMu

Registered(u) == {w \in Term : term[w].listed /\ term[w].user = u}

EnabledAdmin(user) == user # None /\ user.role = "admin" /\ user.enabled

lastEnabledAdmin_Bad(excludeID) ==
    \A u \in UserId \ {excludeID} : users[u] = None \/ users[u].role # "admin"

lastEnabledAdmin(excludeID) ==
    \A u \in UserId \ {excludeID} : ~EnabledAdmin(users[u])

-----------------------------------------------------------------------------
(* Requests without a session: handleBootstrap, handleRegister, handleLogin, *)
(* createSession, handlePasswordReset                                       *)

handleBootstrap(r) ==
    /\ "bootstrap" \in Routes /\ At(r, "idle")
    /\ \E id \in UserId, name \in Name, pw \in Password :
          /\ CreateFirstUser(id, name, pw)
          /\ Step(r, [Idle EXCEPT !.pc = "session", !.target = id])
    /\ UNCHANGED <<now, adminMu, term>>

handleRegister(r) ==
    /\ "register" \in Routes /\ At(r, "idle")
    /\ \E code \in InviteCode, id \in UserId, name \in Name, pw \in Password, t \in Sampled :
          /\ CreateInvitedUser(code, id, name, pw, t)
          /\ Step(r, [Idle EXCEPT !.pc = "session", !.target = id])
    /\ UNCHANGED <<now, adminMu, term>>

\* GetUserByUsername; the password is verified, slowly, against this copy.
\* An unknown name ends the request.
LoginLookup(r) ==
    /\ "login" \in Routes /\ At(r, "idle")
    /\ \E name \in Name :
          /\ names[name] # None
          /\ Step(r, [Idle EXCEPT !.pc = "verify", !.target = names[name],
                                  !.copy = users[names[name]]])
    /\ UNCHANGED <<store, now, adminMu, term>>

LoginFails(r) ==
    /\ At(r, "verify")
    /\ \E pw \in Password : ~req[r].copy.enabled \/ req[r].copy.pw # pw
    /\ \E t \in Sampled : RecordLoginFailure(req[r].target, t)
    /\ Return(r)
    /\ UNCHANGED <<now, term>>

Locked(user, t) == user.lockedUntil # 0 /\ t < user.lockedUntil

LoginLocked(r) ==
    /\ At(r, "verify")
    /\ req[r].copy.enabled
    /\ Locked(req[r].copy, now)
    /\ Return(r)
    /\ UNCHANGED <<store, now, term>>

LoginSucceeds_Bad(r) ==
    /\ At(r, "verify")
    /\ req[r].copy.enabled
    /\ ClearLoginFailures(req[r].target)
    /\ Step(r, [Idle EXCEPT !.pc = "session", !.target = req[r].target])
    /\ UNCHANGED <<now, adminMu, term>>

LoginSucceeds(r) ==
    /\ At(r, "verify")
    /\ req[r].copy.enabled
    /\ \E t \in Sampled : ~Locked(req[r].copy, t)
    /\ ClearLoginFailures(req[r].target)
    /\ Step(r, [Idle EXCEPT !.pc = "session", !.target = req[r].target])
    /\ UNCHANGED <<now, adminMu, term>>

createSession(r) ==
    /\ At(r, "session")
    /\ \E token \in Token, t \in Sampled : CreateSession(token, req[r].target, t)
    /\ Return(r)
    /\ UNCHANGED <<now, term>>

handlePasswordReset(r) ==
    /\ "password-reset" \in Routes /\ At(r, "idle")
    /\ \E code \in ResetCode, pw \in Password, t \in Sampled :
          ConsumePasswordReset(code, pw, t)
          /\ Step(r, [Idle EXCEPT !.pc = "revoke", !.target = resets[code].user])
    /\ UNCHANGED <<now, adminMu, term>>

-----------------------------------------------------------------------------
(* The middleware: authenticate, requireAuth, requireAdmin *)

Authenticate(r) ==
    /\ At(r, "idle")
    /\ \E token \in Token, t \in Sampled :
          /\ GetSession(token, t)
          /\ Step(r, [Idle EXCEPT !.pc = "auth", !.token = token,
                                  !.actor = sessions[token].user])
    /\ UNCHANGED <<now, adminMu, term>>

\* The user in the context is this copy: its role is not looked at again.
ReadUser(r) ==
    /\ At(r, "auth")
    /\ LET user == users[req[r].actor]
       IN  Step(r, [req[r] EXCEPT !.pc =
               IF user = None \/ ~user.enabled THEN "drop"
               ELSE IF user.role = "admin" THEN "asAdmin" ELSE "asUser"])
    /\ UNCHANGED <<store, now, adminMu, term>>

DropSession(r) ==
    /\ At(r, "drop")
    /\ RevokeSession(req[r].token)
    /\ Return(r)
    /\ UNCHANGED <<now, term>>

Authenticated(r) == req[r].pc \in {"asUser", "asAdmin"}

\* The handlers that only read, and everything that is refused after the
\* middleware: not an admin, no CSRF token, a bad body, not found, no slot.
Answer(r) ==
    /\ Authenticated(r)
    /\ Return(r)
    /\ UNCHANGED <<store, now, term>>

-----------------------------------------------------------------------------
(* handleLogout, handleTerminal *)

handleLogout(r) ==
    /\ "logout" \in Routes /\ Authenticated(r)
    /\ RevokeSession(req[r].token)
    /\ Return(r)
    /\ UNCHANGED <<now, term>>

\* terminals.Open; the input loop takes over from the request.  A slot that
\* a CloseUser still has in its list is not used again.
handleTerminal(r) ==
    /\ "terminal" \in Routes /\ Authenticated(r)
    /\ Cardinality(Registered(req[r].actor)) < MaxTerminals
    /\ \E w \in Term :
          /\ term[w].pc = "free"
          /\ \A other \in Request : w \notin req[other].closing \cup {req[other].at}
          /\ term' = [term EXCEPT ![w] = [pc |-> "wait", listed |-> TRUE,
                                          user |-> req[r].actor, token |-> req[r].token]]
    /\ Return(r)
    /\ UNCHANGED <<store, now>>

-----------------------------------------------------------------------------
(* The administrator's handlers *)

Admin(r, route) == route \in Routes /\ At(r, "asAdmin")

handleCreateInvite(r) ==
    /\ Admin(r, "create-invite")
    /\ \E code \in InviteCode, t \in Sampled, life \in InviteLife :
          CreateInvite(code, t + life)
    /\ Return(r)
    /\ UNCHANGED <<now, term>>

handleDeleteInvite(r) ==
    /\ Admin(r, "delete-invite")
    /\ \E code \in InviteCode : DeleteInvite(code)
    /\ Return(r)
    /\ UNCHANGED <<now, term>>

\* GetUserByID only says that the account exists; no account is ever deleted.
handleResetUser(r) ==
    /\ Admin(r, "reset-user")
    /\ \E code \in ResetCode, u \in UserId, t \in Sampled :
          /\ users[u] # None
          /\ CreatePasswordReset(code, u, t + ResetLife)
    /\ Return(r)
    /\ UNCHANGED <<now, term>>

handleRevokeUser(r) ==
    /\ Admin(r, "revoke-user")
    /\ \E u \in UserId : Step(r, [Idle EXCEPT !.pc = "revoke", !.target = u])
    /\ UNCHANGED <<store, now, adminMu, term>>

\* handleUpdateUser, up to adminMu.Lock().
UpdateUserStart(r) ==
    /\ Admin(r, "update-user")
    /\ Step(r, [Idle EXCEPT !.pc = "lock", !.actor = req[r].actor])
    /\ UNCHANGED <<store, now, adminMu, term>>

LockAdminMu_Bad(r) ==
    /\ At(r, "lock")
    /\ Step(r, [req[r] EXCEPT !.pc = "read"])
    /\ UNCHANGED <<store, now, adminMu, term>>

LockAdminMu(r) ==
    /\ At(r, "lock")
    /\ adminMu = None
    /\ adminMu' = r
    /\ Step(r, [req[r] EXCEPT !.pc = "read"])
    /\ UNCHANGED <<store, now, term>>

ReadTarget(r) ==
    /\ At(r, "read")
    /\ \E u \in UserId :
          /\ users[u] # None
          /\ Step(r, [req[r] EXCEPT !.pc = "role", !.target = u, !.copy = users[u]])
    /\ UNCHANGED <<store, now, adminMu, term>>

MayChangeRole_Bad(r, role) == ~(req[r].target = req[r].actor /\ role # "admin")

MayChangeRole(r, role) ==
    /\ ~(req[r].target = req[r].actor /\ role # "admin")
    /\ ~(req[r].copy.role = "admin" /\ role = "user" /\ lastEnabledAdmin(req[r].target))

\* None: the body has no "role".
SetRole(r) ==
    /\ At(r, "role")
    /\ \E role \in Role \cup {None} :
          /\ role # None => MayChangeRole(r, role)
          /\ Step(r, [req[r] EXCEPT !.pc = "enabled",
                                    !.copy.role = IF role = None THEN @ ELSE role])
    /\ UNCHANGED <<store, now, adminMu, term>>

MayDisable(r) ==
    /\ req[r].target # req[r].actor
    /\ ~(req[r].copy.role = "admin" /\ lastEnabledAdmin(req[r].target))

SetEnabled(r) ==
    /\ At(r, "enabled")
    /\ \E enabled \in BOOLEAN \cup {None} :
          /\ enabled = FALSE => MayDisable(r)
          /\ Step(r, [req[r] EXCEPT !.pc = "put",
                                    !.copy.enabled = IF enabled = None THEN @ ELSE enabled])
    /\ UNCHANGED <<store, now, adminMu, term>>

\* The early returns of handleUpdateUser: a body that does not decode, an
\* unknown account, a role that is no role, a change the guards refuse.
RefuseUpdate(r) ==
    /\ \/ req[r].pc \in {"read", "role"}
       \/ At(r, "enabled") /\ ~MayDisable(r)
    /\ Return(r)
    /\ UNCHANGED <<store, now, term>>

PutUser(r) ==
    /\ At(r, "put")
    /\ UpdateUser(req[r].target, req[r].copy)
    /\ IF req[r].copy.enabled
       THEN Return(r)
       ELSE /\ Step(r, [Idle EXCEPT !.pc = "revoke", !.target = req[r].target])
            /\ UNCHANGED adminMu
    /\ UNCHANGED <<now, term>>

-----------------------------------------------------------------------------
(* RevokeUserSessions and terminals.CloseUser, which end handleUpdateUser    *)
(* (when it disabled the account), handleRevokeUser and handlePasswordReset *)

RevokeSessions(r) ==
    /\ At(r, "revoke")
    /\ RevokeUserSessions(req[r].target)
    /\ Step(r, [req[r] EXCEPT !.pc = "snapshot"])
    /\ UNCHANGED <<now, adminMu, term>>

\* CloseUser copies the table under its mutex, then closes without it.
Snapshot(r) ==
    /\ At(r, "snapshot")
    /\ Step(r, [req[r] EXCEPT !.pc = "close", !.closing = Registered(req[r].target)])
    /\ UNCHANGED <<store, now, adminMu, term>>

\* Nothing is left of a session that is closed and not in the table.
Settled(frame) == IF frame.pc = "closed" /\ ~frame.listed THEN Free ELSE frame

\* Session.Close, by CloseUser or by the handler when a loop has ended.
Close(w) == [term EXCEPT ![w] = Settled([@ EXCEPT !.pc = "closed"])]

Unlocked(w) == term[w].pc # "writing"

TakeNext(r) ==
    /\ At(r, "close")
    /\ \E w \in req[r].closing :
          Step(r, [req[r] EXCEPT !.pc = "mu", !.closing = @ \ {w}, !.at = w])
    /\ UNCHANGED <<store, now, adminMu, term>>

\* Close takes Session.mu: it waits until no Write is under way.
CloseNext(r) ==
    /\ At(r, "mu")
    /\ Unlocked(req[r].at)
    /\ term' = Close(req[r].at)
    /\ Step(r, [req[r] EXCEPT !.pc = "close", !.at = None])
    /\ UNCHANGED <<store, now, adminMu>>

CloseDone(r) ==
    /\ At(r, "close")
    /\ req[r].closing = {}
    /\ Return(r)
    /\ UNCHANGED <<store, now, term>>

\* A store call, or NewToken, returns an error: the transaction is undone
\* and the handler answers 500 without its remaining steps.  (After the
\* middleware such an error is an Answer like any other.)
StoreError(r) ==
    /\ req[r].pc \in Faulty
    /\ Return(r)
    /\ UNCHANGED <<store, now, term>>

-----------------------------------------------------------------------------
(* forwardInput, one loop per terminal session *)

\* A message arrived; GetUserByID.
CheckUser(w) ==
    /\ term[w].pc = "wait"
    /\ LET user == users[term[w].user]
       IN  term' = IF user # None /\ user.enabled
                   THEN [term EXCEPT ![w].pc = "check"] ELSE Close(w)
    /\ UNCHANGED <<store, now, adminMu, req>>

CheckSession_Bad(w) ==
    /\ term[w].pc = "check"
    /\ term' = [term EXCEPT ![w].pc = "write"]
    /\ UNCHANGED <<store, now, adminMu, req>>

CheckSession(w) ==
    /\ term[w].pc = "check"
    /\ \E t \in Sampled :
          \/ /\ GetSession(term[w].token, t)
             /\ term' = [term EXCEPT ![w].pc = "write"]
          \/ /\ ~SessionValid(term[w].token, t)
             /\ term' = Close(w)
             /\ UNCHANGED store
    /\ UNCHANGED <<now, adminMu, req>>

\* ptySession.Write begins; a resize, or a text that is none, is over at once.
WriteInput(w) ==
    /\ term[w].pc = "write"
    /\ \E point \in {"writing", "wait"} : term' = [term EXCEPT ![w].pc = point]
    /\ UNCHANGED <<store, now, adminMu, req>>

\* The PTY has taken the input, or an error ends the loop.
WriteReturns(w) ==
    /\ term[w].pc = "writing"
    /\ term' \in {[term EXCEPT ![w].pc = "wait"], Close(w)}
    /\ UNCHANGED <<store, now, adminMu, req>>

\* The browser goes away or stops answering pings, output fails, or nobody
\* has the PTY open any more: the handler closes the session.
Disconnect(w) ==
    /\ term[w].pc \in {"wait", "check", "write"}
    /\ term' = Close(w)
    /\ UNCHANGED <<store, now, adminMu, req>>

\* The shell exits, by itself or signalled by Close: wait, remove.
ShellExits(w) ==
    /\ term[w].listed
    /\ term' = [term EXCEPT ![w] = Settled([@ EXCEPT !.listed = FALSE])]
    /\ UNCHANGED <<store, now, adminMu, req>>

-----------------------------------------------------------------------------
(* The environment *)

Tick ==
    /\ now < MaxTime
    /\ now' = now + 1
    /\ UNCHANGED <<store, adminMu, req, term>>

\* The process is killed and started again: only the database survives.
Crash ==
    /\ \/ \E r \in Request : ~At(r, "idle")
       \/ \E w \in Term : term[w].pc # "free"
    /\ adminMu' = None
    /\ req' = [r \in Request |-> Idle]
    /\ term' = [w \in Term |-> Free]
    /\ UNCHANGED <<store, now>>

-----------------------------------------------------------------------------

Arrive(r) ==
    \/ handleBootstrap(r) \/ handleRegister(r) \/ LoginLookup(r)
    \/ handlePasswordReset(r) \/ Authenticate(r)

Update(r) ==
    \/ ReadTarget(r) \/ SetRole(r) \/ SetEnabled(r) \/ RefuseUpdate(r) \/ PutUser(r)

\* What a request in flight does next.  Of these steps CloseNext alone may
\* have to wait, for a Write.
Proceed(r) ==
    \/ LoginFails(r) \/ LoginLocked(r) \/ LoginSucceeds(r) \/ createSession(r)
    \/ ReadUser(r) \/ DropSession(r) \/ Answer(r) \/ handleLogout(r) \/ handleTerminal(r)
    \/ handleCreateInvite(r) \/ handleDeleteInvite(r) \/ handleResetUser(r)
    \/ handleRevokeUser(r) \/ UpdateUserStart(r) \/ Update(r)
    \/ RevokeSessions(r) \/ Snapshot(r) \/ TakeNext(r) \/ CloseNext(r) \/ CloseDone(r)
    \/ StoreError(r)

Input(w) == CheckUser(w) \/ CheckSession(w) \/ WriteInput(w) \/ WriteReturns(w)

Next ==
    \/ \E r \in Request : Arrive(r) \/ Proceed(r) \/ LockAdminMu(r)
    \/ \E w \in Term : Input(w) \/ Disconnect(w) \/ ShellExits(w)
    \/ Tick \/ Crash

Spec == Init /\ [][Next]_vars

\* Go runs every goroutine that can run, store calls end, and a sync.Mutex
\* that a goroutine waits for, adminMu or that of a session, is handed to it
\* after one millisecond (starvation mode), so that a waiting request is never
\* passed by forever.  A Write may take any time, or never end.
Fairness == \A r \in Request : SF_vars(Proceed(r) \/ LockAdminMu(r))

FairSpec == Spec /\ Fairness

-----------------------------------------------------------------------------
(* Properties *)

TypeOK == StoreTypeOK /\ ServerTypeOK

\* handleUpdateUser decides on a copy of the target and on a listing of the
\* others, in several transactions, and then puts the copy back whatever has
\* happened since: still, once there are accounts there is always an
\* administrator who can log in, however the updates interleave.
AdminExists == HasUsers => \E u \in UserId : EnabledAdmin(users[u])

\* Why AdminExists holds.  Whoever is between ReadTarget and PutUser holds
\* adminMu, ...
HoldsAdminMu == \A r \in Request : req[r].pc \in Updating => adminMu = r

\* ... has an account and a copy of it (and who waits for a session knows
\* which), ...
WithCopy == {"role", "enabled", "put"}
WithTarget == {"verify", "session"} \cup WithCopy \cup Revoking

FrameOK(frame) ==
    /\ frame.pc \in WithTarget => frame.target \in UserId
    /\ frame.pc \in WithCopy => frame.copy \in User
    /\ frame.pc = "mu" => frame.at \in Term

\* ... and can put this copy back: if the account is an enabled administrator
\* it stays one, or there is another.
SafeToPut(r) ==
    req[r].pc \in WithCopy =>
        /\ users[req[r].target] # None
        /\ EnabledAdmin(users[req[r].target]) =>
              EnabledAdmin(req[r].copy) \/ ~lastEnabledAdmin(req[r].target)

\* Before the first account there is nothing at all to act on.
EmptyAtFirst ==
    HasUsers \/ /\ \A n \in Name : names[n] = None
                /\ \A t \in Token : sessions[t] = None
                /\ \A c \in InviteCode : invites[c] = None
                /\ \A c \in ResetCode : resets[c] = None
                /\ \A r \in Request : At(r, "idle")
                /\ \A w \in Term : term[w].pc = "free"

\* The inductive invariant.
AdminInv ==
    /\ TypeOK
    /\ EmptyAtFirst
    /\ \A r \in Request : FrameOK(req[r])
    /\ HoldsAdminMu
    /\ \A r \in Request : SafeToPut(r)
    /\ AdminExists

\* The index users_by_name and the names in the records agree, whole records
\* are put back from copies notwithstanding: every account has exactly its
\* own name, and no two share one.
NamesIndex ==
    /\ \A u \in UserId : users[u] # None => names[users[u].name] = u
    /\ \A n \in Name : names[n] # None =>
          users[names[n]] # None /\ users[names[n]].name = n

Spent(code) ==
    \/ invites[code] = Gone
    \/ invites[code] # None /\ invites[code].usedBy # None

\* README: the first account is the sole initial administrator and each
\* additional one takes a one-time invitation.  However bootstraps and
\* registrations race, there is one account more than spent codes at most.
OneInvitationEach ==
    Cardinality({u \in UserId : users[u] # None})
        <= 1 + Cardinality({c \in InviteCode : Spent(c)})

\* A request is about to throw this terminal's user out and will still
\* close this terminal.
BeingClosed(w) ==
    \E r \in Request :
        /\ req[r].target = term[w].user
        /\ \/ req[r].pc \in {"revoke", "snapshot"}
           \/ req[r].pc \in {"close", "mu"} /\ w \in req[r].closing
           \/ At(r, "mu") /\ req[r].at = w

\* forwardInput checks user and session and only then writes, and CloseUser
\* closes the sessions of a snapshot: as long as a terminal's shell is there,
\* a keystroke of a user who has been disabled, or whose session was revoked
\* from outside, reaches it only while the request that threw the user out
\* is still closing it.  A terminal whose shell has gone, and whose PTY is
\* held by what the shell has left, is not in the table and so in no
\* snapshot: there the message that was checked last may come later.
ThrownOutCannotType ==
    \A w \in Term :
        term[w].listed /\ term[w].pc \in {"write", "writing"} =>
            \/ sessions[term[w].token] # Revoked /\ users[term[w].user].enabled
            \/ BeingClosed(w)

\* And no terminal takes another: forwardInput looks at the user in one
\* transaction and at the session in the next, and lets a message of a user
\* disabled in between through only before the sessions are revoked, in the
\* same request and before it answers.
ThrownOutIsNotHeard ==
    [][\A w \in Term :
          term[w].pc = "check" /\ term'[w].pc = "write" =>
              \/ users[term[w].user].enabled
              \/ \E r \in Request : At(r, "revoke") /\ req[r].target = term[w].user]_vars

\* The account's lock runs past this instant.
RunningLock(u) == users[u] # None /\ now < users[u].lockedUntil

\* A lock that is running is lifted only by a password reset, or by a request
\* that read the account before the lock was set: no login that could have
\* seen the lock gets past it.  (A failure that is counted late may shorten
\* the lock by its Delay.)
LockLiftedOnlyByStale ==
    [][\A u \in UserId :
          RunningLock(u) /\ users'[u].lockedUntil + Delay < users[u].lockedUntil =>
              \/ \E c \in ResetCode : resets[c] # None /\ resets[c].user = u
                                      /\ ~resets[c].used /\ resets'[c].used
              \/ \E r \in Request :
                    /\ req[r].pc \in {"verify", "put"} /\ req[r].target = u
                    /\ req[r].copy.lockedUntil < users[u].lockedUntil
                    /\ req'[r].pc # req[r].pc]_vars

\* app.js, after a password reset: "Sign in with the new password."  A
\* password changes only by consuming a reset code.
PasswordChangedByResetOnly ==
    [][\A u \in UserId :
          users[u] # None /\ users'[u].pw # users[u].pw =>
              \E c \in ResetCode : resets'[c] # resets[c]]_vars

\* A request stands at a session, and may hold adminMu, for as long as a
\* Write to its PTY does not return.
HeldUp(w) == term[w].pc = "writing" /\ \E r \in Request : At(r, "mu") /\ req[r].at = w

\* Every request is answered: adminMu is given back, also on the early
\* returns and errors of handleUpdateUser, and no request is passed by
\* forever; unless CloseUser, which handleUpdateUser calls under adminMu, has
\* come to a session whose Write never returns.
RequestsEnd ==
    \A r \in Request : ~At(r, "idle") ~> At(r, "idle") \/ \E w \in Term : []HeldUp(w)

Accounts ==
    [u \in UserId |-> IF users[u] = None THEN None
                      ELSE [role |-> users[u].role, enabled |-> users[u].enabled]]

Invitations ==
    [c \in InviteCode |-> IF invites[c] = None THEN "new"
                          ELSE IF Spent(c) THEN "spent" ELSE "open"]

Dir == INSTANCE Directory WITH accounts <- Accounts, invitations <- Invitations

\* The server implements the directory of accounts: every step of a request,
\* of a terminal or of the environment is one of its steps or changes
\* nothing in it.
ImplementsDirectory == Dir!Spec

\* The steps alone, for runs that start from a database with accounts.
KeepsDirectory == [][Dir!Next]_<<Accounts, Invitations>>

=============================================================================
