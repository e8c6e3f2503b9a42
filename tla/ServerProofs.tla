---------------------------- MODULE ServerProofs ----------------------------
(***************************************************************************)
(* Theorems about Server, for every set of requests, terminals, accounts,  *)
(* codes and tokens and every bound on the clock.                          *)
(*                                                                         *)
(* 1. Types, with what a request knows at each of its program points.      *)
(* 2. However the updates of accounts interleave with each other and with  *)
(*    every other request, there is always an enabled administrator, and   *)
(*    the server implements the directory of accounts.                     *)
(* 3. Whoever has been thrown out is heard no more and types into no       *)
(*    terminal whose shell is there, and no login that could have seen a   *)
(*    lock lifts it.                                                       *)
(***************************************************************************)
EXTENDS Server, FiniteSetTheorems, TLAPS

-----------------------------------------------------------------------------
(* The transactions of the store keep the types of its buckets *)

LEMMA ZeroFailures == 0 \in 0..maxLoginAttempts
  BY DurationAssumption

\* Putting a well-typed new user, as both creations do, keeps the two account
\* buckets well-typed.
LEMMA PutNewUserType ==
    ASSUME StoreTypeOK, NEW id \in UserId, NEW user \in User, PutNewUser(id, user)
    PROVE  /\ users' \in [UserId -> User \cup {None}]
           /\ names' \in [Name -> UserId \cup {None}]
           /\ users'[id] \in User
  BY DEF StoreTypeOK, PutNewUser, User

LEMMA NewUserType ==
    ASSUME NEW name \in Name, NEW pw \in Password, NEW role \in Role
    PROVE  NewUser(name, pw, role) \in User
  BY ZeroFailures DEF NewUser, User

LEMMA CreateFirstUserType ==
    ASSUME StoreTypeOK, NEW id \in UserId, NEW name \in Name, NEW pw \in Password,
           CreateFirstUser(id, name, pw)
    PROVE  StoreTypeOK' /\ users'[id] \in User
  <1>1. NewUser(name, pw, "admin") \in User
    BY NewUserType DEF Role
  <1> QED
    BY <1>1, PutNewUserType DEF CreateFirstUser, StoreTypeOK

LEMMA CreateInvitedUserType ==
    ASSUME StoreTypeOK, NEW code \in InviteCode, NEW id \in UserId, NEW name \in Name,
           NEW pw \in Password, NEW t, CreateInvitedUser(code, id, name, pw, t)
    PROVE  StoreTypeOK' /\ users'[id] \in User
  <1>1. NewUser(name, pw, "user") \in User
    BY NewUserType DEF Role
  <1>2. invites[code] \in Invite
    BY DEF CreateInvitedUser, InviteUsable, StoreTypeOK
  <1>3. [invites[code] EXCEPT !.usedBy = id] \in Invite
    BY <1>2 DEF Invite
  <1>4. invites' \in [InviteCode -> Invite \cup {None, Gone}]
    BY <1>3 DEF CreateInvitedUser, StoreTypeOK
  <1> QED
    BY <1>1, <1>4, PutNewUserType DEF CreateInvitedUser, StoreTypeOK

LEMMA RecordLoginFailureType ==
    ASSUME StoreTypeOK, NEW id \in UserId, NEW t \in Nat, RecordLoginFailure(id, t)
    PROVE  StoreTypeOK' /\ users'[id] \in User
  <1>1. users[id] \in User
    BY DEF RecordLoginFailure, StoreTypeOK
  <1> DEFINE failed == IF users[id].failed < maxLoginAttempts
                       THEN users[id].failed + 1 ELSE maxLoginAttempts
             until == IF failed >= maxLoginAttempts THEN t + lockDuration
                                                    ELSE users[id].lockedUntil
  <1>2. failed \in 0..maxLoginAttempts /\ until \in Nat
    BY <1>1, DurationAssumption DEF User
  <1> HIDE DEF failed, until
  <1>3. [users[id] EXCEPT !.failed = failed, !.lockedUntil = until] \in User
    BY <1>1, <1>2 DEF User
  <1>4. users' = [users EXCEPT ![id] =
                     [users[id] EXCEPT !.failed = failed, !.lockedUntil = until]]
    BY DEF RecordLoginFailure, failed, until
  <1> QED
    BY <1>3, <1>4 DEF RecordLoginFailure, StoreTypeOK

LEMMA ClearLoginFailuresType ==
    ASSUME StoreTypeOK, NEW id \in UserId, ClearLoginFailures(id)
    PROVE  StoreTypeOK' /\ users'[id] \in User
  <1>1. users[id] \in User
    BY DEF ClearLoginFailures, StoreTypeOK
  <1>2. [users[id] EXCEPT !.failed = 0, !.lockedUntil = 0] \in User
    BY <1>1, ZeroFailures DEF User
  <1> QED
    BY <1>2 DEF ClearLoginFailures, StoreTypeOK

LEMMA UpdateUserType ==
    ASSUME StoreTypeOK, NEW id \in UserId, NEW user \in User, UpdateUser(id, user)
    PROVE  StoreTypeOK'
  BY DEF UpdateUser, StoreTypeOK

LEMMA CreateSessionType ==
    ASSUME StoreTypeOK, NEW token \in Token, NEW id \in UserId, NEW t \in Nat,
           CreateSession(token, id, t)
    PROVE  StoreTypeOK'
  <1>1. [user |-> id, lastSeen |-> t, expires |-> t + SessionMax] \in Session
    BY DurationAssumption DEF Session
  <1> QED
    BY <1>1 DEF CreateSession, StoreTypeOK

LEMMA GetSessionType ==
    ASSUME StoreTypeOK, NEW token \in Token, NEW t \in Nat, GetSession(token, t)
    PROVE  StoreTypeOK'
  <1>1. sessions[token] \in Session
    BY DEF GetSession, SessionValid, IsSession, StoreTypeOK
  <1>2. [sessions[token] EXCEPT !.lastSeen = t] \in Session
    BY <1>1 DEF Session
  <1> QED
    BY <1>2 DEF GetSession, StoreTypeOK

LEMMA RevokeSessionType ==
    ASSUME StoreTypeOK, NEW token, RevokeSession(token)
    PROVE  StoreTypeOK'
  BY DEF RevokeSession, StoreTypeOK

LEMMA RevokeUserSessionsType ==
    ASSUME StoreTypeOK, NEW id, RevokeUserSessions(id)
    PROVE  StoreTypeOK'
  BY DEF RevokeUserSessions, StoreTypeOK

LEMMA CreateInviteType ==
    ASSUME StoreTypeOK, NEW code \in InviteCode, NEW expires \in Nat,
           CreateInvite(code, expires)
    PROVE  StoreTypeOK'
  <1>1. [expires |-> expires, usedBy |-> None] \in Invite
    BY DEF Invite
  <1> QED
    BY <1>1 DEF CreateInvite, StoreTypeOK

LEMMA DeleteInviteType ==
    ASSUME StoreTypeOK, NEW code \in InviteCode, DeleteInvite(code)
    PROVE  StoreTypeOK'
  BY DEF DeleteInvite, StoreTypeOK

LEMMA CreatePasswordResetType ==
    ASSUME StoreTypeOK, NEW code \in ResetCode, NEW id \in UserId, NEW expires \in Nat,
           CreatePasswordReset(code, id, expires)
    PROVE  StoreTypeOK'
  <1>1. [user |-> id, expires |-> expires, used |-> FALSE] \in PasswordReset
    BY DEF PasswordReset
  <1> QED
    BY <1>1 DEF CreatePasswordReset, StoreTypeOK

LEMMA ConsumePasswordResetType ==
    ASSUME StoreTypeOK, NEW code \in ResetCode, NEW pw \in Password, NEW t,
           ConsumePasswordReset(code, pw, t)
    PROVE  /\ StoreTypeOK'
           /\ resets[code].user \in UserId /\ users'[resets[code].user] \in User
  <1>1. resets[code] \in PasswordReset
    BY DEF ConsumePasswordReset, ResetUsable, StoreTypeOK
  <1>2. resets[code].user \in UserId
    BY <1>1 DEF PasswordReset
  <1>3. users[resets[code].user] \in User
    BY <1>2 DEF ConsumePasswordReset, ResetUsable, StoreTypeOK
  <1>4. [users[resets[code].user] EXCEPT !.pw = pw, !.failed = 0, !.lockedUntil = 0] \in User
    BY <1>3, ZeroFailures DEF User
  <1>5. [resets[code] EXCEPT !.used = TRUE] \in PasswordReset
    BY <1>1 DEF PasswordReset
  <1> QED
    BY <1>2, <1>4, <1>5 DEF ConsumePasswordReset, StoreTypeOK

LEMMA StoreInitType == StoreInit => StoreTypeOK
  BY DEF StoreInit, StoreTypeOK

-----------------------------------------------------------------------------
(* Types *)

TypeInv == TypeOK /\ \A r \in Request : FrameOK(req[r])

LEMMA SampledNat == Sampled \subseteq Nat
  BY DEF Sampled

LEMMA IdleOK == Idle \in Frame /\ FrameOK(Idle)
  BY DEF Idle, Frame, FrameOK, Point, Updating, WithTarget, WithCopy, Revoking

\* A step of a request to a good frame keeps all frames good.
LEMMA StepType ==
    ASSUME TypeInv, NEW r \in Request, NEW frame \in Frame, FrameOK(frame), Step(r, frame)
    PROVE  req' \in [Request -> Frame] /\ \A q \in Request : FrameOK(req'[q])
  BY DEF TypeInv, TypeOK, ServerTypeOK, Step

LEMMA ReturnType ==
    ASSUME TypeInv, NEW r \in Request, Return(r)
    PROVE  /\ req' \in [Request -> Frame] /\ \A q \in Request : FrameOK(req'[q])
           /\ adminMu' \in Request \cup {None}
  <1>1. req' \in [Request -> Frame] /\ \A q \in Request : FrameOK(req'[q])
    BY IdleOK, StepType DEF Return
  <1> QED
    BY <1>1 DEF Return, TypeInv, TypeOK, ServerTypeOK

\* A frame in which a handler goes on with nothing but an account.
LEMMA TargetFrame ==
    ASSUME NEW point \in {"session", "revoke"}, NEW u \in UserId
    PROVE  /\ [Idle EXCEPT !.pc = point, !.target = u] \in Frame
           /\ FrameOK([Idle EXCEPT !.pc = point, !.target = u])
  BY DEF Idle, Frame, FrameOK, Point, Updating, WithTarget, WithCopy, Revoking

\* A step that leaves the requests alone keeps their frames.
LEMMA SameRequests ==
    ASSUME TypeInv, UNCHANGED req
    PROVE  req' \in [Request -> Frame] /\ \A q \in Request : FrameOK(req'[q])
  BY DEF TypeInv, TypeOK, ServerTypeOK

LEMMA CloseType ==
    ASSUME TypeOK, NEW w \in Term
    PROVE  Close(w) \in [Term -> TermFrame]
  <1>1. term[w] \in TermFrame /\ Free \in TermFrame
    BY DEF TermFrame, TypeOK, ServerTypeOK
  <1>2. CASE term[w] = Free
    BY <1>1, <1>2 DEF Close, Settled, Free, TypeOK, ServerTypeOK
  <1>3. CASE term[w] # Free
    <2>1. [term[w] EXCEPT !.pc = "closed"] \in TermFrame
      BY <1>1, <1>3 DEF TermFrame
    <2> QED
      BY <1>1, <2>1 DEF Close, Settled, TypeOK, ServerTypeOK
  <1> QED
    BY <1>2, <1>3

\* The requests without a session keep the types.
LEMMA ArriveType ==
    ASSUME TypeInv, NEW r \in Request, Arrive(r)
    PROVE  TypeInv'
  <1> USE DEF TypeInv
  <1>1. CASE handleBootstrap(r)
    <2>1. PICK id \in UserId, name \in Name, pw \in Password :
            /\ CreateFirstUser(id, name, pw)
            /\ Step(r, [Idle EXCEPT !.pc = "session", !.target = id])
      BY <1>1 DEF handleBootstrap
    <2>2. StoreTypeOK'
      BY <2>1, CreateFirstUserType DEF TypeOK
    <2>3. req' \in [Request -> Frame] /\ \A q \in Request : FrameOK(req'[q])
      BY <2>1, TargetFrame, StepType
    <2> QED
      BY <1>1, <2>2, <2>3 DEF handleBootstrap, TypeOK, ServerTypeOK
  <1>2. CASE handleRegister(r)
    <2>1. PICK code \in InviteCode, id \in UserId, name \in Name, pw \in Password, t \in Sampled :
            /\ CreateInvitedUser(code, id, name, pw, t)
            /\ Step(r, [Idle EXCEPT !.pc = "session", !.target = id])
      BY <1>2 DEF handleRegister
    <2>2. StoreTypeOK'
      BY <2>1, CreateInvitedUserType DEF TypeOK
    <2>3. req' \in [Request -> Frame] /\ \A q \in Request : FrameOK(req'[q])
      BY <2>1, TargetFrame, StepType
    <2> QED
      BY <1>2, <2>2, <2>3 DEF handleRegister, TypeOK, ServerTypeOK
  <1>3. CASE LoginLookup(r)
    <2>1. PICK name \in Name :
            /\ names[name] # None
            /\ Step(r, [Idle EXCEPT !.pc = "verify", !.target = names[name],
                                    !.copy = users[names[name]]])
      BY <1>3 DEF LoginLookup
    <2>2. names[name] \in UserId /\ users[names[name]] \in User \cup {None}
      BY <2>1 DEF TypeOK, StoreTypeOK
    <2>3. /\ [Idle EXCEPT !.pc = "verify", !.target = names[name],
                          !.copy = users[names[name]]] \in Frame
          /\ FrameOK([Idle EXCEPT !.pc = "verify", !.target = names[name],
                                  !.copy = users[names[name]]])
      BY <2>2 DEF Idle, Frame, FrameOK, Point, WithTarget, WithCopy, Revoking
    <2>4. req' \in [Request -> Frame] /\ \A q \in Request : FrameOK(req'[q])
      BY <2>1, <2>3, StepType
    <2> QED
      BY <1>3, <2>4 DEF LoginLookup, TypeOK, ServerTypeOK, StoreTypeOK, store
  <1>4. CASE handlePasswordReset(r)
    <2>1. PICK code \in ResetCode, pw \in Password, t \in Sampled :
            /\ ConsumePasswordReset(code, pw, t)
            /\ Step(r, [Idle EXCEPT !.pc = "revoke", !.target = resets[code].user])
      BY <1>4 DEF handlePasswordReset
    <2>2. StoreTypeOK' /\ resets[code].user \in UserId
      BY <2>1, ConsumePasswordResetType DEF TypeOK
    <2>3. req' \in [Request -> Frame] /\ \A q \in Request : FrameOK(req'[q])
      BY <2>1, <2>2, TargetFrame, StepType
    <2> QED
      BY <1>4, <2>2, <2>3 DEF handlePasswordReset, TypeOK, ServerTypeOK
  <1>5. CASE Authenticate(r)
    <2>1. PICK token \in Token, t \in Sampled :
            /\ GetSession(token, t)
            /\ Step(r, [Idle EXCEPT !.pc = "auth", !.token = token,
                                    !.actor = sessions[token].user])
      BY <1>5 DEF Authenticate
    <2>2. StoreTypeOK'
      BY <2>1, GetSessionType, SampledNat DEF TypeOK
    <2>3. sessions[token].user \in UserId
      BY <2>1 DEF GetSession, SessionValid, IsSession, TypeOK, StoreTypeOK, Session
    <2>4. /\ [Idle EXCEPT !.pc = "auth", !.token = token,
                          !.actor = sessions[token].user] \in Frame
          /\ FrameOK([Idle EXCEPT !.pc = "auth", !.token = token,
                                  !.actor = sessions[token].user])
      BY <2>3 DEF Idle, Frame, FrameOK, Point, WithTarget, WithCopy, Revoking
    <2>5. req' \in [Request -> Frame] /\ \A q \in Request : FrameOK(req'[q])
      BY <2>1, <2>4, StepType
    <2> QED
      BY <1>5, <2>2, <2>5 DEF Authenticate, TypeOK, ServerTypeOK
  <1> QED
    BY <1>1, <1>2, <1>3, <1>4, <1>5 DEF Arrive

\* A request that ends, whatever it did to the store and the terminals.
LEMMA EndType ==
    ASSUME TypeInv, NEW r \in Request, Return(r), StoreTypeOK',
           term' \in [Term -> TermFrame], UNCHANGED now
    PROVE  TypeInv'
  BY ReturnType DEF TypeInv, TypeOK, ServerTypeOK

\* A request that goes on to a good frame without touching store or terminals.
LEMMA GoOnType ==
    ASSUME TypeInv, NEW r \in Request, NEW frame \in Frame, FrameOK(frame), Step(r, frame),
           UNCHANGED <<store, now, term>>, adminMu' \in Request \cup {None}
    PROVE  TypeInv'
  BY StepType DEF TypeInv, TypeOK, ServerTypeOK, StoreTypeOK, store

LEMMA SameStore == ASSUME TypeInv, UNCHANGED store PROVE StoreTypeOK'
  BY DEF TypeInv, TypeOK, StoreTypeOK, store

LEMMA SameRest ==
    ASSUME TypeInv, UNCHANGED term
    PROVE  term' \in [Term -> TermFrame]
  BY DEF TypeInv, TypeOK, ServerTypeOK

LEMMA SampleLater ==
    ASSUME NEW t \in Sampled, NEW life \in Nat
    PROVE  t + life \in Nat
  BY SampledNat

\* The steps after which a request has ended.
LEMMA EndingType ==
    ASSUME TypeInv, NEW r \in Request,
           \/ LoginFails(r) \/ LoginLocked(r) \/ createSession(r) \/ DropSession(r)
           \/ Answer(r) \/ handleLogout(r) \/ handleTerminal(r) \/ handleCreateInvite(r)
           \/ handleDeleteInvite(r) \/ handleResetUser(r) \/ RefuseUpdate(r)
           \/ CloseDone(r) \/ StoreError(r)
    PROVE  TypeInv'
  <1> USE DEF TypeInv
  <1>0. req[r] \in Frame /\ FrameOK(req[r])
    BY DEF TypeOK, ServerTypeOK
  <1>1. CASE LoginFails(r)
    <2>1. PICK t \in Sampled : RecordLoginFailure(req[r].target, t)
      BY <1>1 DEF LoginFails
    <2>2. req[r].target \in UserId
      BY <1>0, <1>1 DEF LoginFails, At, FrameOK, WithTarget
    <2>3. StoreTypeOK'
      BY <2>1, <2>2, SampledNat, RecordLoginFailureType DEF TypeOK
    <2> QED
      BY <1>1, <2>3, EndType, SameRest DEF LoginFails
  <1>2. CASE LoginLocked(r)
    BY <1>2, EndType, SameStore, SameRest DEF LoginLocked
  <1>3. CASE createSession(r)
    <2>1. PICK token \in Token, t \in Sampled : CreateSession(token, req[r].target, t)
      BY <1>3 DEF createSession
    <2>2. req[r].target \in UserId
      BY <1>0, <1>3 DEF createSession, At, FrameOK, WithTarget
    <2>3. StoreTypeOK'
      BY <2>1, <2>2, SampledNat, CreateSessionType DEF TypeOK
    <2> QED
      BY <1>3, <2>3, EndType, SameRest DEF createSession
  <1>4. CASE DropSession(r)
    <2>1. StoreTypeOK'
      BY <1>4, RevokeSessionType DEF DropSession, TypeOK
    <2> QED
      BY <1>4, <2>1, EndType, SameRest DEF DropSession
  <1>5. CASE Answer(r)
    BY <1>5, EndType, SameStore, SameRest DEF Answer
  <1>6. CASE handleLogout(r)
    <2>1. StoreTypeOK'
      BY <1>6, RevokeSessionType DEF handleLogout, TypeOK
    <2> QED
      BY <1>6, <2>1, EndType, SameRest DEF handleLogout
  <1>7. CASE handleTerminal(r)
    <2>1. [pc |-> "wait", listed |-> TRUE,
           user |-> req[r].actor, token |-> req[r].token] \in TermFrame
      BY <1>0 DEF Frame, TermFrame
    <2>2. term' \in [Term -> TermFrame]
      BY <1>7, <2>1 DEF handleTerminal, TypeOK, ServerTypeOK
    <2> QED
      BY <1>7, <2>2, EndType, SameStore DEF handleTerminal
  <1>8. CASE handleCreateInvite(r)
    <2>1. PICK code \in InviteCode, t \in Sampled, life \in InviteLife :
             CreateInvite(code, t + life)
      BY <1>8 DEF handleCreateInvite
    <2>2. t + life \in Nat
      BY DurationAssumption, SampleLater
    <2>3. StoreTypeOK'
      BY <2>1, <2>2, CreateInviteType DEF TypeOK
    <2> QED
      BY <1>8, <2>3, EndType, SameRest DEF handleCreateInvite
  <1>9. CASE handleDeleteInvite(r)
    <2>1. StoreTypeOK'
      BY <1>9, DeleteInviteType DEF handleDeleteInvite, TypeOK
    <2> QED
      BY <1>9, <2>1, EndType, SameRest DEF handleDeleteInvite
  <1>10. CASE handleResetUser(r)
    <2>1. PICK code \in ResetCode, u \in UserId, t \in Sampled :
             CreatePasswordReset(code, u, t + ResetLife)
      BY <1>10 DEF handleResetUser
    <2>2. t + ResetLife \in Nat
      BY DurationAssumption, SampleLater
    <2>3. StoreTypeOK'
      BY <2>1, <2>2, CreatePasswordResetType DEF TypeOK
    <2> QED
      BY <1>10, <2>3, EndType, SameRest DEF handleResetUser
  <1>11. CASE RefuseUpdate(r)
    BY <1>11, EndType, SameStore, SameRest DEF RefuseUpdate
  <1>12. CASE CloseDone(r)
    BY <1>12, EndType, SameStore, SameRest DEF CloseDone
  <1>13. CASE StoreError(r)
    BY <1>13, EndType, SameStore, SameRest DEF StoreError
  <1> QED
    BY <1>1, <1>2, <1>3, <1>4, <1>5, <1>6, <1>7, <1>8, <1>9, <1>10, <1>11, <1>12, <1>13

\* The steps of a request that go on and leave the database alone.
LEMMA GoingOnType ==
    ASSUME TypeInv, NEW r \in Request,
           \/ ReadUser(r) \/ handleRevokeUser(r) \/ UpdateUserStart(r) \/ LockAdminMu(r)
           \/ ReadTarget(r) \/ SetRole(r) \/ SetEnabled(r) \/ Snapshot(r) \/ TakeNext(r)
    PROVE  TypeInv'
  <1> USE DEF TypeInv
  <1>0. req[r] \in Frame /\ FrameOK(req[r]) /\ adminMu \in Request \cup {None}
    BY DEF TypeOK, ServerTypeOK
  <1> DEFINE Good(frame) == frame \in Frame /\ FrameOK(frame)
  <1>1. CASE ReadUser(r)
    <2>1. \A point \in {"drop", "asAdmin", "asUser"} : Good([req[r] EXCEPT !.pc = point])
      BY <1>0 DEF Frame, FrameOK, Point, WithTarget, WithCopy, Revoking
    <2>2. \E point \in {"drop", "asAdmin", "asUser"} : Step(r, [req[r] EXCEPT !.pc = point])
      BY <1>1 DEF ReadUser
    <2> QED
      BY <1>0, <1>1, <2>1, <2>2, GoOnType DEF ReadUser
  <1>2. CASE handleRevokeUser(r)
    BY <1>0, <1>2, TargetFrame, GoOnType DEF handleRevokeUser
  <1>3. CASE UpdateUserStart(r)
    <2>1. Good([Idle EXCEPT !.pc = "lock", !.actor = req[r].actor])
      BY <1>0 DEF Idle, Frame, FrameOK, Point, WithTarget, WithCopy, Revoking
    <2> QED
      BY <1>0, <1>3, <2>1, GoOnType DEF UpdateUserStart
  <1>4. CASE LockAdminMu(r)
    <2>1. Good([req[r] EXCEPT !.pc = "read"])
      BY <1>0 DEF Frame, FrameOK, Point, Updating, WithTarget, WithCopy, Revoking
    <2> QED
      BY <1>4, <2>1, GoOnType DEF LockAdminMu
  <1>5. CASE ReadTarget(r)
    <2>1. PICK u \in UserId :
            /\ users[u] # None
            /\ Step(r, [req[r] EXCEPT !.pc = "role", !.target = u, !.copy = users[u]])
      BY <1>5 DEF ReadTarget
    <2>2. users[u] \in User
      BY <2>1 DEF TypeOK, StoreTypeOK
    <2>3. Good([req[r] EXCEPT !.pc = "role", !.target = u, !.copy = users[u]])
      BY <1>0, <2>2 DEF Frame, FrameOK, Point, Updating
    <2> QED
      BY <1>0, <1>5, <2>1, <2>3, GoOnType DEF ReadTarget
  <1>6. CASE SetRole(r)
    <2>1. req[r].copy \in User /\ req[r].target \in UserId
      BY <1>0, <1>6 DEF SetRole, At, FrameOK, WithCopy, WithTarget
    <2>2. PICK role \in Role \cup {None} :
            Step(r, [req[r] EXCEPT !.pc = "enabled",
                                   !.copy.role = IF role = None THEN @ ELSE role])
      BY <1>6 DEF SetRole
    <2> DEFINE copy == [req[r].copy EXCEPT !.role = IF role = None THEN @ ELSE role]
    <2>3. copy \in User
      BY <2>1 DEF User
    <2> HIDE DEF copy
    <2>4. Good([req[r] EXCEPT !.pc = "enabled", !.copy = copy])
      BY <1>0, <2>1, <2>3 DEF Frame, FrameOK, Point, Updating
    <2>5. Step(r, [req[r] EXCEPT !.pc = "enabled", !.copy = copy])
      BY <1>0, <2>2 DEF copy, Step, Frame
    <2> QED
      BY <1>0, <1>6, <2>4, <2>5, GoOnType DEF SetRole
  <1>7. CASE SetEnabled(r)
    <2>1. req[r].copy \in User /\ req[r].target \in UserId
      BY <1>0, <1>7 DEF SetEnabled, At, FrameOK, WithCopy, WithTarget
    <2>2. PICK enabled \in BOOLEAN \cup {None} :
            Step(r, [req[r] EXCEPT !.pc = "put",
                                   !.copy.enabled = IF enabled = None THEN @ ELSE enabled])
      BY <1>7 DEF SetEnabled
    <2> DEFINE copy == [req[r].copy EXCEPT !.enabled = IF enabled = None THEN @ ELSE enabled]
    <2>3. copy \in User
      BY <2>1 DEF User
    <2> HIDE DEF copy
    <2>4. Good([req[r] EXCEPT !.pc = "put", !.copy = copy])
      BY <1>0, <2>1, <2>3 DEF Frame, FrameOK, Point, Updating
    <2>5. Step(r, [req[r] EXCEPT !.pc = "put", !.copy = copy])
      BY <1>0, <2>2 DEF copy, Step, Frame
    <2> QED
      BY <1>0, <1>7, <2>4, <2>5, GoOnType DEF SetEnabled
  <1>8. CASE Snapshot(r)
    <2>1. Good([req[r] EXCEPT !.pc = "close", !.closing = Registered(req[r].target)])
      BY <1>0, <1>8 DEF Snapshot, At, Registered, Frame, FrameOK, Point, WithTarget,
                        WithCopy, Revoking
    <2> QED
      BY <1>0, <1>8, <2>1, GoOnType DEF Snapshot
  <1>9. CASE TakeNext(r)
    <2>1. PICK w \in req[r].closing :
             Step(r, [req[r] EXCEPT !.pc = "mu", !.closing = @ \ {w}, !.at = w])
      BY <1>9 DEF TakeNext
    <2>2. req[r].closing \subseteq Term
      BY <1>0 DEF Frame
    <2>3. req[r].target \in UserId
      BY <1>0, <1>9 DEF TakeNext, At, FrameOK, WithTarget, Revoking
    <2> DEFINE next == [req[r] EXCEPT !.pc = "mu", !.closing = @ \ {w}, !.at = w]
    <2>4. next \in Frame /\ next.pc = "mu" /\ next.at = w /\ next.target = req[r].target
      BY <1>0, <2>2 DEF Frame, Point, Revoking
    <2>5. Good(next)
      <3> HIDE DEF next
      <3> QED
        BY <2>2, <2>3, <2>4 DEF FrameOK, WithCopy
    <2> QED
      BY <1>0, <1>9, <2>1, <2>5, GoOnType DEF TakeNext
  <1> QED
    BY <1>1, <1>2, <1>3, <1>4, <1>5, <1>6, <1>7, <1>8, <1>9

\* The steps of a request that change database or terminals and go on.
LEMMA WorkingType ==
    ASSUME TypeInv, NEW r \in Request,
           LoginSucceeds(r) \/ PutUser(r) \/ RevokeSessions(r) \/ CloseNext(r)
    PROVE  TypeInv'
  <1> USE DEF TypeInv
  <1>0. req[r] \in Frame /\ FrameOK(req[r])
    BY DEF TypeOK, ServerTypeOK
  <1>1. CASE LoginSucceeds(r)
    <2>1. req[r].target \in UserId
      BY <1>0, <1>1 DEF LoginSucceeds, At, FrameOK, WithTarget
    <2>2. StoreTypeOK'
      BY <1>1, <2>1, ClearLoginFailuresType DEF LoginSucceeds, TypeOK
    <2>3. req' \in [Request -> Frame] /\ \A q \in Request : FrameOK(req'[q])
      BY <1>1, <2>1, TargetFrame, StepType DEF LoginSucceeds
    <2> QED
      BY <1>1, <2>2, <2>3 DEF LoginSucceeds, TypeOK, ServerTypeOK
  <1>2. CASE PutUser(r)
    <2>1. req[r].copy \in User /\ req[r].target \in UserId
      BY <1>0, <1>2 DEF PutUser, At, FrameOK, WithCopy, WithTarget
    <2>2. StoreTypeOK'
      BY <1>2, <2>1, UpdateUserType DEF PutUser, TypeOK
    <2>3. CASE req[r].copy.enabled
      BY <1>2, <2>2, <2>3, EndType, SameRest DEF PutUser
    <2>4. CASE ~req[r].copy.enabled
      <3>1. req' \in [Request -> Frame] /\ \A q \in Request : FrameOK(req'[q])
        BY <1>2, <2>1, <2>4, TargetFrame, StepType DEF PutUser
      <3> QED
        BY <1>2, <2>2, <2>4, <3>1 DEF PutUser, TypeOK, ServerTypeOK
    <2> QED
      BY <2>3, <2>4
  <1>3. CASE RevokeSessions(r)
    <2>1. StoreTypeOK'
      BY <1>3, RevokeUserSessionsType DEF RevokeSessions, TypeOK
    <2>2. /\ [req[r] EXCEPT !.pc = "snapshot"] \in Frame
          /\ FrameOK([req[r] EXCEPT !.pc = "snapshot"])
      BY <1>0, <1>3 DEF RevokeSessions, At, Frame, FrameOK, Point, WithTarget, WithCopy, Revoking
    <2>3. req' \in [Request -> Frame] /\ \A q \in Request : FrameOK(req'[q])
      BY <1>3, <2>2, StepType DEF RevokeSessions
    <2> QED
      BY <1>3, <2>1, <2>3 DEF RevokeSessions, TypeOK, ServerTypeOK
  <1>4. CASE CloseNext(r)
    <2>1. req[r].at \in Term /\ req[r].target \in UserId
      BY <1>0, <1>4 DEF CloseNext, At, FrameOK, WithTarget, Revoking
    <2>2. Step(r, [req[r] EXCEPT !.pc = "close", !.at = None]) /\ term' = Close(req[r].at)
      BY <1>4 DEF CloseNext
    <2>3. /\ [req[r] EXCEPT !.pc = "close", !.at = None] \in Frame
          /\ FrameOK([req[r] EXCEPT !.pc = "close", !.at = None])
      BY <1>0, <2>1 DEF Frame, Point, Revoking, FrameOK, WithCopy
    <2>4. req' \in [Request -> Frame] /\ \A q \in Request : FrameOK(req'[q])
      BY <2>2, <2>3, StepType
    <2>5. term' \in [Term -> TermFrame]
      BY <2>1, <2>2, CloseType
    <2> QED
      BY <1>4, <2>4, <2>5 DEF CloseNext, TypeOK, StoreTypeOK, ServerTypeOK, store
  <1> QED
    BY <1>1, <1>2, <1>3, <1>4

LEMMA ProceedType ==
    ASSUME TypeInv, NEW r \in Request, Proceed(r) \/ LockAdminMu(r)
    PROVE  TypeInv'
  BY EndingType, GoingOnType, WorkingType DEF Proceed, Update

\* The input loops, the shells, the clock and a restart keep the types.
LEMMA EnvironmentType ==
    ASSUME TypeInv,
           \/ \E w \in Term : Input(w) \/ Disconnect(w) \/ ShellExits(w)
           \/ Tick \/ Crash
    PROVE  TypeInv'
  <1> USE DEF TypeInv
  <1>1. ASSUME NEW w \in Term, CheckSession(w)
        PROVE  TypeInv'
    <2>1. term[w] \in TermFrame /\ term[w] # Free
      BY <1>1 DEF CheckSession, Free, TypeOK, ServerTypeOK
    <2>2. PICK t \in Sampled :
            \/ GetSession(term[w].token, t) /\ term' = [term EXCEPT ![w].pc = "write"]
            \/ term' = Close(w) /\ UNCHANGED store
      BY <1>1 DEF CheckSession
    <2>3. StoreTypeOK'
      <3>1. CASE UNCHANGED store
        BY <3>1, SameStore
      <3>2. CASE GetSession(term[w].token, t) /\ term[w].token \in Token
        BY <3>2, SampledNat, GetSessionType DEF TypeOK
      <3>3. CASE GetSession(term[w].token, t) /\ term[w].token \notin Token
        BY <3>3 DEF GetSession, TypeOK, StoreTypeOK
      <3> QED
        BY <2>2, <3>1, <3>2, <3>3
    <2>4. [term EXCEPT ![w].pc = "write"] \in [Term -> TermFrame]
      BY <2>1 DEF TypeOK, ServerTypeOK, TermFrame
    <2>5. term' \in [Term -> TermFrame]
      BY <2>2, <2>4, CloseType
    <2> QED
      BY <1>1, <2>3, <2>5, SameRequests DEF CheckSession, TypeOK, ServerTypeOK
  <1>2. ASSUME NEW w \in Term,
               \/ CheckUser(w) \/ WriteInput(w) \/ WriteReturns(w) \/ Disconnect(w)
               \/ ShellExits(w)
        PROVE  TypeInv'
    <2>0. term[w].pc # "free" => \A point \in {"check", "wait", "writing"} :
                                    [term EXCEPT ![w].pc = point] \in [Term -> TermFrame]
      BY DEF TypeOK, ServerTypeOK, TermFrame, Free
    <2>1. term' \in [Term -> TermFrame]
      <3>1. CASE ShellExits(w)
        <4>0. term[w] \in TermFrame /\ term[w] # Free
          BY <3>1 DEF ShellExits, Free, TypeOK, ServerTypeOK
        <4>1. [term[w] EXCEPT !.listed = FALSE] \in TermFrame /\ Free \in TermFrame
          BY <4>0 DEF TermFrame
        <4>2. Settled([term[w] EXCEPT !.listed = FALSE]) \in TermFrame
          BY <4>1 DEF Settled
        <4>3. term' = [term EXCEPT ![w] = Settled([term[w] EXCEPT !.listed = FALSE])]
          BY <3>1 DEF ShellExits, TypeOK, ServerTypeOK
        <4> QED
          BY <4>2, <4>3 DEF TypeOK, ServerTypeOK
      <3>2. CASE CheckUser(w) \/ WriteInput(w) \/ WriteReturns(w) \/ Disconnect(w)
        BY <2>0, <3>2, CloseType DEF CheckUser, WriteInput, WriteReturns, Disconnect
      <3> QED
        BY <1>2, <3>1, <3>2
    <2>2. UNCHANGED <<store, now, adminMu, req>>
      BY <1>2 DEF CheckUser, WriteInput, WriteReturns, Disconnect, ShellExits
    <2> QED
      BY <2>1, <2>2, SameRequests, SameStore DEF TypeOK, ServerTypeOK
  <1>3. CASE Tick
    BY <1>3, SameRequests, SameStore, SameRest DEF Tick, TypeOK, ServerTypeOK
  <1>4. CASE Crash
    <2>1. term' \in [Term -> TermFrame]
      BY <1>4 DEF Crash, Free, TermFrame
    <2> QED
      BY <1>4, <2>1, IdleOK, SameStore DEF Crash, TypeOK, ServerTypeOK
  <1> QED
    BY <1>1, <1>2, <1>3, <1>4 DEF Input

LEMMA NextType == TypeInv /\ [Next]_vars => TypeInv'
  <1>1. ASSUME TypeInv, UNCHANGED vars
        PROVE  TypeInv'
    BY <1>1 DEF TypeInv, TypeOK, StoreTypeOK, ServerTypeOK, vars
  <1> QED
    BY <1>1, ArriveType, ProceedType, EnvironmentType DEF Next

LEMMA InitType == Init => TypeInv
  <1> SUFFICES ASSUME Init PROVE TypeInv
    OBVIOUS
  <1>1. term \in [Term -> TermFrame]
    BY DEF Init, ServerInit, Free, TermFrame
  <1> QED
    BY <1>1, StoreInitType, IdleOK DEF Init, ServerInit, TypeInv, TypeOK, ServerTypeOK

\* Every bucket, lock, request and terminal always holds what the code can
\* hold there: in particular a handler that acts on an account has one, and
\* handleUpdateUser never puts back anything but a user record.
THEOREM TypeCorrect == Spec => []TypeOK
  <1>1. TypeInv => TypeOK
    BY DEF TypeInv
  <1> QED
    BY <1>1, InitType, NextType, PTL DEF Spec

-----------------------------------------------------------------------------
(* What a step of a request does to the requests and to adminMu *)

\* An update that is under way and goes on.
Continues(r) == ReadTarget(r) \/ SetRole(r) \/ SetEnabled(r)

\* A step that ends outside handleUpdateUser, and gives adminMu back if it
\* touches it.
Leaves(r) ==
    /\ req'[r].pc \notin Updating
    /\ UNCHANGED adminMu \/ (adminMu = r /\ adminMu' = None)

OthersStay(r) == \A q \in Request \ {r} : req'[q] = req[q]

LEMMA StepLocal ==
    ASSUME TypeInv, NEW r \in Request, NEW frame, Step(r, frame)
    PROVE  OthersStay(r) /\ req'[r] = frame
  BY DEF TypeInv, TypeOK, ServerTypeOK, Step, OthersStay

LEMMA ReturnLeaves ==
    ASSUME TypeInv, NEW r \in Request, Return(r)
    PROVE  OthersStay(r) /\ Leaves(r)
  BY StepLocal DEF Return, Leaves, Idle, Updating

LEMMA ArriveLeaves ==
    ASSUME TypeInv, NEW r \in Request, Arrive(r)
    PROVE  OthersStay(r) /\ Leaves(r)
  <1> USE DEF OthersStay, Leaves, Step, Idle, Updating, TypeInv, TypeOK, ServerTypeOK
  <1>1. CASE handleBootstrap(r)
    BY <1>1 DEF handleBootstrap
  <1>2. CASE handleRegister(r)
    BY <1>2 DEF handleRegister
  <1>3. CASE LoginLookup(r)
    BY <1>3 DEF LoginLookup
  <1>4. CASE handlePasswordReset(r)
    BY <1>4 DEF handlePasswordReset
  <1>5. CASE Authenticate(r)
    BY <1>5 DEF Authenticate
  <1> QED
    BY <1>1, <1>2, <1>3, <1>4, <1>5 DEF Arrive

\* The steps with which a request goes on outside handleUpdateUser.
LEMMA WorkLeaves ==
    ASSUME TypeInv, NEW r \in Request,
           \/ LoginSucceeds(r) \/ handleRevokeUser(r) \/ UpdateUserStart(r)
           \/ ReadUser(r) \/ RevokeSessions(r) \/ Snapshot(r) \/ TakeNext(r) \/ CloseNext(r)
    PROVE  OthersStay(r) /\ Leaves(r)
  <1> USE DEF OthersStay, Leaves, Step, Idle, Updating, TypeInv, TypeOK, ServerTypeOK, Frame
  <1>1. CASE LoginSucceeds(r)
    BY <1>1 DEF LoginSucceeds
  <1>2. CASE handleRevokeUser(r)
    BY <1>2 DEF handleRevokeUser
  <1>3. CASE UpdateUserStart(r)
    BY <1>3 DEF UpdateUserStart
  <1>4. CASE ReadUser(r)
    BY <1>4 DEF ReadUser
  <1>5. CASE RevokeSessions(r)
    BY <1>5 DEF RevokeSessions
  <1>6. CASE Snapshot(r)
    BY <1>6 DEF Snapshot
  <1>7. CASE CloseNext(r)
    BY <1>7 DEF CloseNext
  <1>8. CASE TakeNext(r)
    BY <1>8 DEF TakeNext
  <1> QED
    BY <1>1, <1>2, <1>3, <1>4, <1>5, <1>6, <1>7, <1>8

LEMMA ProceedLeaves ==
    ASSUME TypeInv, NEW r \in Request, Proceed(r), ~Continues(r)
    PROVE  OthersStay(r) /\ Leaves(r)
  <1>1. CASE \/ LoginFails(r) \/ LoginLocked(r) \/ createSession(r) \/ DropSession(r)
             \/ Answer(r) \/ handleLogout(r) \/ handleTerminal(r) \/ handleCreateInvite(r)
             \/ handleDeleteInvite(r) \/ handleResetUser(r) \/ RefuseUpdate(r)
             \/ CloseDone(r) \/ StoreError(r)
    BY <1>1, ReturnLeaves
       DEF LoginFails, LoginLocked, createSession, DropSession, Answer, handleLogout,
           handleTerminal, handleCreateInvite, handleDeleteInvite, handleResetUser,
           RefuseUpdate, CloseDone, StoreError
  <1>2. CASE PutUser(r)
    <2>1. CASE req[r].copy.enabled
      BY <1>2, <2>1, ReturnLeaves DEF PutUser
    <2>2. CASE ~req[r].copy.enabled
      BY <1>2, <2>2 DEF PutUser, OthersStay, Leaves, Step, Idle, Updating,
                        TypeInv, TypeOK, ServerTypeOK
    <2> QED
      BY <2>1, <2>2
  <1> QED
    BY <1>1, <1>2, WorkLeaves DEF Proceed, Update, Continues

LEMMA ContinuesLocal ==
    ASSUME TypeInv, NEW r \in Request, Continues(r)
    PROVE  OthersStay(r) /\ UNCHANGED <<store, adminMu>> /\ req[r].pc \in Updating
  BY StepLocal DEF Continues, ReadTarget, SetRole, SetEnabled, At, Updating

LEMMA LockLocal ==
    ASSUME TypeInv, NEW r \in Request, LockAdminMu(r)
    PROVE  OthersStay(r) /\ adminMu = None /\ adminMu' = r /\ req'[r].pc = "read"
  <1>1. req[r] \in Frame
    BY DEF TypeInv, TypeOK, ServerTypeOK
  <1> QED
    BY <1>1, StepLocal DEF LockAdminMu, Frame

\* What is not a step of a request leaves the requests alone or, at a
\* restart, ends them all.
LEMMA EnvironmentLocal ==
    ASSUME \/ \E w \in Term : Input(w) \/ Disconnect(w) \/ ShellExits(w)
           \/ Tick \/ Crash
    PROVE  \/ UNCHANGED <<req, adminMu>>
           \/ req' = [r \in Request |-> Idle] /\ adminMu' = None
  BY DEF Input, CheckUser, CheckSession, WriteInput, WriteReturns, Disconnect, ShellExits,
         Tick, Crash

-----------------------------------------------------------------------------
(* adminMu *)

LEMMA MutexStep == TypeInv /\ HoldsAdminMu /\ [Next]_vars => HoldsAdminMu'
  <1> SUFFICES ASSUME TypeInv, HoldsAdminMu, [Next]_vars,
                      NEW q \in Request, req'[q].pc \in Updating
               PROVE  adminMu' = q
    BY DEF HoldsAdminMu
  <1>1. ASSUME NEW r \in Request, Leaves(r), OthersStay(r)
        PROVE  adminMu' = q
    <2>1. q # r /\ req'[q] = req[q]
      BY <1>1 DEF Leaves, OthersStay
    <2> QED
      BY <1>1, <2>1 DEF Leaves, HoldsAdminMu
  <1>2. ASSUME NEW r \in Request, Continues(r)
        PROVE  adminMu' = q
    BY <1>2, ContinuesLocal DEF OthersStay, HoldsAdminMu
  <1>3. ASSUME NEW r \in Request, LockAdminMu(r)
        PROVE  adminMu' = q
    <2>1. CASE q = r
      BY <1>3, <2>1, LockLocal
    <2>2. CASE q # r
      <3>1. adminMu = q
        BY <1>3, <2>2, LockLocal DEF OthersStay, HoldsAdminMu
      <3> QED
        BY <1>3, <3>1, LockLocal, ServerAssumption
    <2> QED
      BY <2>1, <2>2
  <1>4. ASSUME NEW r \in Request, Arrive(r) \/ Proceed(r) \/ LockAdminMu(r)
        PROVE  adminMu' = q
    BY <1>1, <1>2, <1>3, <1>4, ArriveLeaves, ProceedLeaves
  <1>5. CASE UNCHANGED <<req, adminMu>>
    BY <1>5 DEF HoldsAdminMu
  <1>6. ~(req' = [r \in Request |-> Idle])
    BY DEF Idle, Updating
  <1> QED
    BY <1>4, <1>5, <1>6, EnvironmentLocal DEF Next, vars

-----------------------------------------------------------------------------
(* What a step does to the accounts *)

\* An existing account keeps its name, its role and whether it is enabled.
Kept(u) ==
    users[u] # None =>
        /\ users'[u] # None /\ users'[u].name = users[u].name
        /\ users'[u].role = users[u].role /\ users'[u].enabled = users[u].enabled

RightsKept == \A u \in UserId : Kept(u) /\ (users[u] = None => users'[u] = None)

\* Changing other fields than these of one record keeps the rights.
LEMMA OneKept ==
    ASSUME StoreTypeOK, NEW id \in UserId, users[id] # None, users'[id] \in User,
           users'[id].role = users[id].role, users'[id].enabled = users[id].enabled,
           users'[id].name = users[id].name, \A u \in UserId \ {id} : users'[u] = users[u]
    PROVE  RightsKept
  BY MarksAssumption DEF RightsKept, Kept

LEMMA LoginRightsKept ==
    ASSUME StoreTypeOK, NEW id \in UserId, NEW t \in Nat,
           RecordLoginFailure(id, t) \/ ClearLoginFailures(id)
    PROVE  RightsKept /\ UNCHANGED invites
  <1>1. users[id] \in User /\ users'[id] \in User
    BY RecordLoginFailureType, ClearLoginFailuresType
       DEF RecordLoginFailure, ClearLoginFailures, StoreTypeOK
  <1>2. /\ users'[id].role = users[id].role /\ users'[id].enabled = users[id].enabled
        /\ users'[id].name = users[id].name
    BY <1>1 DEF RecordLoginFailure, ClearLoginFailures, StoreTypeOK, User
  <1>3. \A u \in UserId \ {id} : users'[u] = users[u]
    BY DEF RecordLoginFailure, ClearLoginFailures, StoreTypeOK
  <1>4. UNCHANGED invites /\ users[id] # None
    BY DEF RecordLoginFailure, ClearLoginFailures
  <1> QED
    BY <1>1, <1>2, <1>3, <1>4, OneKept

LEMMA ResetRightsKept ==
    ASSUME StoreTypeOK, NEW code \in ResetCode, NEW pw \in Password, NEW t,
           ConsumePasswordReset(code, pw, t)
    PROVE  RightsKept /\ UNCHANGED invites
  <1> DEFINE id == resets[code].user
  <1>1. id \in UserId /\ users[id] \in User /\ users'[id] \in User /\ users[id] # None
    BY ConsumePasswordResetType DEF ConsumePasswordReset, ResetUsable, StoreTypeOK
  <1>2. /\ users'[id].role = users[id].role /\ users'[id].enabled = users[id].enabled
        /\ users'[id].name = users[id].name
    BY <1>1 DEF ConsumePasswordReset, StoreTypeOK, User
  <1>3. \A u \in UserId \ {id} : users'[u] = users[u]
    BY DEF ConsumePasswordReset, StoreTypeOK
  <1>4. UNCHANGED invites
    BY DEF ConsumePasswordReset
  <1> QED
    BY <1>1, <1>2, <1>3, <1>4, OneKept

LEMMA SameRights == ASSUME UNCHANGED users PROVE RightsKept
  BY DEF RightsKept, Kept

\* What a request in flight does, save PutUser, keeps all rights.
LEMMA ProceedRights ==
    ASSUME TypeInv, NEW r \in Request, Proceed(r) \/ LockAdminMu(r), ~PutUser(r)
    PROVE  /\ RightsKept
           /\ UNCHANGED invites \/ handleCreateInvite(r) \/ handleDeleteInvite(r)
  <1>0. TypeInv => StoreTypeOK /\ FrameOK(req[r])
    BY DEF TypeInv, TypeOK
  <1>1. CASE LoginFails(r)
    <2>1. PICK t \in Sampled : RecordLoginFailure(req[r].target, t)
      BY <1>1 DEF LoginFails
    <2>2. req[r].target \in UserId
      BY <1>0, <1>1 DEF LoginFails, At, FrameOK, WithTarget
    <2> QED
      BY <1>0, <2>1, <2>2, SampledNat, LoginRightsKept
  <1>2. CASE LoginSucceeds(r)
    <2>1. req[r].target \in UserId
      BY <1>0, <1>2 DEF LoginSucceeds, At, FrameOK, WithTarget
    <2>2. ClearLoginFailures(req[r].target)
      BY <1>2 DEF LoginSucceeds
    <2> QED
      BY <1>0, <2>1, <2>2, LoginRightsKept
  <1>3. CASE handleCreateInvite(r) \/ handleDeleteInvite(r)
    BY <1>3, SameRights DEF handleCreateInvite, handleDeleteInvite, CreateInvite, DeleteInvite
  <1>4. CASE \/ createSession(r) \/ DropSession(r) \/ handleLogout(r) \/ handleResetUser(r)
             \/ RevokeSessions(r)
    BY <1>4, SameRights
       DEF createSession, DropSession, handleLogout, handleResetUser, RevokeSessions,
           CreateSession, RevokeSession, CreatePasswordReset, RevokeUserSessions
  <1>5. CASE \/ LoginLocked(r) \/ Answer(r) \/ handleTerminal(r) \/ RefuseUpdate(r)
             \/ CloseDone(r) \/ StoreError(r) \/ handleRevokeUser(r) \/ UpdateUserStart(r)
             \/ ReadUser(r) \/ Snapshot(r) \/ TakeNext(r) \/ CloseNext(r)
             \/ LockAdminMu(r) \/ Continues(r)
    <2>1. UNCHANGED store
      BY <1>5 DEF LoginLocked, Answer, handleTerminal, RefuseUpdate, CloseDone, StoreError,
                  handleRevokeUser, UpdateUserStart, ReadUser, Snapshot, TakeNext,
                  CloseNext, LockAdminMu, Continues, ReadTarget, SetRole, SetEnabled
    <2> QED
      BY <2>1, SameRights DEF store
  <1> QED
    BY <1>1, <1>2, <1>3, <1>4, <1>5 DEF Proceed, Update, Continues

LEMMA EnvironmentRights ==
    ASSUME \/ \E w \in Term : Input(w) \/ Disconnect(w) \/ ShellExits(w)
           \/ Tick \/ Crash
    PROVE  RightsKept /\ UNCHANGED invites
  <1>1. UNCHANGED <<users, invites>>
    BY DEF Input, CheckUser, CheckSession, WriteInput, WriteReturns, Disconnect, ShellExits,
           Tick, Crash, GetSession, store
  <1> QED
    BY <1>1, SameRights

LEMMA ArriveRights ==
    ASSUME TypeInv, NEW r \in Request,
           LoginLookup(r) \/ handlePasswordReset(r) \/ Authenticate(r)
    PROVE  RightsKept /\ UNCHANGED invites
  <1>1. CASE LoginLookup(r)
    BY <1>1, SameRights DEF LoginLookup, store
  <1>2. CASE handlePasswordReset(r)
    BY <1>2, ResetRightsKept DEF handlePasswordReset, TypeInv, TypeOK
  <1>3. CASE Authenticate(r)
    BY <1>3, SameRights DEF Authenticate, GetSession
  <1> QED
    BY <1>1, <1>2, <1>3

\* A creation adds one account, in an unused id, and keeps the others.
LEMMA CreationRights ==
    ASSUME TypeInv, NEW r \in Request, handleBootstrap(r) \/ handleRegister(r)
    PROVE  \A u \in UserId : Kept(u)
  <1>1. PICK id \in UserId, user \in User : PutNewUser(id, user)
    <2>1. CASE handleBootstrap(r)
      BY <2>1, NewUserType DEF handleBootstrap, CreateFirstUser, Role
    <2>2. CASE handleRegister(r)
      BY <2>2, NewUserType DEF handleRegister, CreateInvitedUser, Role
    <2> QED
      BY <2>1, <2>2
  <1> QED
    BY <1>1 DEF PutNewUser, Kept, TypeInv, TypeOK, StoreTypeOK

\* No step but PutUser takes a right away.
LEMMA OnlyPutUser ==
    ASSUME TypeInv, [Next]_vars, \A r \in Request : ~PutUser(r)
    PROVE  \A u \in UserId : Kept(u)
  <1>1. CASE UNCHANGED vars
    BY <1>1, SameRights DEF vars, RightsKept
  <1>2. CASE \E r \in Request : Arrive(r)
    BY <1>2, ArriveRights, CreationRights DEF Arrive, RightsKept
  <1>3. CASE \E r \in Request : Proceed(r) \/ LockAdminMu(r)
    BY <1>3, ProceedRights DEF RightsKept
  <1> QED
    BY <1>1, <1>2, <1>3, EnvironmentRights DEF Next, RightsKept

-----------------------------------------------------------------------------
(* Copies that may be put back *)

Safe == \A r \in Request : SafeToPut(r)

\* A copy stays safe while nobody else puts one.
LEMMA SafeStays ==
    ASSUME TypeInv, NEW q \in Request, SafeToPut(q), req'[q] = req[q],
           \A u \in UserId : Kept(u)
    PROVE  SafeToPut(q)'
  <1> SUFFICES ASSUME req[q].pc \in WithCopy
               PROVE  /\ users'[req[q].target] # None
                      /\ EnabledAdmin(users'[req[q].target]) =>
                            EnabledAdmin(req[q].copy) \/ ~lastEnabledAdmin(req[q].target)'
    BY DEF SafeToPut
  <1> DEFINE u == req[q].target
  <1>1. u \in UserId
    BY DEF TypeInv, FrameOK, WithTarget
  <1>2. users[u] # None /\ (EnabledAdmin(users[u]) => EnabledAdmin(req[q].copy) \/ ~lastEnabledAdmin(u))
    BY DEF SafeToPut
  <1>3. ~lastEnabledAdmin(u) => ~lastEnabledAdmin(u)'
    BY DEF lastEnabledAdmin, EnabledAdmin, Kept
  <1>4. users'[u] # None /\ (EnabledAdmin(users'[u]) => EnabledAdmin(users[u]))
    BY <1>1, <1>2 DEF EnabledAdmin, Kept
  <1> QED
    BY <1>2, <1>3, <1>4

\* handleUpdateUser reads a copy that is the record, and then changes it only
\* after its guards have found another enabled administrator.
LEMMA SafeContinues ==
    ASSUME TypeInv, NEW q \in Request, SafeToPut(q), Continues(q)
    PROVE  SafeToPut(q)'
  <1>0. req[q] \in Frame /\ FrameOK(req[q]) /\ UNCHANGED users
    BY ContinuesLocal DEF TypeInv, TypeOK, ServerTypeOK, store
  <1>1. CASE ReadTarget(q)
    <2>1. PICK u \in UserId :
            /\ users[u] # None
            /\ req'[q] = [req[q] EXCEPT !.pc = "role", !.target = u, !.copy = users[u]]
      BY <1>1, StepLocal DEF ReadTarget
    <2>2. req'[q].target = u /\ req'[q].copy = users[u]
      BY <1>0, <2>1 DEF Frame
    <2> QED
      BY <1>0, <2>1, <2>2 DEF SafeToPut
  <1>2. CASE SetRole(q)
    <2>0. At(q, "role") /\ req[q].copy \in User
      BY <1>0, <1>2 DEF SetRole, At, FrameOK, WithCopy
    <2>1. PICK role \in Role \cup {None} :
            /\ role # None => MayChangeRole(q, role)
            /\ req'[q] = [req[q] EXCEPT !.pc = "enabled",
                                        !.copy.role = IF role = None THEN @ ELSE role]
      BY <1>2, StepLocal DEF SetRole
    <2>2. /\ req'[q].target = req[q].target
          /\ req'[q].copy.enabled = req[q].copy.enabled
          /\ req'[q].copy.role = IF role = None THEN req[q].copy.role ELSE role
          /\ req'[q].copy \in User
      BY <1>0, <2>0, <2>1 DEF Frame, User
    <2>3. \/ ~lastEnabledAdmin(req[q].target)
          \/ EnabledAdmin(req[q].copy) => EnabledAdmin(req'[q].copy)
      BY <2>0, <2>1, <2>2, MarksAssumption DEF MayChangeRole, EnabledAdmin, Role, User
    <2>4. lastEnabledAdmin(req[q].target)' <=> lastEnabledAdmin(req[q].target)
      BY <1>0, <2>2 DEF lastEnabledAdmin
    <2> QED
      BY <1>0, <2>0, <2>2, <2>3, <2>4 DEF SafeToPut, At, WithCopy
  <1>3. CASE SetEnabled(q)
    <2>0. At(q, "enabled") /\ req[q].copy \in User
      BY <1>0, <1>3 DEF SetEnabled, At, FrameOK, WithCopy
    <2>1. PICK enabled \in BOOLEAN \cup {None} :
            /\ enabled = FALSE => MayDisable(q)
            /\ req'[q] = [req[q] EXCEPT !.pc = "put",
                                        !.copy.enabled = IF enabled = None THEN @ ELSE enabled]
      BY <1>3, StepLocal DEF SetEnabled
    <2>2. /\ req'[q].target = req[q].target
          /\ req'[q].copy.enabled = IF enabled = None THEN req[q].copy.enabled ELSE enabled
          /\ req'[q].copy.role = req[q].copy.role
          /\ req'[q].copy \in User
      BY <1>0, <2>0, <2>1 DEF Frame, User
    <2>3. \/ ~lastEnabledAdmin(req[q].target)
          \/ EnabledAdmin(req[q].copy) => EnabledAdmin(req'[q].copy)
      BY <2>0, <2>1, <2>2, MarksAssumption DEF MayDisable, EnabledAdmin, User
    <2>4. lastEnabledAdmin(req[q].target)' <=> lastEnabledAdmin(req[q].target)
      BY <1>0, <2>2 DEF lastEnabledAdmin
    <2> QED
      BY <1>0, <2>0, <2>2, <2>3, <2>4 DEF SafeToPut, At, WithCopy
  <1> QED
    BY <1>1, <1>2, <1>3 DEF Continues

\* Outside handleUpdateUser there is no copy to put back.
LEMMA SafeOutside ==
    ASSUME NEW q \in Request, req'[q].pc \notin Updating
    PROVE  SafeToPut(q)'
  BY DEF SafeToPut, Updating, WithCopy

LEMMA SafeStep ==
    TypeInv /\ HoldsAdminMu /\ Safe /\ [Next]_vars => Safe'
  <1> SUFFICES ASSUME TypeInv, HoldsAdminMu, Safe, [Next]_vars, NEW q \in Request
               PROVE  SafeToPut(q)'
    BY DEF Safe
  <1>0. SafeToPut(q)
    BY DEF Safe
  <1>1. CASE Continues(q)
    BY <1>0, <1>1, SafeContinues
  <1>2. CASE req'[q].pc \notin Updating
    BY <1>2, SafeOutside
  <1>3. CASE req'[q].pc \in Updating /\ ~Continues(q) /\ req'[q] # req[q]
    <2>1. ~UNCHANGED vars
      BY <1>3 DEF vars
    <2>2. PICK r \in Request : Arrive(r) \/ Proceed(r) \/ LockAdminMu(r)
      BY <1>3, <2>1, EnvironmentLocal DEF Next, Idle, Updating
    <2>3. OthersStay(r)
      BY <2>2, ArriveLeaves, ProceedLeaves, ContinuesLocal, LockLocal
    <2>4. q = r
      BY <1>3, <2>3 DEF OthersStay
    <2>5. LockAdminMu(q)
      BY <1>3, <2>2, <2>4, ArriveLeaves, ProceedLeaves DEF Leaves
    <2> QED
      BY <2>5, LockLocal DEF SafeToPut, WithCopy
  <1>4. CASE req'[q].pc \in Updating /\ req'[q] = req[q]
    <2>1. \A r \in Request : ~PutUser(r)
      <3> SUFFICES ASSUME NEW r \in Request, PutUser(r)
                   PROVE  FALSE
        OBVIOUS
      <3>1. adminMu = r /\ adminMu = q
        BY <1>4 DEF PutUser, At, Updating, HoldsAdminMu
      <3>2. Leaves(r)
        BY ProceedLeaves DEF Proceed, Update, PutUser, Continues, ReadTarget, SetRole,
                             SetEnabled, At
      <3> QED
        BY <1>4, <3>1, <3>2 DEF Leaves
    <2> QED
      BY <1>0, <1>4, <2>1, OnlyPutUser, SafeStays
  <1> QED
    BY <1>1, <1>2, <1>3, <1>4

-----------------------------------------------------------------------------
(* The index of the names *)

\* The copy that handleUpdateUser puts back has the account's own name.
OwnName(r) ==
    req[r].pc \in WithCopy =>
        /\ users[req[r].target] # None
        /\ req[r].copy.name = users[req[r].target].name

IndexInv == NamesIndex /\ \A r \in Request : OwnName(r)

SameName(u) ==
    users[u] # None => users'[u] # None /\ users'[u].name = users[u].name

\* No account is ever renamed.
LEMMA NamesStay ==
    ASSUME TypeInv, IndexInv, [Next]_vars
    PROVE  \A u \in UserId : SameName(u)
  <1>1. CASE \A r \in Request : ~PutUser(r)
    BY <1>1, OnlyPutUser DEF Kept, SameName
  <1>2. ASSUME NEW r \in Request, PutUser(r), NEW u \in UserId
        PROVE  SameName(u)
    <2>1. /\ req[r].target \in UserId /\ req[r].copy \in User
          /\ users' = [users EXCEPT ![req[r].target] = req[r].copy]
          /\ users \in [UserId -> User \cup {None}]
      BY <1>2 DEF PutUser, UpdateUser, TypeInv, TypeOK, StoreTypeOK, FrameOK,
                  WithTarget, WithCopy, At
    <2>2. req[r].copy.name = users[req[r].target].name
      BY <1>2 DEF IndexInv, OwnName, PutUser, At, WithCopy
    <2> QED
      BY <2>1, <2>2, MarksAssumption DEF SameName
  <1> QED
    BY <1>1, <1>2

LEMMA OwnNameContinues ==
    ASSUME TypeInv, NEW q \in Request, OwnName(q), Continues(q)
    PROVE  OwnName(q)'
  <1>0. req[q] \in Frame /\ FrameOK(req[q]) /\ UNCHANGED users
    BY ContinuesLocal DEF TypeInv, TypeOK, ServerTypeOK, store
  <1>1. CASE ReadTarget(q)
    <2>1. PICK u \in UserId :
            /\ users[u] # None
            /\ req'[q] = [req[q] EXCEPT !.pc = "role", !.target = u, !.copy = users[u]]
      BY <1>1, StepLocal DEF ReadTarget
    <2>2. req'[q].target = u /\ req'[q].copy = users[u]
      BY <1>0, <2>1 DEF Frame
    <2> QED
      BY <1>0, <2>1, <2>2 DEF OwnName
  <1>2. CASE SetRole(q)
    <2>1. PICK role \in Role \cup {None} :
            req'[q] = [req[q] EXCEPT !.pc = "enabled",
                                     !.copy.role = IF role = None THEN @ ELSE role]
      BY <1>2, StepLocal DEF SetRole
    <2>2. req[q].pc \in WithCopy /\ req[q].copy \in User
      BY <1>0, <1>2 DEF SetRole, At, FrameOK, WithCopy
    <2>3. req'[q].target = req[q].target /\ req'[q].copy.name = req[q].copy.name
      BY <1>0, <2>1, <2>2 DEF Frame, User
    <2> QED
      BY <1>0, <2>2, <2>3 DEF OwnName
  <1>3. CASE SetEnabled(q)
    <2>1. PICK enabled \in BOOLEAN \cup {None} :
            req'[q] = [req[q] EXCEPT !.pc = "put",
                                     !.copy.enabled = IF enabled = None THEN @ ELSE enabled]
      BY <1>3, StepLocal DEF SetEnabled
    <2>2. req[q].pc \in WithCopy /\ req[q].copy \in User
      BY <1>0, <1>3 DEF SetEnabled, At, FrameOK, WithCopy
    <2>3. req'[q].target = req[q].target /\ req'[q].copy.name = req[q].copy.name
      BY <1>0, <2>1, <2>2 DEF Frame, User
    <2> QED
      BY <1>0, <2>2, <2>3 DEF OwnName
  <1> QED
    BY <1>1, <1>2, <1>3 DEF Continues

\* A request that goes on neither in handleUpdateUser nor where it was has no
\* copy to put back.
LEMMA OwnNameStep ==
    ASSUME TypeInv, IndexInv, [Next]_vars, NEW q \in Request
    PROVE  OwnName(q)'
  <1>0. OwnName(q)
    BY DEF IndexInv
  <1>1. CASE Continues(q)
    BY <1>0, <1>1, OwnNameContinues
  <1>2. CASE req'[q] = req[q]
    <2>1. req[q].pc \in WithCopy => req[q].target \in UserId
      BY DEF TypeInv, FrameOK, WithTarget
    <2> QED
      BY <1>0, <1>2, <2>1, NamesStay DEF OwnName, SameName
  <1>3. CASE ~Continues(q) /\ req'[q] # req[q]
    <2>1. req'[q].pc \notin WithCopy
      <3>1. CASE \E r \in Request : Arrive(r) \/ Proceed(r) \/ LockAdminMu(r)
        <4>1. PICK r \in Request : Arrive(r) \/ Proceed(r) \/ LockAdminMu(r)
          BY <3>1
        <4>2. q = r
          BY <1>3, <4>1, ArriveLeaves, ProceedLeaves, ContinuesLocal, LockLocal DEF OthersStay
        <4> QED
          BY <1>3, <4>1, <4>2, ArriveLeaves, ProceedLeaves, LockLocal
             DEF Leaves, Updating, WithCopy
      <3>2. CASE req' = [r \in Request |-> Idle]
        BY <3>2 DEF Idle, WithCopy
      <3> QED
        BY <1>3, <3>1, <3>2, EnvironmentLocal DEF Next, vars
    <2> QED
      BY <2>1 DEF OwnName
  <1> QED
    BY <1>1, <1>2, <1>3

\* Only a creation adds an account or writes the index.
LEMMA IndexWritten ==
    ASSUME TypeInv, IndexInv, [Next]_vars,
           \A r \in Request : ~handleBootstrap(r) /\ ~handleRegister(r)
    PROVE  UNCHANGED names /\ \A u \in UserId : users[u] = None => users'[u] = None
  <1>1. UNCHANGED names
    <2>1. ASSUME NEW r \in Request, Arrive(r) \/ Proceed(r) \/ LockAdminMu(r)
          PROVE  UNCHANGED names
      BY <2>1
         DEF Arrive, LoginLookup, handlePasswordReset, ConsumePasswordReset, Authenticate,
             GetSession, LockAdminMu, Proceed, LoginFails, RecordLoginFailure, LoginLocked,
             LoginSucceeds, ClearLoginFailures, createSession, CreateSession, ReadUser,
             DropSession, RevokeSession, Answer, handleLogout, handleTerminal,
             handleCreateInvite, CreateInvite, handleDeleteInvite, DeleteInvite,
             handleResetUser, CreatePasswordReset, handleRevokeUser, UpdateUserStart, Update,
             ReadTarget, SetRole, SetEnabled, RefuseUpdate, PutUser, UpdateUser,
             RevokeSessions, RevokeUserSessions, Snapshot, TakeNext, CloseNext, CloseDone,
             StoreError, store
    <2>2. ASSUME \/ \E w \in Term : Input(w) \/ Disconnect(w) \/ ShellExits(w)
                 \/ Tick \/ Crash
          PROVE  UNCHANGED names
      BY <2>2 DEF Input, CheckUser, CheckSession, WriteInput, WriteReturns, Disconnect,
                  ShellExits, Tick, Crash, GetSession, store
    <2> QED
      BY <2>1, <2>2 DEF Next, vars
  <1>2. CASE \E r \in Request : PutUser(r)
    <2>1. PICK r \in Request : PutUser(r)
      BY <1>2
    <2>2. users[req[r].target] # None
      BY <2>1 DEF IndexInv, OwnName, PutUser, At, WithCopy
    <2>3. users' = [users EXCEPT ![req[r].target] = req[r].copy]
      BY <2>1 DEF PutUser, UpdateUser
    <2> QED
      BY <1>1, <2>2, <2>3 DEF TypeInv, TypeOK, StoreTypeOK
  <1>3. CASE \A r \in Request : ~PutUser(r)
    <2>1. RightsKept
      BY <1>3, ProceedRights, ArriveRights, EnvironmentRights, SameRights DEF Next, Arrive, vars
    <2> QED
      BY <1>1, <2>1 DEF RightsKept
  <1> QED
    BY <1>2, <1>3

\* A creation takes an unused id and a name the index does not have.
LEMMA CreationIndexed ==
    ASSUME TypeInv, NamesIndex, NEW id \in UserId, NEW user \in User, PutNewUser(id, user)
    PROVE  NamesIndex'
  <1>1. /\ users \in [UserId -> User \cup {None}] /\ names \in [Name -> UserId \cup {None}]
        /\ user.name \in Name
    BY DEF TypeInv, TypeOK, StoreTypeOK, User
  <1>2. /\ users[id] = None /\ names[user.name] = None
        /\ users' = [users EXCEPT ![id] = user]
        /\ names' = [names EXCEPT ![user.name] = id]
    BY DEF PutNewUser
  <1>3. id # None /\ user # None
    BY MarksAssumption
  <1>4. ASSUME NEW u \in UserId, users'[u] # None
        PROVE  names'[users'[u].name] = u
    <2>1. CASE u = id
      BY <1>1, <1>2, <2>1
    <2>2. CASE u # id
      <3>1. users'[u] = users[u] /\ users[u].name \in Name /\ names[users[u].name] = u
        BY <1>1, <1>2, <1>4, <2>2 DEF NamesIndex, User
      <3> QED
        BY <1>1, <1>2, <3>1, MarksAssumption
    <2> QED
      BY <2>1, <2>2
  <1>5. ASSUME NEW n \in Name, names'[n] # None
        PROVE  users'[names'[n]] # None /\ users'[names'[n]].name = n
    <2>1. CASE n = user.name
      BY <1>1, <1>2, <1>3, <2>1
    <2>2. CASE n # user.name
      <3>1. names'[n] = names[n] /\ names[n] \in UserId
        BY <1>1, <1>2, <1>5, <2>2
      <3>2. users[names[n]] # None /\ users[names[n]].name = n
        BY <1>5, <3>1 DEF NamesIndex
      <3> QED
        BY <1>1, <1>2, <3>1, <3>2
    <2> QED
      BY <2>1, <2>2
  <1> QED
    BY <1>4, <1>5 DEF NamesIndex

LEMMA IndexStep ==
    ASSUME TypeInv, IndexInv, [Next]_vars
    PROVE  NamesIndex'
  <1>0. NamesIndex /\ names \in [Name -> UserId \cup {None}]
    BY DEF IndexInv, TypeInv, TypeOK, StoreTypeOK
  <1>1. ASSUME NEW r \in Request, handleBootstrap(r)
        PROVE  NamesIndex'
    BY <1>0, <1>1, CreationIndexed, NewUserType DEF handleBootstrap, CreateFirstUser, Role
  <1>2. ASSUME NEW r \in Request, handleRegister(r)
        PROVE  NamesIndex'
    BY <1>0, <1>2, CreationIndexed, NewUserType DEF handleRegister, CreateInvitedUser, Role
  <1>3. CASE \A r \in Request : ~handleBootstrap(r) /\ ~handleRegister(r)
    BY <1>0, <1>3, IndexWritten, NamesStay DEF NamesIndex, SameName
  <1> QED
    BY <1>1, <1>2, <1>3

\* Index and records agree, for any number of accounts, requests and crashes:
\* no handler puts back a record under another name than it read, and the two
\* creations look the name up in the transaction that writes both.
THEOREM IndexAgrees == Spec => []NamesIndex
  <1>1. Init => TypeInv /\ IndexInv
    <2> SUFFICES ASSUME Init PROVE IndexInv
      BY InitType
    <2> QED
      BY DEF Init, StoreInit, ServerInit, IndexInv, NamesIndex, OwnName, Idle, WithCopy
  <1>2. TypeInv /\ IndexInv /\ [Next]_vars => (TypeInv /\ IndexInv)'
    BY NextType, IndexStep, OwnNameStep DEF IndexInv
  <1>3. IndexInv => NamesIndex
    BY DEF IndexInv
  <1> QED
    BY <1>1, <1>2, <1>3, PTL DEF Spec

-----------------------------------------------------------------------------
(* The first account *)

LEMMA PutUserEffect ==
    ASSUME TypeInv, NEW r \in Request, PutUser(r)
    PROVE  /\ req[r].target \in UserId /\ req[r].copy \in User
           /\ users' = [users EXCEPT ![req[r].target] = req[r].copy]
           /\ UNCHANGED invites
  BY DEF PutUser, UpdateUser, TypeInv, FrameOK, WithTarget, WithCopy, At

LEMMA UsersStay == ASSUME TypeInv, [Next]_vars, HasUsers PROVE HasUsers'
  <1>1. CASE \A r \in Request : ~PutUser(r)
    BY <1>1, OnlyPutUser DEF HasUsers, Kept
  <1>2. ASSUME NEW r \in Request, PutUser(r)
        PROVE  HasUsers'
    BY <1>2, PutUserEffect, MarksAssumption DEF HasUsers, TypeInv, TypeOK, StoreTypeOK
  <1> QED
    BY <1>1, <1>2

LEMMA FreeTerm ==
    TypeInv => \A w \in Term : term[w].pc = "free" => term[w] = Free /\ ~term[w].listed
  BY DEF TypeInv, TypeOK, ServerTypeOK, TermFrame, Free

\* In a system without accounts nothing can happen but the bootstrap.
LEMMA OnlyBootstrap ==
    ASSUME TypeInv, EmptyAtFirst, [Next]_vars, ~HasUsers
    PROVE  \/ UNCHANGED <<store, req, term>>
           \/ \E r \in Request : handleBootstrap(r)
  <1>0. /\ \A n \in Name : names[n] = None
        /\ \A t \in Token : sessions[t] = None
        /\ \A c \in InviteCode : invites[c] = None
        /\ \A c \in ResetCode : resets[c] = None
        /\ \A r \in Request : req[r].pc = "idle"
        /\ \A w \in Term : term[w].pc = "free"
    BY DEF EmptyAtFirst, At
  <1>1. ASSUME NEW r \in Request, Arrive(r)
        PROVE  handleBootstrap(r)
    BY <1>0, <1>1 DEF Arrive, handleRegister, CreateInvitedUser, InviteUsable, LoginLookup,
       handlePasswordReset, ConsumePasswordReset, ResetUsable, Authenticate, GetSession,
       SessionValid, IsSession
  <1>2. ASSUME NEW r \in Request
        PROVE  ~Proceed(r) /\ ~LockAdminMu(r)
    <2>1. req[r].pc = "idle"
      BY <1>0
    <2>2. ~StoreError(r)
      BY <2>1, ServerAssumption DEF StoreError
    <2> QED
      BY <2>1, <2>2 DEF Proceed, LockAdminMu, At, Authenticated, Admin, LoginFails, LoginLocked,
         LoginSucceeds, createSession, ReadUser, DropSession, Answer, handleLogout,
         handleTerminal, handleCreateInvite, handleDeleteInvite, handleResetUser,
         handleRevokeUser, UpdateUserStart, Update, ReadTarget, SetRole, SetEnabled,
         RefuseUpdate, PutUser, RevokeSessions, Snapshot, TakeNext, CloseNext, CloseDone
  <1>3. ASSUME NEW w \in Term
        PROVE  ~(Input(w) \/ Disconnect(w) \/ ShellExits(w))
    BY <1>0, FreeTerm DEF Input, CheckUser, CheckSession, WriteInput, WriteReturns, Disconnect, ShellExits
  <1>4. ~Crash
    BY <1>0 DEF Crash, At
  <1> QED
    BY <1>1, <1>2, <1>3, <1>4 DEF Next, Tick, vars, store

LEMMA EmptyStep == TypeInv /\ EmptyAtFirst /\ [Next]_vars => EmptyAtFirst'
  <1> SUFFICES ASSUME TypeInv, EmptyAtFirst, [Next]_vars
               PROVE  EmptyAtFirst'
    OBVIOUS
  <1>1. CASE HasUsers
    BY <1>1, UsersStay DEF EmptyAtFirst
  <1>2. CASE ~HasUsers
    <2>1. CASE UNCHANGED <<store, req, term>>
      BY <1>2, <2>1 DEF EmptyAtFirst, HasUsers, At, store
    <2>2. ASSUME NEW r \in Request, handleBootstrap(r)
          PROVE  HasUsers'
      <3>1. PICK id \in UserId, name \in Name, pw \in Password : CreateFirstUser(id, name, pw)
        BY <2>2 DEF handleBootstrap
      <3>2. users'[id] \in User
        BY <3>1, CreateFirstUserType DEF TypeInv, TypeOK
      <3> QED
        BY <3>2, MarksAssumption DEF HasUsers
    <2> QED
      BY <1>2, <2>1, <2>2, OnlyBootstrap DEF EmptyAtFirst
  <1> QED
    BY <1>1, <1>2

-----------------------------------------------------------------------------
(* The server implements the directory *)

\* Accounts are the same when rights are kept.
LEMMA SameAccounts ==
    ASSUME RightsKept
    PROVE  UNCHANGED Accounts
  BY DEF RightsKept, Kept, Accounts

LEMMA SameInvitations == ASSUME UNCHANGED invites PROVE UNCHANGED Invitations
  BY DEF Invitations, Spent

LEMMA AccountAt ==
    ASSUME TypeInv, NEW u \in UserId
    PROVE  /\ users[u] = None <=> Accounts[u] = None
           /\ users[u] # None =>
                 Accounts[u] = [role |-> users[u].role, enabled |-> users[u].enabled]
           /\ EnabledAdmin(users[u]) <=> Dir!InCharge(Accounts[u])
  <1>1. users[u] # None => users[u] \in User
    BY DEF TypeInv, TypeOK, StoreTypeOK
  <1>2. users[u] # None => [role |-> users[u].role, enabled |-> users[u].enabled] # None
    BY <1>1, ServerAssumption DEF User
  <1> QED
    BY <1>1, <1>2 DEF Accounts, EnabledAdmin, Dir!InCharge

LEMMA BootstrapFounds ==
    ASSUME TypeInv, NEW r \in Request, handleBootstrap(r)
    PROVE  \E u \in UserId : Dir!Found(u)
  <1>1. PICK id \in UserId, name \in Name, pw \in Password : CreateFirstUser(id, name, pw)
    BY DEF handleBootstrap
  <1>2. users' = [users EXCEPT ![id] = NewUser(name, pw, "admin")] /\ UNCHANGED invites
    BY <1>1 DEF CreateFirstUser, PutNewUser
  <1>3. NewUser(name, pw, "admin") # None
    BY NewUserType, MarksAssumption DEF Role
  <1>4. Accounts' = [Accounts EXCEPT ![id] = [role |-> "admin", enabled |-> TRUE]]
    BY <1>2, <1>3 DEF Accounts, NewUser, TypeInv, TypeOK, StoreTypeOK
  <1>5. \A v \in UserId : Accounts[v] = None
    BY <1>1 DEF CreateFirstUser, HasUsers, Accounts
  <1> QED
    BY <1>2, <1>4, <1>5, SameInvitations DEF Dir!Found

LEMMA RegisterJoins ==
    ASSUME TypeInv, NEW r \in Request, handleRegister(r)
    PROVE  \E u \in UserId, c \in InviteCode : Dir!Join(u, c)
  <1>1. PICK code \in InviteCode, id \in UserId, name \in Name, pw \in Password, t \in Sampled :
          CreateInvitedUser(code, id, name, pw, t)
    BY DEF handleRegister
  <1>2. /\ users' = [users EXCEPT ![id] = NewUser(name, pw, "user")]
        /\ users[id] = None
        /\ invites' = [invites EXCEPT ![code].usedBy = id]
        /\ invites[code] \in Invite /\ invites[code].usedBy = None
    BY <1>1 DEF CreateInvitedUser, InviteUsable, PutNewUser, NewUser, TypeInv, TypeOK, StoreTypeOK
  <1>3. NewUser(name, pw, "user") # None
    BY NewUserType, MarksAssumption DEF Role
  <1>4. Accounts' = [Accounts EXCEPT ![id] = [role |-> "user", enabled |-> TRUE]]
    BY <1>2, <1>3 DEF Accounts, NewUser, TypeInv, TypeOK, StoreTypeOK
  <1>5. /\ [invites[code] EXCEPT !.usedBy = id] \in Invite
        /\ [invites[code] EXCEPT !.usedBy = id].usedBy = id
    BY <1>2 DEF Invite
  <1>6. Invitations' = [Invitations EXCEPT ![code] = "spent"]
    BY <1>2, <1>5, MarksAssumption DEF Invitations, Spent, TypeInv, TypeOK, StoreTypeOK
  <1>7. Accounts[id] = None /\ Invitations[code] = "open"
    BY <1>2, MarksAssumption DEF Accounts, Invitations, Spent
  <1> QED
    BY <1>4, <1>6, <1>7 DEF Dir!Join

LEMMA PutUserChanges ==
    ASSUME TypeInv, Safe, AdminExists, NEW r \in Request, PutUser(r)
    PROVE  \E u \in UserId, account \in Dir!Account : Dir!Change(u, account)
  <1> DEFINE id == req[r].target
             copy == req[r].copy
             account == [role |-> copy.role, enabled |-> copy.enabled]
  <1>1. /\ id \in UserId /\ copy \in User /\ copy # None /\ users[id] # None
        /\ EnabledAdmin(users[id]) => EnabledAdmin(copy) \/ ~lastEnabledAdmin(id)
    BY PutUserEffect, MarksAssumption DEF Safe, SafeToPut, PutUser, At, WithCopy
  <1>2. users' = [users EXCEPT ![id] = copy] /\ UNCHANGED invites
    BY PutUserEffect
  <1>3. Accounts' = [Accounts EXCEPT ![id] = account]
    BY <1>1, <1>2 DEF Accounts, TypeInv, TypeOK, StoreTypeOK
  <1>4. account \in Dir!Account
    BY <1>1 DEF Dir!Account, User, Role
  <1>5. \E v \in UserId : Dir!InCharge(Accounts'[v])
    <2>1. CASE EnabledAdmin(copy)
      <3>1. Accounts'[id] = account /\ account # None
        BY <1>1, <1>3, <1>4, ServerAssumption DEF Dir!Account, Accounts, Role
      <3> QED
        BY <1>1, <2>1, <3>1 DEF EnabledAdmin, Dir!InCharge
    <2>2. CASE ~EnabledAdmin(copy)
      <3>1. PICK v \in UserId : v # id /\ EnabledAdmin(users[v])
        BY <1>1, <2>2 DEF AdminExists, HasUsers, lastEnabledAdmin
      <3>2. Accounts'[v] = Accounts[v]
        BY <1>3, <3>1 DEF Accounts
      <3> QED
        BY <3>1, <3>2, AccountAt
    <2> QED
      BY <2>1, <2>2
  <1>6. Accounts[id] # None
    BY <1>1, AccountAt
  <1>7. Dir!Change(id, account)
    BY <1>2, <1>3, <1>5, <1>6, SameInvitations DEF Dir!Change
  <1> QED
    BY <1>1, <1>4, <1>7

LEMMA InviteIssues ==
    ASSUME TypeInv, NEW r \in Request, handleCreateInvite(r)
    PROVE  \E c \in InviteCode : Dir!Invite(c)
  <1>1. PICK code \in InviteCode, expires \in Nat : CreateInvite(code, expires)
    <2>1. PICK code \in InviteCode, t \in Sampled, life \in InviteLife :
            CreateInvite(code, t + life)
      BY DEF handleCreateInvite
    <2>2. t + life \in Nat
      BY DurationAssumption, SampleLater
    <2> QED
      BY <2>1, <2>2
  <1>2. [expires |-> expires, usedBy |-> None] \in Invite
    BY <1>1 DEF Invite
  <1>3. Invitations' = [Invitations EXCEPT ![code] = "open"]
    BY <1>1, <1>2, MarksAssumption
       DEF CreateInvite, Invitations, Spent, TypeInv, TypeOK, StoreTypeOK
  <1>4. Invitations[code] = "new"
    BY <1>1 DEF CreateInvite, Invitations
  <1>5. UNCHANGED Accounts
    BY <1>1, SameRights, SameAccounts DEF CreateInvite
  <1> QED
    BY <1>3, <1>4, <1>5 DEF Dir!Invite

LEMMA DeleteWithdraws ==
    ASSUME TypeInv, NEW r \in Request, handleDeleteInvite(r)
    PROVE  \/ \E c \in InviteCode : Dir!Withdraw(c)
           \/ UNCHANGED <<Accounts, Invitations>>
  <1>1. PICK code \in InviteCode : DeleteInvite(code)
    BY DEF handleDeleteInvite
  <1>2. UNCHANGED Accounts
    BY <1>1, SameRights, SameAccounts DEF DeleteInvite
  <1>3. Invitations' = [Invitations EXCEPT ![code] = "spent"]
    BY <1>1, MarksAssumption
       DEF DeleteInvite, Invitations, Spent, TypeInv, TypeOK, StoreTypeOK
  <1>4. Invitations[code] \in {"open", "spent"}
    BY <1>1 DEF DeleteInvite, Invitations
  <1>5. Invitations[code] = "spent" => UNCHANGED Invitations
    BY <1>3 DEF Invitations
  <1> QED
    BY <1>2, <1>3, <1>4, <1>5 DEF Dir!Withdraw

\* Every step of the server is a step of the directory or changes nothing in it.
LEMMA Simulation ==
    ASSUME TypeInv, Safe, AdminExists, [Next]_vars
    PROVE  [Dir!Next]_<<Accounts, Invitations>>
  <1>1. ASSUME RightsKept, UNCHANGED invites
        PROVE  UNCHANGED <<Accounts, Invitations>>
    BY <1>1, SameAccounts, SameInvitations
  <1>2. ASSUME NEW r \in Request, Arrive(r)
        PROVE  [Dir!Next]_<<Accounts, Invitations>>
    BY <1>1, <1>2, BootstrapFounds, RegisterJoins, ArriveRights DEF Arrive, Dir!Next
  <1>3. ASSUME NEW r \in Request, Proceed(r) \/ LockAdminMu(r)
        PROVE  [Dir!Next]_<<Accounts, Invitations>>
    BY <1>1, <1>3, PutUserChanges, InviteIssues, DeleteWithdraws, ProceedRights DEF Dir!Next
  <1>4. CASE UNCHANGED vars
    BY <1>1, <1>4, SameRights DEF vars
  <1> QED
    BY <1>1, <1>2, <1>3, <1>4, EnvironmentRights DEF Next

LEMMA AdminStep ==
    ASSUME TypeInv, TypeInv', EmptyAtFirst, Safe, AdminExists, [Next]_vars
    PROVE  AdminExists'
  <1>1. CASE \E r \in Request : PutUser(r)
    <2>1. \E v \in UserId : Dir!InCharge(Accounts'[v])
      BY <1>1, PutUserChanges DEF Dir!Change
    <2>2. ASSUME NEW v \in UserId
          PROVE  Dir!InCharge(Accounts'[v]) => EnabledAdmin(users'[v])
      BY DEF Accounts, EnabledAdmin, Dir!InCharge
    <2> QED
      BY <2>1, <2>2 DEF AdminExists
  <1>2. CASE HasUsers /\ \A r \in Request : ~PutUser(r)
    BY <1>2, OnlyPutUser DEF AdminExists, EnabledAdmin, Kept
  <1>3. CASE ~HasUsers
    <2>1. ASSUME NEW r \in Request, handleBootstrap(r)
          PROVE  AdminExists'
      <3>1. PICK id \in UserId, name \in Name, pw \in Password : CreateFirstUser(id, name, pw)
        BY <2>1 DEF handleBootstrap
      <3>2. users'[id] = NewUser(name, pw, "admin") /\ users'[id] \in User
        BY <3>1, CreateFirstUserType
           DEF CreateFirstUser, PutNewUser, NewUser, TypeInv, TypeOK, StoreTypeOK
      <3> QED
        BY <3>2, MarksAssumption DEF AdminExists, EnabledAdmin, NewUser
    <2>2. CASE UNCHANGED <<store, req, term>>
      BY <1>3, <2>2 DEF AdminExists, HasUsers, store
    <2> QED
      BY <1>3, <2>1, <2>2, OnlyBootstrap
  <1> QED
    BY <1>1, <1>2, <1>3

-----------------------------------------------------------------------------
(* One invitation for each account: the directory keeps the count *)

Members == {u \in UserId : Accounts[u] # None}
SpentCodes == {c \in InviteCode : Invitations[c] = "spent"}

CountInv ==
    /\ IsFiniteSet(Members) /\ IsFiniteSet(SpentCodes)
    /\ Cardinality(Members) <= 1 + Cardinality(SpentCodes)

LEMMA CountUnchanged ==
    ASSUME CountInv, UNCHANGED <<Members, SpentCodes>>
    PROVE  CountInv'
  BY DEF CountInv

LEMMA FoundCounts ==
    ASSUME CountInv, NEW u \in UserId, Dir!Found(u)
    PROVE  CountInv'
  <1>1. Members' \in {{}, {} \cup {u}}
    BY DEF Dir!Found, Members, Accounts
  <1>2. UNCHANGED SpentCodes
    BY DEF Dir!Found, SpentCodes
  <1>3. /\ IsFiniteSet(Members') /\ Cardinality(Members') \in {0, 1}
    <2>1. IsFiniteSet({} \cup {u}) /\ Cardinality({} \cup {u}) = 0 + 1
      BY FS_EmptySet, FS_AddElement
    <2> QED
      BY <1>1, <2>1, FS_EmptySet
  <1>4. IsFiniteSet(SpentCodes) /\ Cardinality(SpentCodes) \in Nat
    BY FS_CardinalityType DEF CountInv
  <1> QED
    BY <1>2, <1>3, <1>4 DEF CountInv

LEMMA InviteCounts ==
    ASSUME CountInv, NEW c \in InviteCode, Dir!Invite(c)
    PROVE  CountInv'
  <1>1. UNCHANGED <<Members, SpentCodes>>
    BY DEF Dir!Invite, Members, SpentCodes, Invitations
  <1> QED
    BY <1>1, CountUnchanged

LEMMA WithdrawCounts ==
    ASSUME CountInv, NEW c \in InviteCode, Dir!Withdraw(c)
    PROVE  CountInv'
  <1>1. UNCHANGED Members /\ SpentCodes' = SpentCodes \cup {c}
    BY DEF Dir!Withdraw, Members, SpentCodes, Invitations
  <1>2. /\ IsFiniteSet(SpentCodes \cup {c})
        /\ Cardinality(SpentCodes \cup {c}) \in {Cardinality(SpentCodes), Cardinality(SpentCodes) + 1}
    BY FS_AddElement DEF CountInv
  <1>3. Cardinality(SpentCodes) \in Nat /\ Cardinality(Members) \in Nat
    BY FS_CardinalityType DEF CountInv
  <1> QED
    BY <1>1, <1>2, <1>3 DEF CountInv

LEMMA JoinCounts ==
    ASSUME CountInv, NEW u \in UserId, NEW c \in InviteCode, Dir!Join(u, c)
    PROVE  CountInv'
  <1>1. /\ Members' \in {Members, Members \cup {u}}
        /\ SpentCodes' = SpentCodes \cup {c} /\ c \notin SpentCodes
    BY DEF Dir!Join, Members, SpentCodes, Accounts, Invitations
  <1>2. /\ IsFiniteSet(SpentCodes \cup {c})
        /\ Cardinality(SpentCodes \cup {c}) = Cardinality(SpentCodes) + 1
    BY <1>1, FS_AddElement DEF CountInv
  <1>3. /\ IsFiniteSet(Members')
        /\ Cardinality(Members') \in {Cardinality(Members), Cardinality(Members) + 1}
    BY <1>1, FS_AddElement DEF CountInv
  <1>4. Cardinality(SpentCodes) \in Nat /\ Cardinality(Members) \in Nat
    BY FS_CardinalityType DEF CountInv
  <1> QED
    BY <1>1, <1>2, <1>3, <1>4 DEF CountInv

LEMMA ChangeCounts ==
    ASSUME CountInv, NEW u \in UserId, NEW account \in Dir!Account, Dir!Change(u, account)
    PROVE  CountInv'
  <1>1. account # None
    BY ServerAssumption DEF Dir!Account, Role
  <1>2. UNCHANGED <<Members, SpentCodes>>
    BY <1>1 DEF Dir!Change, Members, SpentCodes, Accounts
  <1> QED
    BY <1>2, CountUnchanged

LEMMA CountStep ==
    ASSUME TypeInv, Safe, AdminExists, CountInv, [Next]_vars
    PROVE  CountInv'
  <1>1. CASE UNCHANGED <<Accounts, Invitations>>
    BY <1>1, CountUnchanged DEF Members, SpentCodes
  <1>2. CASE Dir!Next
    BY <1>2, FoundCounts, InviteCounts, WithdrawCounts, JoinCounts, ChangeCounts DEF Dir!Next
  <1> QED
    BY <1>1, <1>2, Simulation

\* The count of the directory is that of the database.
LEMMA CountsAgree ==
    ASSUME TypeInv, CountInv
    PROVE  OneInvitationEach
  <1>1. Members = {u \in UserId : users[u] # None}
    BY AccountAt DEF Members
  <1>2. SpentCodes = {c \in InviteCode : Spent(c)}
    BY MarksAssumption DEF SpentCodes, Invitations, Spent
  <1> QED
    BY <1>1, <1>2 DEF CountInv, OneInvitationEach

-----------------------------------------------------------------------------
(* The theorems *)

LEMMA AdminInvParts ==
    AdminInv <=> TypeInv /\ EmptyAtFirst /\ HoldsAdminMu /\ Safe /\ AdminExists
  BY DEF AdminInv, TypeInv, Safe

LEMMA InitAdmin == Init => AdminInv
  <1> SUFFICES ASSUME Init
               PROVE  TypeInv /\ EmptyAtFirst /\ HoldsAdminMu /\ Safe /\ AdminExists
    BY AdminInvParts
  <1>1. \A r \in Request : req[r] = Idle
    BY DEF Init, ServerInit
  <1>2. EmptyAtFirst
    BY DEF Init, StoreInit, ServerInit, EmptyAtFirst, At, Idle, Free
  <1>3. HoldsAdminMu /\ Safe
    BY <1>1 DEF HoldsAdminMu, Safe, SafeToPut, Idle, Updating, WithCopy
  <1>4. AdminExists
    BY DEF Init, StoreInit, AdminExists, HasUsers
  <1> QED
    BY <1>2, <1>3, <1>4, InitType

LEMMA NextAdmin == AdminInv /\ [Next]_vars => AdminInv'
  <1>1. AdminInv' <=> (TypeInv /\ EmptyAtFirst /\ HoldsAdminMu /\ Safe /\ AdminExists)'
    BY DEF AdminInv, TypeInv, Safe
  <1> QED
    BY <1>1, AdminInvParts, NextType, EmptyStep, MutexStep, SafeStep, AdminStep

\* AdminInv, which says of every request between ReadTarget and PutUser that
\* it holds adminMu and that its copy is safe to put back, is inductive.
THEOREM AdminInvariant == Spec => []AdminInv
  BY InitAdmin, NextAdmin, PTL DEF Spec

\* However many administrators update accounts at once, and whatever else
\* the server does meanwhile, a system with accounts has an enabled
\* administrator: adminMu, and the fact that nothing else writes roles, make
\* the listing of lastEnabledAdmin still true when the copy is put back.
THEOREM AnAdminRemains == Spec => []AdminExists
  <1>1. AdminInv => AdminExists
    BY DEF AdminInv
  <1> QED
    BY <1>1, AdminInvariant, PTL

\* The server implements the directory of accounts: one account founds it,
\* each other one spends an invitation of its own, and every change keeps an
\* administrator in charge.
THEOREM DirectoryImplemented == Spec => ImplementsDirectory
  <1>1. Init => Dir!Init
    BY DEF Init, StoreInit, Dir!Init, Accounts, Invitations
  <1>2. AdminInv /\ [Next]_vars => [Dir!Next]_<<Accounts, Invitations>>
    BY AdminInvParts, Simulation
  <1> QED
    BY <1>1, <1>2, AdminInvariant, PTL DEF Spec, ImplementsDirectory, Dir!Spec

\* A new process opens a database that earlier ones have written.
Reopened == StoreTypeOK /\ HasUsers /\ AdminExists /\ ServerInit

LEMMA ReopenedAdmin == Reopened => AdminInv
  <1> SUFFICES ASSUME Reopened PROVE AdminInv
    OBVIOUS
  <1>1. \A r \in Request : req[r] = Idle
    BY DEF Reopened, ServerInit
  <1>2. TypeInv
    <2>1. term \in [Term -> TermFrame]
      BY DEF Reopened, ServerInit, Free, TermFrame
    <2> QED
      BY <2>1, IdleOK DEF Reopened, ServerInit, TypeInv, TypeOK, ServerTypeOK
  <1>3. HoldsAdminMu /\ Safe
    BY <1>1 DEF HoldsAdminMu, Safe, SafeToPut, Idle, Updating, WithCopy
  <1> QED
    BY <1>2, <1>3, AdminInvParts DEF Reopened, EmptyAtFirst

\* A process that starts from a database with accounts also takes no step but
\* the directory's (store.Open and the handlers of server.go).
THEOREM DirectoryKept == (Init \/ Reopened) /\ [][Next]_vars => KeepsDirectory
  <1>1. AdminInv /\ [Next]_vars => [Dir!Next]_<<Accounts, Invitations>>
    BY AdminInvParts, Simulation
  <1> QED
    BY <1>1, InitAdmin, ReopenedAdmin, NextAdmin, PTL DEF KeepsDirectory

\* Each account but the first has cost an invitation, for any number of
\* bootstraps and registrations at once: a consequence of the directory,
\* where an account is added by Found, to none, or by Join, with a code that
\* was open and is spent.
THEOREM AnInvitationEach == Spec => []OneInvitationEach
  <1>1. Init => CountInv
    <2> SUFFICES ASSUME Init PROVE CountInv
      OBVIOUS
    <2>1. Members = {} /\ SpentCodes = {}
      BY DEF Init, StoreInit, Members, SpentCodes, Accounts, Invitations
    <2> QED
      BY <2>1, FS_EmptySet DEF CountInv
  <1>2. AdminInv /\ CountInv /\ [Next]_vars => CountInv'
    BY AdminInvParts, CountStep
  <1>3. AdminInv /\ CountInv => OneInvitationEach
    BY AdminInvParts, CountsAgree
  <1> QED
    BY <1>1, <1>2, <1>3, AdminInvariant, PTL DEF Spec

-----------------------------------------------------------------------------
(* What is known of users and sessions *)
\* A token in use was made once, for this user; it is never made again.
Belongs(token, u) ==
    /\ token \in Token /\ u \in UserId
    /\ sessions[token] # None
    /\ IsSession(token) => sessions[token].user = u

RequestBelongs(r) ==
    req[r].pc \in {"auth", "drop", "asUser", "asAdmin"} =>
        Belongs(req[r].token, req[r].actor)

TermBelongs(w) == term[w].pc # "free" => Belongs(term[w].token, term[w].user)

Enabled(u) == users[u] # None /\ users[u].enabled

\* Whom forwardInput has found enabled is so still, or has no session any
\* more, or is about to lose it to the request that has disabled him.
UserHeard(w) ==
    term[w].pc = "check" =>
        \/ Enabled(term[w].user)
        \/ ~IsSession(term[w].token)
        \/ \E r \in Request : At(r, "revoke") /\ req[r].target = term[w].user

\* What forwardInput has found of user and session, for a terminal in the
\* table, is still so, or the one who has changed it is still closing this
\* terminal.
StillRight(w) ==
    term[w].listed /\ term[w].pc \in {"write", "writing"} =>
        \/ sessions[term[w].token] # Revoked /\ Enabled(term[w].user)
        \/ BeingClosed(w)

ThrowInv ==
    /\ \A r \in Request : RequestBelongs(r)
    /\ \A w \in Term : TermBelongs(w) /\ UserHeard(w) /\ StillRight(w)

\* Sessions keep their users, and only RevokeUserSessions marks one Revoked.
SessionsKept ==
    \A t \in Token :
        /\ sessions[t] # None => sessions'[t] # None
        /\ sessions[t] # None /\ IsSession(t)' =>
              IsSession(t) /\ sessions'[t].user = sessions[t].user
        /\ sessions'[t] = Revoked => sessions[t] = Revoked

LEMMA SessionKept ==
    ASSUME StoreTypeOK, NEW token \in Token, NEW id \in UserId, NEW t \in Nat,
           CreateSession(token, id, t) \/ GetSession(token, t) \/ RevokeSession(token)
    PROVE  SessionsKept
  <1>1. sessions \in [Token -> Session \cup {None, Gone, Revoked}]
    BY DEF StoreTypeOK
  <1>2. CASE CreateSession(token, id, t)
    <2>1. sessions'[token] \in Session
      BY <1>1, <1>2, DurationAssumption DEF CreateSession, Session
    <2>2. sessions[token] = None /\ \A u \in Token \ {token} : sessions'[u] = sessions[u]
      BY <1>1, <1>2 DEF CreateSession
    <2> QED
      BY <1>1, <2>1, <2>2, MarksAssumption DEF SessionsKept, IsSession
  <1>3. CASE GetSession(token, t)
    <2>1. sessions[token] \in Session /\ IsSession(token)
      BY <1>1, <1>3 DEF GetSession, SessionValid, IsSession
    <2>2. sessions'[token] \in Session /\ sessions'[token].user = sessions[token].user
      BY <1>1, <1>3, <2>1 DEF GetSession, Session
    <2>3. \A u \in Token \ {token} : sessions'[u] = sessions[u]
      BY <1>1, <1>3 DEF GetSession
    <2> QED
      BY <1>1, <2>1, <2>2, <2>3, MarksAssumption DEF SessionsKept, IsSession
  <1>4. CASE RevokeSession(token)
    <2>1. sessions'[token] \in {Gone, sessions[token]}
      BY <1>1, <1>4 DEF RevokeSession
    <2>2. sessions[token] = None => sessions'[token] = None
      BY <1>1, <1>4 DEF RevokeSession, IsSession
    <2>3. \A u \in Token \ {token} : sessions'[u] = sessions[u]
      BY <1>1, <1>4 DEF RevokeSession
    <2> QED
      BY <1>1, <2>1, <2>2, <2>3, MarksAssumption DEF SessionsKept, IsSession
  <1> QED
    BY <1>2, <1>3, <1>4

LEMMA SameSessions == ASSUME UNCHANGED sessions PROVE SessionsKept
  BY DEF SessionsKept, IsSession

LEMMA OnlyRevoke ==
    ASSUME TypeInv, ThrowInv, [Next]_vars, \A r \in Request : ~RevokeSessions(r)
    PROVE  SessionsKept
  <1>0. StoreTypeOK /\ Sampled \subseteq Nat
    BY SampledNat DEF TypeInv, TypeOK
  <1>1. ASSUME NEW r \in Request, Authenticate(r)
        PROVE  SessionsKept
    <2>1. PICK token \in Token, t \in Sampled : GetSession(token, t)
      BY <1>1 DEF Authenticate
    <2>2. sessions[token].user \in UserId
      BY <1>0, <2>1 DEF GetSession, SessionValid, IsSession, StoreTypeOK, Session
    <2> QED
      BY <1>0, <2>1, <2>2, SessionKept
  <1>2. ASSUME NEW r \in Request, createSession(r)
        PROVE  SessionsKept
    <2>1. PICK token \in Token, t \in Sampled : CreateSession(token, req[r].target, t)
      BY <1>2 DEF createSession
    <2>2. req[r].target \in UserId
      BY <1>2 DEF createSession, At, TypeInv, FrameOK, WithTarget
    <2> QED
      BY <1>0, <2>1, <2>2, SessionKept
  <1>3. ASSUME NEW r \in Request, DropSession(r) \/ handleLogout(r)
        PROVE  SessionsKept
    <2>1. RevokeSession(req[r].token) /\ req[r].token \in Token /\ req[r].actor \in UserId
      BY <1>3 DEF DropSession, handleLogout, At, Authenticated, ThrowInv, RequestBelongs, Belongs
    <2> QED
      BY <1>0, <2>1, SessionKept
  <1>4. ASSUME NEW w \in Term, CheckSession(w)
        PROVE  SessionsKept
    <2>1. term[w].token \in Token /\ term[w].user \in UserId
      BY <1>4 DEF CheckSession, ThrowInv, TermBelongs, Belongs
    <2>2. CASE \E t \in Sampled : GetSession(term[w].token, t)
      BY <1>0, <2>1, <2>2, SessionKept
    <2>3. CASE UNCHANGED store
      BY <2>3, SameSessions DEF store
    <2> QED
      BY <1>4, <2>2, <2>3 DEF CheckSession
  <1>5. CASE UNCHANGED sessions
    BY <1>5, SameSessions
  <1>6. ASSUME NEW r \in Request, Arrive(r), ~Authenticate(r)
        PROVE  UNCHANGED sessions
    BY <1>6 DEF Arrive, handleBootstrap, CreateFirstUser, handleRegister, CreateInvitedUser,
                LoginLookup, handlePasswordReset, ConsumePasswordReset, store
  <1>7. ASSUME NEW r \in Request, Proceed(r) \/ LockAdminMu(r), ~createSession(r),
               ~DropSession(r), ~handleLogout(r)
        PROVE  UNCHANGED sessions
    BY <1>7
       DEF LockAdminMu, Proceed, LoginFails, RecordLoginFailure, LoginLocked, LoginSucceeds,
           ClearLoginFailures, ReadUser, Answer, handleTerminal, handleCreateInvite,
           CreateInvite, handleDeleteInvite, DeleteInvite, handleResetUser,
           CreatePasswordReset, handleRevokeUser, UpdateUserStart, Update, ReadTarget, SetRole,
           SetEnabled, RefuseUpdate, PutUser, UpdateUser, Snapshot, TakeNext, CloseNext, CloseDone,
           StoreError, store
  <1>8. ASSUME \/ \E w \in Term : (Input(w) /\ ~CheckSession(w)) \/ Disconnect(w) \/ ShellExits(w)
               \/ Tick \/ Crash
        PROVE  UNCHANGED sessions
    BY <1>8 DEF Input, CheckUser, WriteInput, WriteReturns, Disconnect, ShellExits, Tick,
                Crash, store
  <1> QED
    BY <1>1, <1>2, <1>3, <1>4, <1>5, <1>6, <1>7, <1>8 DEF Next, vars

\* Revoking is done with the account that the request goes on to close.
LEMMA RevokeEffect ==
    ASSUME TypeInv, NEW r \in Request, RevokeSessions(r)
    PROVE  /\ req'[r].pc = "snapshot" /\ req'[r].target = req[r].target
           /\ \A t \in Token :
                 \/ sessions'[t] = sessions[t]
                 \/ /\ IsSession(t) /\ sessions[t].user = req[r].target
                    /\ sessions'[t] = Revoked
           /\ UNCHANGED <<users, term>>
  <1>1. req[r] \in Frame /\ req'[r] = [req[r] EXCEPT !.pc = "snapshot"]
    BY StepLocal DEF RevokeSessions, TypeInv, TypeOK, ServerTypeOK
  <1>2. req'[r].pc = "snapshot" /\ req'[r].target = req[r].target
    BY <1>1 DEF Frame
  <1> QED
    BY <1>2 DEF RevokeSessions, RevokeUserSessions

LEMMA BelongsStays ==
    ASSUME TypeInv, ThrowInv, [Next]_vars, NEW token, NEW u, Belongs(token, u)
    PROVE  Belongs(token, u)'
  <1>1. CASE \A r \in Request : ~RevokeSessions(r)
    BY <1>1, OnlyRevoke DEF SessionsKept, Belongs
  <1>2. ASSUME NEW r \in Request, RevokeSessions(r)
        PROVE  Belongs(token, u)'
    BY <1>2, RevokeEffect, MarksAssumption DEF Belongs, IsSession
  <1> QED
    BY <1>1, <1>2

LEMMA ContinuesTo ==
    ASSUME TypeInv, NEW q \in Request, Continues(q)
    PROVE  req'[q].pc \in WithCopy
  <1>0. req[q] \in Frame
    BY DEF TypeInv, TypeOK, ServerTypeOK
  <1>1. CASE ReadTarget(q)
    <2>1. PICK u \in UserId :
            req'[q] = [req[q] EXCEPT !.pc = "role", !.target = u, !.copy = users[u]]
      BY <1>1, StepLocal DEF ReadTarget
    <2> QED
      BY <1>0, <2>1 DEF Frame, WithCopy
  <1>2. CASE SetRole(q)
    <2>1. PICK role \in Role \cup {None} :
            req'[q] = [req[q] EXCEPT !.pc = "enabled",
                                     !.copy.role = IF role = None THEN @ ELSE role]
      BY <1>2, StepLocal DEF SetRole
    <2> QED
      BY <1>0, <2>1 DEF Frame, WithCopy
  <1>3. CASE SetEnabled(q)
    <2>1. PICK enabled \in BOOLEAN \cup {None} :
            req'[q] = [req[q] EXCEPT !.pc = "put",
                                     !.copy.enabled = IF enabled = None THEN @ ELSE enabled]
      BY <1>3, StepLocal DEF SetEnabled
    <2> QED
      BY <1>0, <2>1 DEF Frame, WithCopy
  <1> QED
    BY <1>1, <1>2, <1>3 DEF Continues

LEMMA LookupTo ==
    ASSUME TypeInv, NEW q \in Request, LoginLookup(q)
    PROVE  \E name \in Name : /\ req'[q].pc = "verify" /\ names[name] # None
                             /\ req'[q].target = names[name]
                             /\ req'[q].copy = users[names[name]]
  <1>1. PICK name \in Name :
          /\ names[name] # None
          /\ req'[q] = [Idle EXCEPT !.pc = "verify", !.target = names[name],
                                    !.copy = users[names[name]]]
    BY StepLocal DEF LoginLookup
  <1> QED
    BY <1>1 DEF Idle

\* The points at which a request has nothing but an account to act on.
Plain == {"idle", "session", "lock", "read"} \cup Revoking

LEMMA RequestSteps ==
    ASSUME TypeInv, [Next]_vars, NEW q \in Request
    PROVE  \/ req'[q] = req[q] \/ req'[q].pc \in Plain
           \/ Authenticate(q) \/ ReadUser(q) \/ LoginLookup(q) \/ Continues(q)
  <1> SUFFICES ASSUME req'[q] # req[q], ~Authenticate(q), ~ReadUser(q), ~LoginLookup(q),
                      ~Continues(q)
               PROVE  req'[q].pc \in Plain
    OBVIOUS
  <1>0. req[q] \in Frame /\ req \in [Request -> Frame]
    BY DEF TypeInv, TypeOK, ServerTypeOK
  <1>1. CASE req' = [r \in Request |-> Idle]
    BY <1>1 DEF Idle, Plain
  <1>2. CASE handleBootstrap(q) \/ handleRegister(q) \/ handlePasswordReset(q)
    BY <1>0, <1>2 DEF handleBootstrap, handleRegister, handlePasswordReset, Step, Idle, Plain,
                    Revoking
  <1>3. CASE LockAdminMu(q)
    BY <1>3, LockLocal DEF Plain, Revoking
  <1>4. CASE LoginSucceeds(q) \/ handleRevokeUser(q) \/ UpdateUserStart(q)
    BY <1>0, <1>4 DEF LoginSucceeds, handleRevokeUser, UpdateUserStart, Step, Idle, Plain,
                    Revoking
  <1>5. CASE PutUser(q)
    <2>1. CASE req[q].copy.enabled
      BY <1>0, <1>5, <2>1 DEF PutUser, Return, Step, Idle, Plain, Revoking
    <2>2. CASE ~req[q].copy.enabled
      BY <1>0, <1>5, <2>2 DEF PutUser, Step, Idle, Plain, Revoking
    <2> QED
      BY <2>1, <2>2
  <1>6. CASE RevokeSessions(q)
    BY <1>6, RevokeEffect DEF Plain, Revoking
  <1>7. CASE Snapshot(q)
    <2>1. req'[q] = [req[q] EXCEPT !.pc = "close", !.closing = Registered(req[q].target)]
      BY <1>7, StepLocal DEF Snapshot
    <2> QED
      BY <1>0, <2>1 DEF Frame, Plain, Revoking
  <1>8. CASE CloseNext(q)
    <2>1. req'[q] = [req[q] EXCEPT !.pc = "close", !.at = None]
      BY <1>8, StepLocal DEF CloseNext
    <2> QED
      BY <1>0, <2>1 DEF Frame, Plain, Revoking
  <1>9. CASE TakeNext(q)
    <2>1. PICK v : Step(q, [req[q] EXCEPT !.pc = "mu", !.closing = @ \ {v}, !.at = v])
      BY <1>9 DEF TakeNext
    <2>2. req'[q] = [req[q] EXCEPT !.pc = "mu", !.closing = @ \ {v}, !.at = v]
      BY <2>1, StepLocal
    <2> QED
      BY <1>0, <2>2 DEF Frame, Plain, Revoking
  <1>10. CASE Return(q)
    BY <1>0, <1>10 DEF Return, Step, Idle, Plain, Revoking
  <1>11. CASE \E r \in Request : Arrive(r) \/ Proceed(r) \/ LockAdminMu(r)
    <2>1. Arrive(q) \/ Proceed(q) \/ LockAdminMu(q)
      BY <1>11, ArriveLeaves, ProceedLeaves, ContinuesLocal, LockLocal DEF OthersStay
    <2> QED
      BY <1>2, <1>3, <1>4, <1>5, <1>6, <1>7, <1>8, <1>9, <1>10, <2>1
         DEF Arrive, Proceed, Update, Continues, LoginFails, LoginLocked, createSession,
             DropSession, Answer, handleLogout, handleTerminal, handleCreateInvite,
             handleDeleteInvite, handleResetUser, RefuseUpdate, CloseDone, StoreError
  <1> QED
    BY <1>1, <1>11, EnvironmentLocal DEF Next, vars

\* Where the middleware takes a request.
LEMMA AuthTo ==
    ASSUME TypeInv, NEW q \in Request, Authenticate(q) \/ ReadUser(q)
    PROVE  req'[q].pc \in {"auth", "drop", "asUser", "asAdmin"}
  <1>1. CASE Authenticate(q)
    <2>1. PICK token \in Token, t \in Sampled :
            Step(q, [Idle EXCEPT !.pc = "auth", !.token = token,
                                 !.actor = sessions[token].user])
      BY <1>1 DEF Authenticate
    <2>2. req'[q] = [Idle EXCEPT !.pc = "auth", !.token = token,
                                 !.actor = sessions[token].user]
      BY <2>1, StepLocal
    <2> QED
      BY <2>2 DEF Idle
  <1>2. CASE ReadUser(q)
    <2>1. PICK point \in {"drop", "asUser", "asAdmin"} : req'[q] = [req[q] EXCEPT !.pc = point]
      BY <1>2, StepLocal DEF ReadUser
    <2>2. req[q] \in Frame
      BY DEF TypeInv, TypeOK, ServerTypeOK
    <2> QED
      BY <2>1, <2>2 DEF Frame
  <1> QED
    BY <1>1, <1>2

\* The request of an authenticated user, and the terminal it opens.
LEMMA RequestBelongsStep ==
    ASSUME TypeInv, ThrowInv, [Next]_vars, NEW q \in Request
    PROVE  RequestBelongs(q)'
  <1> DEFINE Known == {"auth", "drop", "asUser", "asAdmin"}
  <1>0. RequestBelongs(q)
    BY DEF ThrowInv
  <1>1. CASE req'[q] = req[q]
    BY <1>0, <1>1, BelongsStays DEF RequestBelongs
  <1>2. CASE req'[q].pc \notin Known
    BY <1>2 DEF RequestBelongs
  <1>3. CASE Authenticate(q)
    <2>1. PICK token \in Token, t \in Sampled :
            /\ GetSession(token, t)
            /\ Step(q, [Idle EXCEPT !.pc = "auth", !.token = token,
                                    !.actor = sessions[token].user])
      BY <1>3 DEF Authenticate
    <2>2. req'[q].token = token /\ req'[q].actor = sessions[token].user
      <3>1. req'[q] = [Idle EXCEPT !.pc = "auth", !.token = token,
                                   !.actor = sessions[token].user]
        BY <2>1, StepLocal
      <3> QED
        BY <3>1 DEF Idle
    <2>3. Belongs(token, sessions[token].user)
      <3>1. sessions[token] \in Session /\ sessions[token] # None
        BY <2>1 DEF GetSession, SessionValid, IsSession, TypeInv, TypeOK, StoreTypeOK
      <3> QED
        BY <3>1 DEF Belongs, Session
    <2>4. Belongs(token, sessions[token].user)
          => sessions'[token] # None /\ (IsSession(token)' => sessions'[token].user = sessions[token].user)
      <3>1. \A r \in Request : ~RevokeSessions(r)
        <4>1. \A r \in Request : RevokeSessions(r) => req'[r].pc = "snapshot" /\ req[r].pc = "revoke"
          BY RevokeEffect DEF RevokeSessions, At
        <4>2. \A r \in Request \ {q} : req'[r] = req[r]
          BY <2>1, StepLocal DEF OthersStay
        <4>3. req[q].pc = "idle"
          BY <1>3 DEF Authenticate, At
        <4> QED
          BY <4>1, <4>2, <4>3
      <3> QED
        BY <2>1, <3>1, OnlyRevoke, <2>3 DEF SessionsKept, Belongs
    <2> QED
      BY <2>2, <2>3, <2>4 DEF RequestBelongs, Belongs
  <1>4. CASE ReadUser(q)
    <2>1. req[q] \in Frame /\ UNCHANGED sessions
      BY <1>4 DEF ReadUser, TypeInv, TypeOK, ServerTypeOK, store
    <2>2. PICK point \in {"drop", "asUser", "asAdmin"} : req'[q] = [req[q] EXCEPT !.pc = point]
      BY <1>4, StepLocal DEF ReadUser
    <2>3. req'[q].token = req[q].token /\ req'[q].actor = req[q].actor /\ req[q].pc = "auth"
      BY <1>4, <2>1, <2>2 DEF Frame, ReadUser, At
    <2> QED
      BY <1>0, <2>1, <2>3, BelongsStays DEF RequestBelongs
  <1>5. CASE LoginLookup(q) \/ Continues(q) \/ req'[q].pc \in Plain
    <2>1. req'[q].pc \in Plain \cup WithCopy \cup {"verify"}
      BY <1>5, ContinuesTo, LookupTo
    <2> QED
      BY <1>2, <2>1 DEF Plain, WithCopy, Revoking
  <1> QED
    BY <1>1, <1>2, <1>3, <1>4, <1>5, RequestSteps

OpensTerm(w) ==
    \E r \in Request :
        /\ Authenticated(r) /\ UNCHANGED store
        /\ term'[w] = [pc |-> "wait", listed |-> TRUE, user |-> req[r].actor,
                       token |-> req[r].token]

SameTerm(w) ==
    /\ term'[w].user = term[w].user /\ term'[w].token = term[w].token
    /\ term'[w].listed => term[w].listed

TermGoesOn(w) ==
    \/ term'[w].pc \in {"wait", "closed", term[w].pc}
    \/ /\ term[w].pc = "wait" /\ term'[w].pc = "check"
       /\ Enabled(term[w].user) /\ UNCHANGED store
    \/ /\ term[w].pc = "check" /\ term'[w].pc = "write" /\ UNCHANGED <<users, req>>
       /\ \E t \in Sampled : GetSession(term[w].token, t)
    \/ term[w].pc = "write" /\ term'[w].pc = "writing"

\* A terminal's steps.  A closed or free one is not about to write.
LEMMA CloseEffect ==
    ASSUME TypeInv, NEW v \in Term, term' = Close(v), NEW w \in Term
    PROVE  \/ term'[w] = term[w] \/ term'[w].pc = "free"
           \/ SameTerm(w) /\ term'[w].pc = "closed" /\ term[w].pc # "free"
  <1>1. term \in [Term -> TermFrame] /\ term[v] \in TermFrame
    BY DEF TypeInv, TypeOK, ServerTypeOK
  <1>2. CASE term[v] = Free \/ ~term[v].listed
    BY <1>1, <1>2 DEF Close, Settled, TermFrame, Free
  <1>3. CASE term[v] # Free /\ term[v].listed
    BY <1>1, <1>3 DEF Close, Settled, TermFrame, Free, SameTerm
  <1> QED
    BY <1>2, <1>3

LEMMA TermSteps ==
    ASSUME TypeInv, [Next]_vars, NEW w \in Term
    PROVE  \/ term'[w] = term[w]
           \/ term'[w].pc = "free"
           \/ OpensTerm(w)
           \/ SameTerm(w) /\ term[w].pc # "free" /\ TermGoesOn(w)
  <1>0. term \in [Term -> TermFrame] /\ term[w] \in TermFrame
    BY DEF TypeInv, TypeOK, ServerTypeOK
  <1> DEFINE Closes == SameTerm(w) /\ term[w].pc # "free" /\ TermGoesOn(w)
  <1>1. ASSUME NEW r \in Request, handleTerminal(r)
        PROVE  term'[w] = term[w] \/ OpensTerm(w)
    BY <1>0, <1>1 DEF handleTerminal, OpensTerm
  <1>2. ASSUME NEW v \in Term, term' = Close(v)
        PROVE  term'[w] = term[w] \/ term'[w].pc = "free" \/ Closes
    BY <1>2, CloseEffect DEF TermGoesOn
  <1>3. ASSUME NEW r \in Request, CloseNext(r)
        PROVE  term'[w] = term[w] \/ term'[w].pc = "free" \/ Closes
    <2>1. req[r].at \in Term
      BY <1>3 DEF CloseNext, At, TypeInv, FrameOK
    <2> QED
      BY <1>2, <1>3, <2>1 DEF CloseNext
  <1>4. ASSUME NEW v \in Term, ShellExits(v)
        PROVE  term'[w] = term[w] \/ term'[w].pc = "free" \/ Closes
    BY <1>0, <1>4 DEF ShellExits, Settled, Free, TermFrame, SameTerm, TermGoesOn
  <1>5. ASSUME NEW v \in Term, Disconnect(v) \/ WriteInput(v) \/ WriteReturns(v)
        PROVE  term'[w] = term[w] \/ term'[w].pc = "free" \/ Closes
    <2>1. CASE term' = Close(v)
      BY <1>2, <2>1
    <2>2. CASE /\ term[v].pc \in {"write", "writing"}
               /\ \/ term' = [term EXCEPT ![v].pc = "wait"]
                  \/ term[v].pc = "write" /\ term' = [term EXCEPT ![v].pc = "writing"]
      BY <1>0, <2>2 DEF TermFrame, Free, SameTerm, TermGoesOn
    <2> QED
      BY <1>5, <2>1, <2>2 DEF Disconnect, WriteInput, WriteReturns
  <1>6. ASSUME NEW v \in Term, CheckUser(v)
        PROVE  term'[w] = term[w] \/ term'[w].pc = "free" \/ Closes
    <2>1. CASE term' = Close(v)
      BY <1>2, <2>1
    <2>2. CASE Enabled(term[v].user) /\ term' = [term EXCEPT ![v].pc = "check"]
      BY <1>0, <1>6, <2>2 DEF CheckUser, TermFrame, Free, SameTerm, TermGoesOn
    <2> QED
      BY <1>6, <2>1, <2>2 DEF CheckUser, Enabled
  <1>7. ASSUME NEW v \in Term, CheckSession(v)
        PROVE  term'[w] = term[w] \/ term'[w].pc = "free" \/ Closes
    <2>1. CASE term' = Close(v)
      BY <1>2, <2>1
    <2>2. CASE /\ term' = [term EXCEPT ![v].pc = "write"]
               /\ \E t \in Sampled : GetSession(term[v].token, t)
      <3>1. UNCHANGED <<users, req>>
        BY <1>7, <2>2 DEF CheckSession, GetSession
      <3> QED
        BY <1>0, <1>7, <2>2, <3>1 DEF CheckSession, TermFrame, Free, SameTerm, TermGoesOn
    <2> QED
      BY <1>7, <2>1, <2>2 DEF CheckSession
  <1>8. CASE Crash
    BY <1>8 DEF Crash, Free
  <1>9. ASSUME NEW r \in Request, Arrive(r) \/ Proceed(r) \/ LockAdminMu(r),
               ~handleTerminal(r), ~CloseNext(r)
        PROVE  term' = term
    BY <1>9
       DEF Arrive, handleBootstrap, handleRegister, LoginLookup, handlePasswordReset,
           Authenticate, LockAdminMu, Proceed, LoginFails, LoginLocked, LoginSucceeds,
           createSession, ReadUser, DropSession, Answer, handleLogout, handleCreateInvite,
           handleDeleteInvite, handleResetUser, handleRevokeUser, UpdateUserStart, Update,
           ReadTarget, SetRole, SetEnabled, RefuseUpdate, PutUser, RevokeSessions, Snapshot,
           TakeNext, CloseDone, StoreError
  <1>10. CASE UNCHANGED term
    BY <1>10
  <1> QED
    BY <1>1, <1>3, <1>4, <1>5, <1>6, <1>7, <1>8, <1>9, <1>10 DEF Next, Input, Tick, vars

\* Who is about to write, or writes, has been checked, now or before.
LEMMA WritingSteps ==
    ASSUME TypeInv, [Next]_vars, NEW w \in Term, term'[w].pc \in {"check", "write", "writing"}
    PROVE  /\ SameTerm(w) /\ term[w].pc # "free"
           /\ term'[w].pc = "check" =>
                 \/ term[w].pc = "check"
                 \/ Enabled(term[w].user) /\ UNCHANGED store
           /\ term'[w].pc \in {"write", "writing"} =>
                 \/ term[w].pc \in {"write", "writing"}
                 \/ /\ term[w].pc = "check" /\ UNCHANGED <<users, req>>
                    /\ \E t \in Sampled : GetSession(term[w].token, t)
  <1>1. ~OpensTerm(w)
    <2>1. OpensTerm(w) => term'[w].pc = "wait"
      BY DEF OpensTerm
    <2> QED
      BY <2>1
  <1>2. CASE term'[w] = term[w]
    BY <1>2 DEF SameTerm
  <1>3. CASE SameTerm(w) /\ term[w].pc # "free" /\ TermGoesOn(w)
    BY <1>3 DEF TermGoesOn
  <1> QED
    BY <1>1, <1>2, <1>3, TermSteps

LEMMA TermBelongsStep ==
    ASSUME TypeInv, ThrowInv, [Next]_vars, NEW w \in Term
    PROVE  TermBelongs(w)'
  <1>1. TermBelongs(w)
    BY DEF ThrowInv
  <1>2. CASE OpensTerm(w)
    <2>1. PICK r \in Request :
            /\ Authenticated(r)
            /\ term'[w] = [pc |-> "wait", listed |-> TRUE, user |-> req[r].actor,
                           token |-> req[r].token]
      BY <1>2 DEF OpensTerm
    <2>2. Belongs(req[r].token, req[r].actor)
      BY <2>1 DEF Authenticated, ThrowInv, RequestBelongs
    <2>3. Belongs(req[r].token, req[r].actor)
          => sessions'[req[r].token] # None
      BY <1>2 DEF OpensTerm, Belongs, store
    <2> QED
      BY <1>2, <2>1, <2>2 DEF TermBelongs, Belongs, IsSession, OpensTerm, store
  <1>3. CASE term[w].pc # "free" /\ (SameTerm(w) \/ term'[w] = term[w])
    <2>1. Belongs(term[w].token, term[w].user) /\ SameTerm(w)
      BY <1>1, <1>3 DEF TermBelongs, SameTerm
    <2> QED
      BY <2>1, BelongsStays DEF TermBelongs, SameTerm, Belongs, IsSession
  <1>4. CASE term'[w].pc = "free"
    BY <1>4 DEF TermBelongs
  <1> QED
    BY <1>2, <1>3, <1>4, TermSteps

\* A request that throws a user out goes from the sessions to the snapshot and
\* through the terminals, if revocation does not fail.
LEMMA RevokingGoesOn ==
    ASSUME TypeInv, [Next]_vars, "revoke" \notin Faulty, ~Crash,
           NEW r \in Request, req[r].pc \in Revoking, req'[r] # req[r]
    PROVE  RevokeSessions(r) \/ Snapshot(r) \/ TakeNext(r) \/ CloseNext(r) \/ CloseDone(r)
  <1>1. UNCHANGED req \/ \E q \in Request : Arrive(q) \/ Proceed(q) \/ LockAdminMu(q)
    BY DEF Next, vars, Input, CheckUser, CheckSession, WriteInput, WriteReturns, Disconnect,
           ShellExits, Tick
  <1>2. Arrive(r) \/ Proceed(r) \/ LockAdminMu(r)
    BY <1>1, ArriveLeaves, ProceedLeaves, ContinuesLocal, LockLocal DEF OthersStay
  <1>3. ~StoreError(r)
    BY ServerAssumption DEF StoreError, Revoking
  <1> QED
    BY <1>2, <1>3
       DEF Arrive, handleBootstrap, handleRegister, LoginLookup, handlePasswordReset,
           Authenticate, LockAdminMu, Proceed, LoginFails, LoginLocked, LoginSucceeds,
           createSession, ReadUser, DropSession, Answer, Authenticated, handleLogout,
           handleTerminal, Admin, handleCreateInvite, handleDeleteInvite, handleResetUser,
           handleRevokeUser, UpdateUserStart, Update, ReadTarget, SetRole, SetEnabled,
           RefuseUpdate, PutUser, At, Revoking

\* Whoever is closing a terminal goes on until it is closed.
LEMMA ClosingGoesOn ==
    ASSUME TypeInv, [Next]_vars, "revoke" \notin Faulty, NEW w \in Term, BeingClosed(w),
           term[w].listed, term'[w].pc \in {"write", "writing"}, SameTerm(w)
    PROVE  BeingClosed(w)'
  <1>1. PICK r \in Request :
          /\ req[r].target = term[w].user
          /\ \/ req[r].pc \in {"revoke", "snapshot"}
             \/ req[r].pc \in {"close", "mu"} /\ w \in req[r].closing
             \/ req[r].pc = "mu" /\ req[r].at = w
    BY DEF BeingClosed, At
  <1>2. req[r] \in Frame
    BY DEF TypeInv, TypeOK, ServerTypeOK
  <1>3. CASE req'[r] = req[r]
    BY <1>1, <1>3 DEF BeingClosed, SameTerm, At
  <1>4. CASE RevokeSessions(r)
    BY <1>1, <1>4, RevokeEffect DEF BeingClosed, SameTerm
  <1>5. CASE Snapshot(r)
    <2>1. /\ req'[r] = [req[r] EXCEPT !.pc = "close", !.closing = Registered(req[r].target)]
          /\ req[r].pc = "snapshot"
      BY <1>5, StepLocal DEF Snapshot, At
    <2>2. w \in req'[r].closing /\ req'[r].pc = "close" /\ req'[r].target = req[r].target
      BY <1>1, <1>2, <2>1 DEF Frame, Registered
    <2> QED
      BY <1>1, <2>2 DEF BeingClosed, SameTerm
  <1>6. CASE TakeNext(r)
    <2>1. PICK v : /\ req[r].pc = "close"
                   /\ req'[r] = [req[r] EXCEPT !.pc = "mu", !.closing = @ \ {v}, !.at = v]
      BY <1>6, StepLocal DEF TakeNext, At
    <2>2. /\ req'[r].pc = "mu" /\ req'[r].target = req[r].target
          /\ w \in req'[r].closing \/ req'[r].at = w
      BY <1>1, <1>2, <2>1 DEF Frame
    <2> QED
      BY <1>1, <2>2 DEF BeingClosed, SameTerm, At
  <1>7. CASE CloseNext(r)
    <2>1. /\ req[r].pc = "mu" /\ req[r].at \in Term /\ term' = Close(req[r].at)
          /\ req'[r] = [req[r] EXCEPT !.pc = "close", !.at = None]
      BY <1>7, StepLocal DEF CloseNext, At, TypeInv, FrameOK
    <2>2. w # req[r].at
      BY <2>1 DEF Close, Settled, Free, TypeInv, TypeOK, ServerTypeOK, TermFrame
    <2>3. w \in req'[r].closing /\ req'[r].pc = "close" /\ req'[r].target = req[r].target
      BY <1>1, <1>2, <2>1, <2>2 DEF Frame
    <2> QED
      BY <1>1, <2>3 DEF BeingClosed, SameTerm
  <1>8. ~Crash
    BY DEF Crash, Free
  <1>9. ~CloseDone(r) /\ req[r].pc \in Revoking
    BY <1>1 DEF CloseDone, At, Revoking
  <1> QED
    BY <1>3, <1>4, <1>5, <1>6, <1>7, <1>8, <1>9, RevokingGoesOn

\* Only the put of a disabling request disables a user, and it goes on to
\* revoke the sessions.
LEMMA DisabledByPut ==
    ASSUME TypeInv, [Next]_vars, NEW u \in UserId, Enabled(u)
    PROVE  Enabled(u)' \/ \E r \in Request : req'[r].pc = "revoke" /\ req'[r].target = u
  <1>1. CASE \A r \in Request : ~PutUser(r)
    BY <1>1, OnlyPutUser DEF Enabled, Kept
  <1>2. ASSUME NEW r \in Request, PutUser(r)
        PROVE  Enabled(u)' \/ (req'[r].pc = "revoke" /\ req'[r].target = u)
    <2>1. /\ req[r].target \in UserId /\ req[r].copy \in User
          /\ users' = [users EXCEPT ![req[r].target] = req[r].copy]
      BY <1>2, PutUserEffect
    <2>2. users \in [UserId -> User \cup {None}]
      BY DEF TypeInv, TypeOK, StoreTypeOK
    <2>3. CASE req[r].target # u
      BY <2>1, <2>2, <2>3 DEF Enabled
    <2>4. CASE req[r].target = u /\ req[r].copy.enabled
      BY <2>1, <2>2, <2>4, MarksAssumption DEF Enabled
    <2>5. CASE req[r].target = u /\ ~req[r].copy.enabled
      <3>1. req'[r] = [Idle EXCEPT !.pc = "revoke", !.target = req[r].target]
        BY <1>2, <2>5, StepLocal DEF PutUser
      <3> QED
        BY <2>5, <3>1 DEF Idle
    <2> QED
      BY <2>3, <2>4, <2>5
  <1> QED
    BY <1>1, <1>2

\* A token without a session gets none any more.
LEMMA NoSessionStays ==
    ASSUME TypeInv, ThrowInv, [Next]_vars, NEW t \in Token, sessions[t] # None, ~IsSession(t)
    PROVE  ~IsSession(t)'
  <1>1. CASE \A r \in Request : ~RevokeSessions(r)
    BY <1>1, OnlyRevoke DEF SessionsKept
  <1>2. ASSUME NEW r \in Request, RevokeSessions(r)
        PROVE  ~IsSession(t)'
    BY <1>2, RevokeEffect DEF IsSession
  <1> QED
    BY <1>1, <1>2

LEMMA UserHeardStep ==
    ASSUME TypeInv, ThrowInv, [Next]_vars, "revoke" \notin Faulty, NEW w \in Term
    PROVE  UserHeard(w)'
  <1> SUFFICES ASSUME term'[w].pc = "check"
               PROVE  UserHeard(w)'
    BY DEF UserHeard
  <1>1. SameTerm(w) /\ term[w].pc # "free"
    BY WritingSteps
  <1>2. PICK u \in UserId, t \in Token :
          u = term[w].user /\ t = term[w].token /\ Belongs(t, u)
    BY <1>1 DEF ThrowInv, TermBelongs, Belongs
  <1> SUFFICES \/ Enabled(u)' \/ ~IsSession(t)'
               \/ \E r \in Request : req'[r].pc = "revoke" /\ req'[r].target = u
    BY <1>1, <1>2 DEF UserHeard, SameTerm, Enabled, IsSession, At
  <1>3. CASE Enabled(u)
    BY <1>3, DisabledByPut
  <1>4. CASE ~IsSession(t)
    BY <1>2, <1>4, NoSessionStays DEF Belongs
  <1>5. ASSUME NEW r \in Request, At(r, "revoke"), req[r].target = u
        PROVE  ~IsSession(t)' \/ (req'[r].pc = "revoke" /\ req'[r].target = u)
    <2>1. CASE req'[r] = req[r]
      BY <1>5, <2>1 DEF At
    <2>2. CASE RevokeSessions(r)
      BY <1>2, <1>5, <2>2 DEF RevokeSessions, RevokeUserSessions, IsSession, Belongs
    <2>3. ~Crash
      BY DEF Crash, Free
    <2> QED
      BY <1>5, <2>1, <2>2, <2>3, RevokingGoesOn
         DEF At, Revoking, Snapshot, TakeNext, CloseNext, CloseDone
  <1>6. CASE term[w].pc = "check"
    <2>1. Enabled(u) \/ ~IsSession(t) \/ \E r \in Request : At(r, "revoke") /\ req[r].target = u
      BY <1>2, <1>6 DEF ThrowInv, UserHeard
    <2> QED
      BY <1>3, <1>4, <1>5, <2>1
  <1> QED
    BY <1>2, <1>3, <1>6, WritingSteps

LEMMA StillRightStep ==
    ASSUME TypeInv, ThrowInv, [Next]_vars, "revoke" \notin Faulty, NEW w \in Term
    PROVE  StillRight(w)'
  <1> SUFFICES ASSUME term'[w].listed, term'[w].pc \in {"write", "writing"}
               PROVE  StillRight(w)'
    BY DEF StillRight
  <1>1. SameTerm(w) /\ term[w].pc # "free" /\ term[w].listed
    BY WritingSteps DEF SameTerm
  <1>2. PICK u \in UserId, t \in Token :
          u = term[w].user /\ t = term[w].token /\ Belongs(t, u)
    BY <1>1 DEF ThrowInv, TermBelongs, Belongs
  <1> SUFFICES (sessions'[t] # Revoked /\ Enabled(u)') \/ BeingClosed(w)'
    BY <1>1, <1>2 DEF StillRight, SameTerm, Enabled
  <1>3. ASSUME NEW r \in Request, req'[r].pc \in {"revoke", "snapshot"}, req'[r].target = u
        PROVE  BeingClosed(w)'
    BY <1>1, <1>2, <1>3 DEF BeingClosed, SameTerm
  <1>4. CASE term[w].pc = "check"
    <2>1. PICK time \in Sampled : GetSession(t, time) /\ UNCHANGED <<users, req>>
      BY <1>2, <1>4, WritingSteps
    <2>2. sessions'[t] \in Session /\ IsSession(t)
      BY <1>2, <2>1 DEF GetSession, SessionValid, IsSession, Session, TypeInv, TypeOK,
                        StoreTypeOK, Sampled
    <2>3. Enabled(u) \/ \E r \in Request : At(r, "revoke") /\ req[r].target = u
      BY <1>2, <1>4, <2>2 DEF ThrowInv, UserHeard
    <2> QED
      BY <1>3, <2>1, <2>2, <2>3, MarksAssumption DEF Enabled, At
  <1>5. CASE BeingClosed(w)
    BY <1>1, <1>5, ClosingGoesOn
  <1>6. CASE sessions[t] # Revoked /\ Enabled(u)
    <2>1. ASSUME \A r \in Request : ~RevokeSessions(r)
          PROVE  sessions'[t] # Revoked
      BY <1>2, <1>6, <2>1, OnlyRevoke DEF SessionsKept
    <2>2. ASSUME NEW r \in Request, RevokeSessions(r), sessions'[t] = Revoked
          PROVE  BeingClosed(w)'
      <3>1. req[r].target = u
        BY <1>2, <1>6, <2>2, RevokeEffect DEF Belongs
      <3> QED
        BY <1>3, <2>2, <3>1, RevokeEffect
    <2>3. Enabled(u)' \/ BeingClosed(w)'
      BY <1>3, <1>6, DisabledByPut
    <2> QED
      BY <2>1, <2>2, <2>3
  <1>7. CASE term[w].pc \in {"write", "writing"}
    BY <1>1, <1>2, <1>5, <1>6, <1>7 DEF ThrowInv, StillRight
  <1> QED
    BY <1>4, <1>7, WritingSteps

-----------------------------------------------------------------------------
(* Locks *)

\* No lock, in a record or in a copy, runs for longer than lockDuration, and a
\* login compares a password with an account that is there.
LockInv ==
    /\ \A u \in UserId : users[u] # None => users[u].lockedUntil <= now + lockDuration
    /\ \A r \in Request :
          /\ req[r].pc \in WithCopy => req[r].copy.lockedUntil <= now + lockDuration
          /\ req[r].pc = "verify" => req[r].copy # None

\* What a step does to the lock of an account.
LockKept(u) == users[u] # None /\ users'[u].lockedUntil = users[u].lockedUntil
LockSet(u) == \E t \in Sampled : users'[u].lockedUntil = t + lockDuration
Cleared(u) ==
    /\ users'[u].lockedUntil = 0
    /\ \/ users[u] = None
       \/ \E r \in Request : LoginSucceeds(r) /\ req[r].target = u
       \/ \E c \in ResetCode : resets[c] # None /\ resets[c].user = u
                               /\ ~resets[c].used /\ resets'[c].used
PutBack(u) ==
    \E r \in Request : PutUser(r) /\ req[r].target = u /\ users'[u] = req[r].copy

LockStep(u) ==
    users'[u] = users[u] \/ LockKept(u) \/ LockSet(u) \/ Cleared(u) \/ PutBack(u)

LEMMA FailureLocks ==
    ASSUME TypeInv, NEW r \in Request, LoginFails(r), NEW u \in UserId
    PROVE  LockStep(u)
  <1>1. PICK t \in Sampled : RecordLoginFailure(req[r].target, t)
    BY DEF LoginFails
  <1>2. users \in [UserId -> User \cup {None}]
    BY DEF TypeInv, TypeOK, StoreTypeOK
  <1>3. CASE u = req[r].target
    <2>1. users[u] \in User /\ users[u] # None
      BY <1>1, <1>2, <1>3 DEF RecordLoginFailure
    <2>2. users'[u].lockedUntil \in {t + lockDuration, users[u].lockedUntil}
      BY <1>1, <1>2, <1>3, <2>1 DEF RecordLoginFailure, User
    <2> QED
      BY <2>1, <2>2 DEF LockStep, LockSet, LockKept
  <1>4. CASE u # req[r].target
    BY <1>1, <1>2, <1>4 DEF RecordLoginFailure, LockStep
  <1> QED
    BY <1>3, <1>4

LEMMA SuccessClears ==
    ASSUME TypeInv, NEW r \in Request, LoginSucceeds(r), NEW u \in UserId
    PROVE  LockStep(u)
  <1>1. ClearLoginFailures(req[r].target) /\ users \in [UserId -> User \cup {None}]
    BY DEF LoginSucceeds, TypeInv, TypeOK, StoreTypeOK
  <1>2. CASE u = req[r].target
    <2>1. users[u] \in User
      BY <1>1, <1>2 DEF ClearLoginFailures
    <2>2. users'[u].lockedUntil = 0
      BY <1>1, <1>2, <2>1 DEF ClearLoginFailures, User
    <2> QED
      BY <1>2, <2>2 DEF LockStep, Cleared
  <1>3. CASE u # req[r].target
    BY <1>1, <1>3 DEF ClearLoginFailures, LockStep
  <1> QED
    BY <1>2, <1>3

LEMMA ResetClears ==
    ASSUME TypeInv, NEW r \in Request, handlePasswordReset(r), NEW u \in UserId
    PROVE  LockStep(u)
  <1>1. PICK code \in ResetCode, pw \in Password, t \in Sampled :
          ConsumePasswordReset(code, pw, t)
    BY DEF handlePasswordReset
  <1>2. /\ users \in [UserId -> User \cup {None}]
        /\ resets \in [ResetCode -> PasswordReset \cup {None}]
    BY DEF TypeInv, TypeOK, StoreTypeOK
  <1>3. resets[code] \in PasswordReset /\ ~resets[code].used /\ resets[code] # None
    BY <1>1, <1>2 DEF ConsumePasswordReset, ResetUsable
  <1>4. resets'[code].used
    BY <1>1, <1>2, <1>3 DEF ConsumePasswordReset, PasswordReset
  <1>5. CASE u = resets[code].user
    <2>1. users[u] \in User
      BY <1>1, <1>2, <1>5 DEF ConsumePasswordReset, ResetUsable
    <2>2. users'[u].lockedUntil = 0
      BY <1>1, <1>2, <1>5, <2>1 DEF ConsumePasswordReset, User
    <2> QED
      BY <1>3, <1>4, <1>5, <2>2 DEF LockStep, Cleared
  <1>6. CASE u # resets[code].user
    BY <1>1, <1>2, <1>6 DEF ConsumePasswordReset, LockStep
  <1> QED
    BY <1>5, <1>6

LEMMA CreationUnlocked ==
    ASSUME TypeInv, NEW r \in Request, handleBootstrap(r) \/ handleRegister(r), NEW u \in UserId
    PROVE  LockStep(u)
  <1>1. PICK id \in UserId, name \in Name, pw \in Password, role \in Role :
          PutNewUser(id, NewUser(name, pw, role))
    BY DEF handleBootstrap, CreateFirstUser, handleRegister, CreateInvitedUser, Role
  <1>2. users \in [UserId -> User \cup {None}]
    BY DEF TypeInv, TypeOK, StoreTypeOK
  <1> QED
    BY <1>1, <1>2 DEF PutNewUser, NewUser, LockStep, Cleared

LEMMA PutPutsBack ==
    ASSUME TypeInv, NEW r \in Request, PutUser(r), NEW u \in UserId
    PROVE  LockStep(u)
  <1>1. users \in [UserId -> User \cup {None}]
    BY DEF TypeInv, TypeOK, StoreTypeOK
  <1> QED
    BY <1>1, PutUserEffect DEF LockStep, PutBack

LEMMA LockSteps ==
    ASSUME TypeInv, [Next]_vars, NEW u \in UserId
    PROVE  LockStep(u)
  <1>1. CASE UNCHANGED users
    BY <1>1 DEF LockStep
  <1>2. ASSUME NEW r \in Request, Arrive(r)
        PROVE  LockStep(u)
    BY <1>1, <1>2, CreationUnlocked, ResetClears
       DEF Arrive, LoginLookup, Authenticate, GetSession, store
  <1>3. ASSUME NEW r \in Request, Proceed(r) \/ LockAdminMu(r), ~LoginFails(r),
               ~LoginSucceeds(r), ~PutUser(r)
        PROVE  UNCHANGED users
    BY <1>3
       DEF LockAdminMu, Proceed, LoginLocked, createSession, CreateSession, ReadUser,
           DropSession, RevokeSession, Answer, handleLogout, handleTerminal,
           handleCreateInvite, CreateInvite, handleDeleteInvite, DeleteInvite,
           handleResetUser, CreatePasswordReset, handleRevokeUser, UpdateUserStart, Update,
           ReadTarget, SetRole, SetEnabled, RefuseUpdate, RevokeSessions, RevokeUserSessions,
           Snapshot, TakeNext, CloseNext, CloseDone, StoreError, store
  <1>4. ASSUME \/ \E w \in Term : Input(w) \/ Disconnect(w) \/ ShellExits(w)
               \/ Tick \/ Crash
        PROVE  UNCHANGED users
    BY <1>4 DEF Input, CheckUser, CheckSession, WriteInput, WriteReturns, Disconnect,
                ShellExits, Tick, Crash, GetSession, store
  <1> QED
    BY <1>1, <1>2, <1>3, <1>4, FailureLocks, SuccessClears, PutPutsBack DEF Next, vars

LEMMA Times ==
    ASSUME TypeInv, [Next]_vars
    PROVE  /\ now \in Nat /\ lockDuration \in Nat /\ Delay \in Nat
           /\ now' \in {now, now + 1}
           /\ \A t \in Sampled : t \in Nat /\ t <= now /\ now <= t + Delay
  <1>1. now \in Nat /\ lockDuration \in Nat /\ Delay \in Nat
    BY DurationAssumption, ServerAssumption DEF TypeInv, TypeOK, ServerTypeOK
  <1>2. now' \in {now, now + 1}
    <2>1. ASSUME NEW r \in Request, Arrive(r) \/ Proceed(r) \/ LockAdminMu(r)
          PROVE  UNCHANGED now
      BY <2>1
         DEF Arrive, handleBootstrap, handleRegister, LoginLookup, handlePasswordReset,
             Authenticate, LockAdminMu, Proceed, LoginFails, LoginLocked, LoginSucceeds,
             createSession, ReadUser, DropSession, Answer, handleLogout, handleTerminal,
             handleCreateInvite, handleDeleteInvite, handleResetUser, handleRevokeUser,
             UpdateUserStart, Update, ReadTarget, SetRole, SetEnabled, RefuseUpdate, PutUser,
             RevokeSessions, Snapshot, TakeNext, CloseNext, CloseDone, StoreError
    <2>2. ASSUME NEW w \in Term, Input(w) \/ Disconnect(w) \/ ShellExits(w)
          PROVE  UNCHANGED now
      BY <2>2 DEF Input, CheckUser, CheckSession, WriteInput, WriteReturns, Disconnect,
                  ShellExits
    <2> QED
      BY <2>1, <2>2 DEF Next, Tick, Crash, vars
  <1>3. \A t \in Sampled : t \in Nat /\ t <= now /\ now <= t + Delay
    BY <1>1 DEF Sampled
  <1> QED
    BY <1>1, <1>2, <1>3

LEMMA RecordLockStep ==
    ASSUME TypeInv, TypeInv', LockInv, [Next]_vars, NEW u \in UserId, users'[u] # None
    PROVE  users'[u].lockedUntil <= now' + lockDuration
  <1>1. users'[u].lockedUntil \in Nat
    BY DEF TypeInv, TypeOK, StoreTypeOK, User
  <1>2. users[u] # None => users[u].lockedUntil <= now + lockDuration /\ users[u].lockedUntil \in Nat
    BY DEF LockInv, TypeInv, TypeOK, StoreTypeOK, User
  <1>3. CASE users'[u] = users[u] \/ LockKept(u) \/ Cleared(u)
    BY <1>1, <1>2, <1>3, Times DEF LockKept, Cleared
  <1>4. CASE LockSet(u)
    BY <1>1, <1>4, Times DEF LockSet
  <1>5. CASE PutBack(u)
    <2>1. PICK r \in Request : PutUser(r) /\ users'[u] = req[r].copy
      BY <1>5 DEF PutBack
    <2>2. req[r].copy.lockedUntil <= now + lockDuration
      BY <2>1 DEF LockInv, PutUser, At, WithCopy
    <2> QED
      BY <1>1, <2>1, <2>2, Times
  <1> QED
    BY <1>3, <1>4, <1>5, LockSteps DEF LockStep

\* The copy of an update under way: a record, or that copy as it was but for
\* role and access.
LEMMA CopyLock ==
    ASSUME TypeInv, NEW q \in Request, Continues(q)
    PROVE  \/ \E u \in UserId : users[u] # None /\ req'[q].copy = users[u]
           \/ req[q].pc \in WithCopy /\ req'[q].copy.lockedUntil = req[q].copy.lockedUntil
  <1>0. req[q] \in Frame /\ FrameOK(req[q])
    BY DEF TypeInv, TypeOK, ServerTypeOK
  <1>1. CASE ReadTarget(q)
    <2>1. PICK u \in UserId :
            /\ users[u] # None
            /\ req'[q] = [req[q] EXCEPT !.pc = "role", !.target = u, !.copy = users[u]]
      BY <1>1, StepLocal DEF ReadTarget
    <2> QED
      BY <1>0, <2>1 DEF Frame
  <1>2. CASE SetRole(q)
    <2>1. PICK role \in Role \cup {None} :
            req'[q] = [req[q] EXCEPT !.pc = "enabled",
                                     !.copy.role = IF role = None THEN @ ELSE role]
      BY <1>2, StepLocal DEF SetRole
    <2>2. req[q].pc \in WithCopy /\ req[q].copy \in User
      BY <1>0, <1>2 DEF SetRole, At, FrameOK, WithCopy
    <2> QED
      BY <1>0, <2>1, <2>2 DEF Frame, User
  <1>3. CASE SetEnabled(q)
    <2>1. PICK enabled \in BOOLEAN \cup {None} :
            req'[q] = [req[q] EXCEPT !.pc = "put",
                                     !.copy.enabled = IF enabled = None THEN @ ELSE enabled]
      BY <1>3, StepLocal DEF SetEnabled
    <2>2. req[q].pc \in WithCopy /\ req[q].copy \in User
      BY <1>0, <1>3 DEF SetEnabled, At, FrameOK, WithCopy
    <2> QED
      BY <1>0, <2>1, <2>2 DEF Frame, User
  <1> QED
    BY <1>1, <1>2, <1>3 DEF Continues

LEMMA CopyLockStep ==
    ASSUME TypeInv, TypeInv', IndexInv, LockInv, [Next]_vars, NEW q \in Request
    PROVE  /\ req'[q].pc \in WithCopy => req'[q].copy.lockedUntil <= now' + lockDuration
           /\ req'[q].pc = "verify" => req'[q].copy # None
  <1>1. req'[q].pc \in WithCopy => req'[q].copy.lockedUntil \in Nat
    BY DEF TypeInv, FrameOK, WithCopy, User
  <1>2. CASE req'[q] = req[q]
    BY <1>1, <1>2, Times DEF LockInv
  <1>3. CASE req'[q].pc \in Plain
    BY <1>3 DEF Plain, WithCopy, Revoking
  <1>4. CASE LoginLookup(q)
    <2>1. PICK name \in Name : /\ req'[q].pc = "verify" /\ names[name] # None
                              /\ req'[q].copy = users[names[name]]
      BY <1>4, LookupTo
    <2>2. users[names[name]] # None
      BY <2>1 DEF IndexInv, NamesIndex
    <2> QED
      BY <2>1, <2>2 DEF WithCopy
  <1>5. CASE Continues(q)
    <2>1. req'[q].pc \in WithCopy
      BY <1>5, ContinuesTo
    <2>2. \/ \E u \in UserId : users[u] # None /\ req'[q].copy = users[u]
          \/ req[q].pc \in WithCopy /\ req'[q].copy.lockedUntil = req[q].copy.lockedUntil
      BY <1>5, CopyLock
    <2>3. req'[q].copy.lockedUntil <= now + lockDuration
      BY <2>2 DEF LockInv
    <2> QED
      BY <1>1, <2>1, <2>3, Times DEF WithCopy
  <1>6. CASE Authenticate(q) \/ ReadUser(q)
    <2>1. req'[q].pc \in {"auth", "drop", "asUser", "asAdmin"}
      BY <1>6, AuthTo
    <2> QED
      BY <2>1 DEF WithCopy
  <1> QED
    BY <1>2, <1>3, <1>4, <1>5, <1>6, RequestSteps

\* What lifts a lock that is running.
LEMMA Lifted ==
    ASSUME TypeInv, TypeInv', LockInv, [Next]_vars, NEW u \in UserId, RunningLock(u),
           users'[u].lockedUntil + Delay < users[u].lockedUntil
    PROVE  \/ \E c \in ResetCode : resets[c] # None /\ resets[c].user = u
                                   /\ ~resets[c].used /\ resets'[c].used
           \/ \E r \in Request :
                 /\ req[r].pc \in {"verify", "put"} /\ req[r].target = u
                 /\ req[r].copy.lockedUntil < users[u].lockedUntil
                 /\ req'[r].pc # req[r].pc
  <1>1. /\ users[u] # None /\ now < users[u].lockedUntil /\ users[u].lockedUntil \in Nat
        /\ users[u].lockedUntil <= now + lockDuration
    BY DEF RunningLock, LockInv, TypeInv, TypeOK, StoreTypeOK, User
  <1>2. ~(users'[u] = users[u]) /\ ~LockKept(u)
    BY <1>1, Times DEF LockKept
  <1>3. ~LockSet(u)
    BY <1>1, Times DEF LockSet
  <1>4. ASSUME NEW r \in Request, LoginSucceeds(r), req[r].target = u
        PROVE  /\ req[r].pc = "verify" /\ req[r].copy.lockedUntil < users[u].lockedUntil
               /\ req'[r].pc # req[r].pc
    <2>1. req[r].pc = "verify" /\ req[r].copy \in User
      BY <1>4 DEF LoginSucceeds, At, LockInv, TypeInv, TypeOK, ServerTypeOK, Frame
    <2>2. PICK t \in Sampled : ~Locked(req[r].copy, t)
      BY <1>4 DEF LoginSucceeds
    <2>3. req[r].copy.lockedUntil < users[u].lockedUntil
      BY <1>1, <2>1, <2>2, Times DEF Locked, User
    <2>4. req'[r].pc = "session"
      BY <1>4 DEF LoginSucceeds, Step, Idle, TypeInv, TypeOK, ServerTypeOK
    <2> QED
      BY <2>1, <2>3, <2>4
  <1>5. ASSUME NEW r \in Request, PutUser(r), req[r].target = u, users'[u] = req[r].copy
        PROVE  /\ req[r].pc = "put" /\ req[r].copy.lockedUntil < users[u].lockedUntil
               /\ req'[r].pc # req[r].pc
    <2>1. req[r].pc = "put" /\ req[r].copy \in User
      BY <1>5, PutUserEffect DEF PutUser, At
    <2>2. req[r].copy.lockedUntil < users[u].lockedUntil
      BY <1>1, <1>5, <2>1, Times DEF User
    <2>3. req'[r].pc # "put"
      BY <1>5, ProceedLeaves DEF Leaves, Updating, Proceed, Update, Continues, PutUser,
                                 ReadTarget, SetRole, SetEnabled, At
    <2> QED
      BY <2>1, <2>2, <2>3
  <1> QED
    BY <1>1, <1>2, <1>3, <1>4, <1>5, LockSteps DEF LockStep, Cleared, PutBack

-----------------------------------------------------------------------------
(* The theorems *)

LEMMA InitThrow == Init => ThrowInv
  <1> SUFFICES ASSUME Init PROVE ThrowInv
    OBVIOUS
  <1>1. (\A r \in Request : req[r].pc = "idle") /\ (\A w \in Term : term[w].pc = "free")
    BY DEF Init, ServerInit, Idle, Free
  <1> QED
    BY <1>1 DEF ThrowInv, RequestBelongs, TermBelongs, UserHeard, StillRight

LEMMA NextThrow ==
    ASSUME "revoke" \notin Faulty
    PROVE  TypeInv /\ ThrowInv /\ [Next]_vars => ThrowInv'
  <1> SUFFICES ASSUME TypeInv, ThrowInv, [Next]_vars PROVE ThrowInv'
    OBVIOUS
  <1> QED
    BY RequestBelongsStep, TermBelongsStep, UserHeardStep, StillRightStep DEF ThrowInv

\* While a terminal's shell is there, a user who has been disabled, or whose
\* sessions were revoked, types into it no more unless the request that did
\* it is still closing it, for any number of terminals and requests, provided
\* that revocation itself does not fail: forwardInput looks both up again for
\* each message, a token is never drawn again for another user, and the
\* snapshot of CloseUser is taken after the account and the sessions have
\* changed.  Of a terminal whose shell has gone it says nothing: CloseUser
\* does not find it.
THEOREM ThrownOutIsSilent ==
    ASSUME "revoke" \notin Faulty
    PROVE  Spec => []ThrownOutCannotType
  <1>1. ThrowInv => ThrownOutCannotType
    BY DEF ThrowInv, StillRight, Enabled, ThrownOutCannotType
  <1> QED
    BY <1>1, InitThrow, NextThrow, InitType, NextType, PTL DEF Spec

\* In every terminal, its shell there or not, a message of a disabled user
\* passes both looks of forwardInput only while the request that disabled the
\* user has yet to revoke the sessions: after that the second look fails.
THEOREM ThrownOutUnheard ==
    ASSUME "revoke" \notin Faulty
    PROVE  Spec => ThrownOutIsNotHeard
  <1>1. TypeInv /\ ThrowInv /\ [Next]_vars =>
          [\A w \in Term :
              term[w].pc = "check" /\ term'[w].pc = "write" =>
                  \/ users[term[w].user].enabled
                  \/ \E r \in Request : At(r, "revoke") /\ req[r].target = term[w].user]_vars
    <2> SUFFICES ASSUME TypeInv, ThrowInv, [Next]_vars,
                        NEW w \in Term, term[w].pc = "check", term'[w].pc = "write"
                 PROVE  \/ users[term[w].user].enabled
                        \/ \E r \in Request : At(r, "revoke") /\ req[r].target = term[w].user
      OBVIOUS
    <2>1. IsSession(term[w].token)
      BY WritingSteps DEF GetSession, SessionValid
    <2> QED
      BY <2>1 DEF ThrowInv, UserHeard, Enabled
  <1> QED
    BY <1>1, InitThrow, NextThrow, InitType, NextType, PTL DEF Spec, ThrownOutIsNotHeard

\* A lock that is running is lifted by a password reset, or by a request that
\* had read the account before the lock was set: a login that finds the lock
\* in its copy is refused, and a put writes what was there when it was read.
\* A failure counted late moves the lock by its own delay at most.
THEOREM LocksHold == Spec => LockLiftedOnlyByStale
  <1>1. Init => LockInv /\ IndexInv
    <2> SUFFICES ASSUME Init PROVE LockInv /\ IndexInv
      OBVIOUS
    <2> QED
      BY DEF Init, StoreInit, ServerInit, Idle, LockInv, WithCopy, IndexInv, NamesIndex, OwnName
  <1>2. TypeInv /\ IndexInv /\ [Next]_vars => IndexInv'
    BY IndexStep, OwnNameStep DEF IndexInv
  <1>3. TypeInv /\ TypeInv' /\ IndexInv /\ LockInv /\ [Next]_vars => LockInv'
    BY RecordLockStep, CopyLockStep DEF LockInv
  <1>4. TypeInv /\ TypeInv' /\ LockInv /\ [Next]_vars =>
          [\A u \in UserId :
             RunningLock(u) /\ users'[u].lockedUntil + Delay < users[u].lockedUntil =>
                 \/ \E c \in ResetCode : resets[c] # None /\ resets[c].user = u
                                         /\ ~resets[c].used /\ resets'[c].used
                 \/ \E r \in Request :
                       /\ req[r].pc \in {"verify", "put"} /\ req[r].target = u
                       /\ req[r].copy.lockedUntil < users[u].lockedUntil
                       /\ req'[r].pc # req[r].pc]_vars
    BY Lifted
  <1> QED
    BY <1>1, <1>2, <1>3, <1>4, InitType, NextType, PTL DEF Spec, LockLiftedOnlyByStale

=============================================================================
