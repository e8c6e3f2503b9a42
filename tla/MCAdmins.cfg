SPECIFICATION MCSpec

CONSTANTS
    None = None
    Gone = Gone
    Revoked = Revoked
    a1 = a1
    a2 = a2
    p1 = p1
    r1 = r1
    r2 = r2
    u1 = u1
    Admins = {a1, a2}
    Members = {u1}
    UserId = {a1, a2, u1}
    Name = {a1, a2, u1}
    Password = {p1}
    Token = {a1, a2}
    InviteCode = {}
    ResetCode = {u1}
    SessionIdle = 2
    SessionMax = 3
    InviteLife = {2}
    ResetLife = 2
    maxLoginAttempts = 2
    lockDuration = 2
    Request = {r1, r2}
    Term = {}
    MaxTerminals = 1
    Routes = {"update-user", "revoke-user", "password-reset"}
    Faulty = {"put", "revoke", "session"}
    MaxTime = 1
    Delay = 0

INVARIANTS
    AdminInv
    AdminExists

PROPERTIES
    KeepsDirectory

CHECK_DEADLOCK FALSE
