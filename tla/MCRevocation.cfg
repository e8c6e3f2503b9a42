SPECIFICATION MCFairSpec

CONSTANTS
    None = None
    Gone = Gone
    Revoked = Revoked
    a1 = a1
    p1 = p1
    r1 = r1
    r2 = r2
    u1 = u1
    w1 = w1
    Admins = {a1}
    Members = {u1}
    UserId = {a1, u1}
    Name = {a1, u1}
    Password = {p1}
    Token = {a1, u1}
    InviteCode = {}
    ResetCode = {}
    SessionIdle = 2
    SessionMax = 3
    InviteLife = {2}
    ResetLife = 2
    maxLoginAttempts = 2
    lockDuration = 2
    Request = {r1, r2}
    Term = {w1}
    MaxTerminals = 1
    Routes = {"update-user", "terminal", "logout"}
    Faulty = {"put"}
    MaxTime = 1
    Delay = 0

INVARIANTS
    ThrownOutCannotType

PROPERTIES
    RequestsEnd
    ThrownOutIsNotHeard

CHECK_DEADLOCK FALSE
