SPECIFICATION MCSpec

CONSTANTS
    None = None
    Gone = Gone
    Revoked = Revoked
    a1 = a1
    p1 = p1
    p2 = p2
    r1 = r1
    r2 = r2
    u1 = u1
    Admins = {a1}
    Members = {u1}
    UserId = {a1, u1}
    Name = {a1, u1}
    Password = {p1, p2}
    Token = {a1}
    InviteCode = {}
    ResetCode = {u1}
    SessionIdle = 2
    SessionMax = 3
    InviteLife = {2}
    ResetLife = 2
    maxLoginAttempts = 2
    lockDuration = 2
    Request = {r1, r2}
    Term = {}
    MaxTerminals = 1
    Routes = {"update-user", "password-reset"}
    Faulty = {"session"}
    MaxTime = 1
    Delay = 0

PROPERTIES
    PasswordChangedByResetOnly
CHECK_DEADLOCK FALSE
