SPECIFICATION MCSpec

CONSTANTS
    None = None
    Gone = Gone
    Revoked = Revoked
    a1 = a1
    k1 = k1
    p1 = p1
    p2 = p2
    r1 = r1
    r2 = r2
    Admins = {a1}
    Members = {}
    UserId = {a1}
    Name = {a1}
    Password = {p1, p2}
    Token = {a1}
    InviteCode = {}
    ResetCode = {k1}
    SessionIdle = 4
    SessionMax = 4
    InviteLife = {2}
    ResetLife = 2
    maxLoginAttempts = 2
    lockDuration = 2
    Request = {r1, r2}
    Term = {}
    MaxTerminals = 1
    Routes = {"update-user", "reset-user", "login", "password-reset"}
    Faulty = {"session"}
    MaxTime = 4
    Delay = 1

PROPERTIES
    LockLiftedOnlyByStale
