SPECIFICATION MCSpec

CONSTANTS
    None = None
    Gone = Gone
    Revoked = Revoked
    c1 = c1
    c2 = c2
    n1 = n1
    n2 = n2
    n3 = n3
    p1 = p1
    r1 = r1
    r2 = r2
    s1 = s1
    u1 = u1
    u2 = u2
    u3 = u3
    Admins = {}
    Members = {}
    UserId = {u1, u2, u3}
    Name = {n1, n2, n3}
    Password = {p1}
    Token = {s1}
    InviteCode = {c1, c2}
    ResetCode = {}
    SessionIdle = 3
    SessionMax = 3
    InviteLife = {2}
    ResetLife = 2
    maxLoginAttempts = 2
    lockDuration = 2
    Request = {r1, r2}
    Term = {}
    MaxTerminals = 1
    Routes = {"bootstrap", "register", "create-invite", "delete-invite"}
    Faulty = {"session"}
    MaxTime = 3
    Delay = 1

INVARIANTS
    TypeOK
    NamesIndex
    OneInvitationEach
PROPERTIES
    ImplementsDirectory
CHECK_DEADLOCK FALSE
