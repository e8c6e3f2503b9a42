SPECIFICATION FairSpec

CONSTANTS
    k1 = k1
    k2 = k2
    Key = {k1, k2}
    Attempt <- Attempts
    Maximum = 3
    Window = 3

INVARIANTS
    LimitHolds
    RefusedForCause

PROPERTIES
    LetInAgain
