SPECIFICATION Spec

CONSTANTS
    r1 = r1
    r2 = r2
    Request = {r1, r2}
    IdleTime = 3
    MaxTime = 8
    Extra = 2
    Delay = 2

SYMMETRY Symmetry

INVARIANT
    TypeOK

PROPERTIES
    AcceptedInTime
    RefusedInTime
    RevivedOnlyByEarlier
