SPECIFICATION Spec

CONSTANTS
    Retention = 2
    MaxEvents = 3
    Interval = 2
    PageEvents = 4
    MaxLog = 5
    MaxBack = 1
    MaxFails = 1

INVARIANTS
    TypeOK
    KeptInTime

PROPERTIES
    CapAfterPrune
    KeepsNewest
