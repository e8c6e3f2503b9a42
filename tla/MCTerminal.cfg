SPECIFICATION FairSpec

CONSTANTS
    s1 = s1
    Session = {s1}
    MaxPerUser = 1
    NoSession = NoSession

INVARIANTS
    TypeOK
    WritesToOpenPTY
    OneClose
    RunningIsListed

PROPERTIES
    SlotFreed
    DisconnectNoticed
    CloseUserReturns
