SPECIFICATION FairSpec

CONSTANTS
    Gen <- Pairs
    Renew = {renew}
    Service = service
    renew = renew
    Lifetime = 5
    Margin = 2
    Period <- Months
    MaxMishaps = 2
    Absent = Absent
    Torn = Torn

INVARIANTS
    TypeOK
    PairOnDisk
    DiskHardlyExpired

PROPERTIES
    StartsFresh
    UpAgain
