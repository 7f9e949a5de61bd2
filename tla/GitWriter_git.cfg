CONSTANTS
    r1 = r1  r2 = r2  f1 = f1  f2 = f2
    Unborn = Unborn  Nobody = Nobody
    Files = {f1, f2}
    MaxVersion = 1
    Rounds = {r1, r2}
    Capacity = 1
    MaxFaults = 1
SPECIFICATION FairSpec
INVARIANTS
    MarkedIsOnDisk
    MarkedIsCommitted
PROPERTIES
    HistoryOnlyGrows
    RoundsEnd
