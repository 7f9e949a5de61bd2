CONSTANTS
    a = a  b = b  t1 = t1  t2 = t2
    Crates = {a, b}
    Versions = {1, 2}
    LastCommit = 3
    Index <- SmallIndex
    Threads = {t1, t2}
    MaxFaults = 2
    LastDay = 1
SPECIFICATION FairSpec
INVARIANTS
    ListedIsStored
    NothingIsMissed
    CountsCoverToday
PROPERTIES
    CratesOnlyGrow
    EventuallyMirrored
