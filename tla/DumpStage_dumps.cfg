CONSTANTS
    c1 = c1  c2 = c2  c3 = c3
    Days = {1, 2, 3}
    LastBody = 2
    Size <- Growing
    Crates = {c1, c2, c3}
    Contents <- Changing
    MaxTries = 2
    MaxFaults = 2
SPECIFICATION FairSpec
INVARIANTS
    TableIsWhole
PROPERTIES
    RowsNeverGoBack
    DumpOnlyGrows
    OldDumpsGo
    EventuallyIngested
