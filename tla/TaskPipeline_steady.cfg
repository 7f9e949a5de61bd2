CONSTANTS
    v1 = v1  v2 = v2  s1 = s1  s2 = s2
    io1 = io1  io2 = io2  cpu1 = cpu1  cpu2 = cpu2
    NoVersion = NoVersion
    Versions = {v1, v2}
    Slots = {s1}
    IoWorkers = {io1}
    CpuWorkers = {cpu1}
    SlotOf <- OneSlot
    PageSize = 3
    MaxAttempts = 2
    MaxRetries = 2
    MaxCrashes = 1
    MaxDbFailures = 0
    MaxFaults = 1
SPECIFICATION FairSpec
PROPERTIES
    
    RoundsDrain
