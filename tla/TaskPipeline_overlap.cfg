CONSTANTS
    v1 = v1  v2 = v2  s1 = s1  s2 = s2
    io1 = io1  io2 = io2  cpu1 = cpu1  cpu2 = cpu2
    NoVersion = NoVersion
    Versions = {v1}
    Slots = {s1, s2}
    IoWorkers = {io1, io2}
    CpuWorkers = {cpu1, cpu2}
    SlotOf <- TwoSlots
    PageSize = 1
    MaxAttempts = 1
    MaxRetries = 2
    MaxCrashes = 1
    MaxDbFailures = 1
    MaxFaults = 1
SYMMETRY Symmetric
SPECIFICATION Spec
INVARIANTS
    
    
    OncePerRound
    NoOrphan

    
