CONSTANTS
    p1 = p1  p2 = p2
    Crates = {1, 2}
    Versions <- SmallVersions
    Yankable <- LatestVersions
    Workers = {p1, p2}
    ChunkSize = 1
    MaxFaults = 1
SPECIFICATION Spec
INVARIANT MarkedIsReported
