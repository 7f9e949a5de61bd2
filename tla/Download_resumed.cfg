CONSTANTS
    w1 = w1  w2 = w2  b1 = b1  b2 = b2  Hole = Hole
    Writers = {w1}
    Bodies = {b1, b2}
    FirstBody = b1
    Size <- FewChunks
    Resumes = TRUE
    MaxFaults = 6
SPECIFICATION OneBodyPerFile
INVARIANTS
    FileIsPrefix
    ResultMatchesFile
PROPERTIES
    NothingIsRepeated
    EventuallyWhole
    ImplementsOutcome
