SPECIFICATION FrontendSpec
CONSTANTS
    MaxEpoch = 3
    MaxEdits = 2
    MaxCommits = 1
    MaxFaults = 2
    ProjectionsFail = TRUE
    r1 = r1
    r2 = r2
    k1 = k1
    NoKey = NoKey
INVARIANTS EditsAreKept CommitsArrive DirectoryIsAccurate 
PROPERTIES ReceivedOnce
CHECK_DEADLOCK FALSE
