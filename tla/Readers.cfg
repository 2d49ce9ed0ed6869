SPECIFICATION ReadersSpec
CONSTANTS
    c1 = c1
    c2 = c2
    a = a
    b = b
    k1 = k1
    k2 = k2
    k3 = k3
    Procs = {p1, p2, p3}
    Files = {f1}
    Torn = TRUE
    None = None
INVARIANTS LiveIsUntouched AnswersAreOfOneGeneration WindowIsFresh CacheIsAccounted
PROPERTIES FramesAreCurrent FailureKeepsWarm
CHECK_DEADLOCK FALSE
