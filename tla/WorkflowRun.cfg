SPECIFICATION Spec
CONSTANTS
    Runs = {r1, r2}
    Variants = {1, 2}
    MaxRevision = 2
    MaxSessions = 2
INVARIANT Deterministic
PROPERTIES PublishedFromCurrent RunsEnd
CHECK_DEADLOCK FALSE
