SPECIFICATION Spec
CONSTANTS
    Documents = {d1}
    Datasets = {s1}
    Commands = {"move", "delete", "table"}
    NoBody = NoBody
    External = External
    MaxEdits = 2
    MaxFlushes = 1
    MaxExternal = 1
    MaxFaults = 1
INVARIANTS FlushedIsDurable ClosedLosesNothing SavedMeansStored
PROPERTIES ImplementsDurableQueue FlushSettlesOrReports
CHECK_DEADLOCK FALSE
