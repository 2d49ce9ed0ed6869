SPECIFICATION Spec
CONSTANTS
    Documents = {d1}
    Datasets = {}
    Commands = {"move"}
    NoBody = NoBody
    External = External
    MaxEdits = 2
    MaxFlushes = 1
    MaxExternal = 1
    MaxFaults = 1
PROPERTY FlushSettles
CHECK_DEADLOCK FALSE
