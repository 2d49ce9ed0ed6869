SPECIFICATION Spec
CONSTANTS
    c1 = c1
    c2 = c2
    a = a
    b = b
    r1 = r1
    r2 = r2
    k1 = k1
    NoKey = NoKey
    None = None
PROPERTY EveryCallEnds
CHECK_DEADLOCK FALSE
