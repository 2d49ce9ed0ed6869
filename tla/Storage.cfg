SPECIFICATION Spec
CONSTANTS
    a = a
    b = b
    n1 = n1
    n2 = n2
    d1 = d1
    c1 = c1
    None = None
SYMMETRY Symmetry
INVARIANTS SessionIsAccurate EditsSurvive
PROPERTY OverwritesIdle
CHECK_DEADLOCK FALSE
