SPECIFICATION Spec
CONSTANTS
    a = a
    b = b
    d = d
    s1 = s1
    s2 = s2
    s3 = s3
    Callers <- ThreeCallers
    Services <- ThreeServices
    PanicsOccur = FALSE
    NoSvc = NoSvc
    Free = Free
SYMMETRY Symmetry
INVARIANTS NoLostService
CHECK_DEADLOCK FALSE
