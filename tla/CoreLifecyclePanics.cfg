SPECIFICATION FairSpec
CONSTANTS
    a = a
    b = b
    d = d
    s1 = s1
    s2 = s2
    s3 = s3
    Callers <- TwoCallers
    Services <- TwoServices
    PanicsOccur = TRUE
    NoSvc = NoSvc
    Free = Free
INVARIANTS NoCallbackAfterReturn
PROPERTIES CallsReturn
CHECK_DEADLOCK FALSE
