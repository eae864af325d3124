\* Two threads compete for the channel; one spurious interrupt at any moment.
CONSTANTS
    t1 = t1
    t2 = t2
    s1 = s1
    s2 = s2
    v1 = v1
    v2 = v2
    None = None
    Thread = {t1, t2}
    Boot = t1
    Sector = {s1}
    Value = {v1, v2}
    MaxOps = 3
    MaxSpurious = 1
SPECIFICATION FairSpec
INVARIANTS Inv TransfersCorrect
PROPERTIES OperationsEnd
CHECK_DEADLOCK FALSE
