\* Three pages, three clients, groups of one or two pages: groups of different
\* sizes overlap in every way.
CONSTANTS
    c1 = c1
    c2 = c2
    c3 = c3
    Client = {c1, c2, c3}
    None = None
    PageCnt = 3
    MaxCnt = 2
SPECIFICATION Spec
SYMMETRY Symmetric
INVARIANTS IndInv ContentsKept FailureIsReal
CHECK_DEADLOCK FALSE
