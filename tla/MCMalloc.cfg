\* 3 and 5 take small blocks, 9 a big block of one page, 14 one of two pages;
\* the number of pages for 63 wraps to 1.
CONSTANTS
    PageCnt = 3
    PGSIZE = 16
    Header = 4
    MinBlock = 3
    SizeLimit = 64
    Sizes = {0, 3, 5, 9, 14, 63}
    CallocArgs <- SmallArgs
    MaxLive = 5
SPECIFICATION Spec
INVARIANTS Inv SizeHonoured
CHECK_DEADLOCK FALSE
