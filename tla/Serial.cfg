\* One writer, two readers; enough bytes to wrap both rings.
CONSTANTS
    w1 = w1
    w2 = w2
    r1 = r1
    r2 = r2
    NULL = NULL
    Writer = {w1}
    Reader = {r1, r2}
    BUFSIZE = 3
    MaxTx = 3
    MaxRx = 4
SPECIFICATION FairSpec
INVARIANTS NoLostInterrupt BytesInOrder
PROPERTIES WaitingReaderGetsKey
CHECK_DEADLOCK FALSE
