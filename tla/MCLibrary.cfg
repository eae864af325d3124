CONSTANTS
    HashElem <- Elements
    KeyOf <- KeyNumber
    HashOf <- HashKey
    MIN_BUCKETS = 1
    BEST_ELEMS_PER_BUCKET = 1
    HALF = 4
    BLOCK_SECTOR_SIZE = 3
    DataSize = 3
    NameMax = 3
    SizeDigits = 3
    ULONG_MAX = 4095
    INT_MAX = 255
    SectorRange = 16
    MaxNesting = 3
    Elem = {e1, e2, e3, e4}
    List = {a, b}
    Null = Null
    CHAR_BITS = 4
    SHORT_BITS = 6
    INT_BITS = 8
    INTMAX_BITS = 9
    BufSize = 8
    PerLine = 4
    Kilo = 3
    AuxSize = 3
    ELEM_BITS = 2
    StateSize = 4
    QueueRoom = 2
    COL_CNT = 3
    ROW_CNT = 2
    TabStop = 2
    CursorByte = 4
    PIT_HZ = 150
    PitLow = 10
    CountRange = 16
    TIMER_FREQ = 3
    Thousand = 4
    UintBits = 9
    FirstBit = 3
    RefineBits = 4
    WordRange = 8
    KernelCap = 5
    OneMeg = 4
    RamCap = 32
    PerTable = 4
    BootTables = 2
    TableFrame = 4
    KernelFrame = 6
    PhysBase = 16
    INTR_CNT = 64
    Inputs <- AllInputs
SPECIFICATION LibrarySpec
SYMMETRY Symmetry
VIEW Seen
INVARIANTS ContainersCorrect StorageExact AlgorithmsExact DevicesExact StartupExact
PROPERTIES ImplementsListSpec
