\* Two directory slots for two names; files of up to two sectors on a disk that
\* two of them fill; two open files; one crash.
CONSTANTS
    a = a
    b = b
    h1 = h1
    h2 = h2
    v = v
    None = None
    NSec = 4
    Name = {a, b}
    DirSlots = 2
    MaxLen = 2
    Handle = {h1, h2}
    Value = {v}
    MaxCrash = 1
SPECIFICATION Spec
SYMMETRY Symmetric
VIEW Seen
INVARIANTS Inv SectorsAccounted ContentsKept
\* A disk whose sectors are all lost, with an empty directory, accepts nothing.
CHECK_DEADLOCK FALSE
