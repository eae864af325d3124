\* Two processes need up to nine pages of the kernel pool (a thread, a directory
\* and two tables each, and a name) and four to six of the user pool: every
\* allocation of process_execute and load fails in some behaviour, and in others
\* both processes run.
CONSTANTS
    Procs = {p1, p2}
    Main = main
    KernelCnt = 9
    MinKernel = 5
    UserCnt = 4
    Segments <- SmallPrograms
SPECIFICATION Spec
SYMMETRY Symmetric
VIEW Seen
INVARIANTS Inv AddressSpaceRight LoadsWhatWasAsked
