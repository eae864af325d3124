CONSTANTS
    Pids = {1, 2, 3, 4}
    MaxLines = 2
    Jobs <- SmallJobs
SPECIFICATION FairSpec
INVARIANTS Inv PipesWired
PROPERTIES ShellReaps
CHECK_DEADLOCK FALSE
