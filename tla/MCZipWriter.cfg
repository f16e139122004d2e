CONSTANTS
    Entries <- MCEntries
    NumParallelJobs = 2
    MemoryCapacity = 2
    WriteOpsCap = 2
    Fallible = {1, 2, 3, 4, 5}
    OutputMayFail = TRUE
SPECIFICATION FairSpec
INVARIANTS
    ArchiveInOrder
    
    LimitsHold
    PanicOnlyAfterError
PROPERTY
    Terminates
\* The command exits.
CHECK_DEADLOCK FALSE
