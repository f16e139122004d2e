CONSTANTS
    Dirs <- MCDirs
    Root = "r"
    ParentOf <- MCParentOf
    PathOrder <- MCPathOrder
    FileNames = {"Android.bp", ".out-dir"}
    IncludeFiles = {"Android.bp"}
    PruneFiles = {".out-dir"}
    MayFail = {"ReadDir"}
    Worlds <- MCSteadyWorlds
    MaxClock = 4
SPECIFICATION Spec
INVARIANTS
    ExactAnswers
CHECK_DEADLOCK FALSE
