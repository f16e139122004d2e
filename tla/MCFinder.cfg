CONSTANTS
    Dirs <- MCDirs
    Root = "r"
    ParentOf <- MCParentOf
    PathOrder <- MCPathOrder
    FileNames = {"Android.bp", ".out-dir"}
    IncludeFiles = {"Android.bp"}
    PruneFiles = {".out-dir"}
    MayFail = {}
    Worlds <- MCWorlds
    MaxClock = 5
SPECIFICATION FairSpec
INVARIANTS
    ExactAnswers
    ErrorsAreReal
    NoNeedlessDump

    
CHECK_DEADLOCK FALSE
