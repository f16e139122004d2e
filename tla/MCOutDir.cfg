CONSTANTS
    Runs = {1, 2, 3}
    Configs <- MCConfigs
    KatiSuffixes = {"-a", "-b"}
    SuffixOf <- MCSuffixOf
    Paths <- MCPaths
    Revisions <- MCRevisions
    Commands = {"build", "skip_ninja", "skip_kati", "installclean", "clean"}
    MaxBackups = 2
    MaxAlive = 2
SPECIFICATION Spec
INVARIANTS
    
    
    LogsInOrder
    OneProcessPerLockFile
CHECK_DEADLOCK FALSE
