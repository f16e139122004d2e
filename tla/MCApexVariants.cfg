CONSTANTS
    Modules <- MCModules
    Worlds <- MCWorlds
SPECIFICATION VariantsSpec
INVARIANTS
    
    NoApexLost
    
CHECK_DEADLOCK FALSE
