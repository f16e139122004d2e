SPECIFICATION FairSpec
CONSTANTS
    Edges = {e1, e2}
    PipeSize = 2
    MaxGarbled = 1
INVARIANTS
    CallsWellFormed
    
PROPERTIES
    RunEnds
