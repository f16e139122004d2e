SPECIFICATION FairSmartSpec
CONSTANTS
    Actions = {a1, a2}
    Heights <- MCHeights
    Requests <- MCRequests
    MaxResizes = 2
INVARIANTS
    RegionFits
    RestoredAfterFlush
PROPERTIES
    FlushReturns
    TableCatchesUp
