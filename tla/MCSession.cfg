CONSTANTS
    Workers = {"w1", "w2"}
    Products = {"p1", "p2"}
    MaxSignals = 5
SPECIFICATION FairSessionSpec
INVARIANTS
    
    PanicsNeedSignal
    ReportComplete
PROPERTIES
    SignalEndsProcess
