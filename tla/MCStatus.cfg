CONSTANTS
    Actions <- MCActions
    Tools <- MCTools
    ToolOf <- MCToolOf
    Totals = {0, 1, 3}
SPECIFICATION Spec
INVARIANTS
    TotalCoversStarted
    CountsAreExact
    AccumulatesTools
\* Every tool may have finished.
CHECK_DEADLOCK FALSE
