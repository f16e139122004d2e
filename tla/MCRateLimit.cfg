CONSTANTS
    Jobs <- MCJobs
    Size <- MCSize
    Capacity = 2
SPECIFICATION FairSpec
INVARIANTS
    ExactAccounting
    CapacityRespected
PROPERTY
    EveryRequestServed
\* All jobs may be done, or blocked in a limiter that was stopped.
CHECK_DEADLOCK FALSE
