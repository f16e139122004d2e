CONSTANTS
    Calls <- MCCalls
    Keys = {"k1", "k2"}
    KeyOf <- MCKeyOf
    OpOf <- MCOpOf
    Nested <- MCNested
    MayPanic = {"a", "b", "e"}
SPECIFICATION FairSpec
INVARIANTS
    AgreedResults
    NoInvalidWaiter
PROPERTIES
    ImplementsCell
    EveryCallEnds
\* All calls may have ended.
CHECK_DEADLOCK FALSE
