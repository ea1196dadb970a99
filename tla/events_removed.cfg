SPECIFICATION ReadersSpec
CONSTANTS
    Items <- TwoItems
    MaxRemovals = 1
    MaxCalls = 2
    NoReader = NoReader
    NoSnapshot = NoSnapshot
    NoDelta = NoDelta
INVARIANTS
    DeltaAnswered
CHECK_DEADLOCK FALSE
