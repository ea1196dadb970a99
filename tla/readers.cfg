SPECIFICATION ReadersSpec
CONSTANTS
    Items <- TwoItems
    MaxRemovals = 1
    MaxCalls = 3
    NoReader = NoReader
    NoSnapshot = NoSnapshot
    NoDelta = NoDelta
INVARIANTS
    ReadersTypeOK
    RowsWereTrue
    FailuresExplained
    DeltaApplies
    DeltaPossible
    NoCycle
CHECK_DEADLOCK FALSE
