SPECIFICATION Spec
CONSTANTS
    Attempts <- ThreeAttempts
    Timeout = 1
    StaleAfter = 2
    Prompt = TRUE
    MaxFaults = 1
    NoDir = NoDir
    NoOwner = NoOwner
    a1 = a1
    a2 = a2
    a3 = a3
INVARIANTS
    MutualExclusion
