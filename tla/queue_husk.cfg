SPECIFICATION CrashSpec
CONSTANTS
    Items <- ThreeItems
    Priority <- ThreePriorities
    Dependencies <- TwoNeedsOne
    ExclusiveScopes <- OneAndThreeShare
    RequiredCapabilities <- OneNeedsPython
    Agents <- TwoAgents
    Capabilities <- TwoKnowsPython
    Controllers <- OneController
    Leases <- LeaseOfOne
    Sessions <- NoSession
    Generations <- TwoGenerations
    OwnersOf <- NoOwners
    Legacy = Legacy
    EnqueuedAs <- PlainItems
    MaxClaims = 2
    MaxCrashes = 1
    NoClaim = NoClaim
    Nobody = Nobody
    w1 = w1
    w2 = w2
    s1 = s1
    api = api
    db = db
    python = python
INVARIANTS
    ReadyIsClaimable
