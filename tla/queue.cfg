SPECIFICATION Spec
CONSTANTS
    Items <- ThreeItems
    Priority <- ThreePriorities
    Dependencies <- TwoNeedsOne
    ExclusiveScopes <- OneAndThreeShare
    RequiredCapabilities <- OneNeedsPython
    Agents <- TwoAgents
    Capabilities <- TwoKnowsPython
    Controllers <- OneController
    Leases <- LeaseOfTwo
    Sessions <- NoSession
    Generations <- TwoGenerations
    OwnersOf <- NoOwners
    Legacy = Legacy
    EnqueuedAs <- PlainItems
    MaxClaims = 3
    MaxCrashes = 0
    NoClaim = NoClaim
    Nobody = Nobody
    w1 = w1
    w2 = w2
    s1 = s1
    api = api
    db = db
    python = python
INVARIANTS
    TypeOK
    ScopesExclusive
    OneClaimPerWorker
    FinishedUnowned
    TokensSpentOnce
    ClaimNextAgrees
    ReadyIsClaimable
PROPERTIES
    DoneIsForever
    LeaseHonoured
    CancelledNotTakenUp
    OwnershipPromised
