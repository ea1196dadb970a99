SPECIFICATION FinalizeFairSpec
CONSTANTS
    Items <- OneItem
    Priority <- OnePriority
    Dependencies <- NoDependency
    ExclusiveScopes <- NoScope
    RequiredCapabilities <- NoCapability
    Agents <- OneAgent
    Capabilities <- OffersNothing
    Controllers <- NoController
    Leases <- LeaseOfOne
    Sessions <- NoSession
    Generations <- TwoGenerations
    OwnersOf <- NoOwners
    Legacy = Legacy
    EnqueuedAs <- PlainItems
    MaxClaims = 1
    MaxCrashes = 0
    NoClaim = NoClaim
    Nobody = Nobody
    Calls <- TwoCalls
    Requests <- TwoRequests
    ItemOf <- ForTheItem
    Looks = 1
    Views <- TwoViews
    Trees <- OneByOne
    EvidenceOf <- OfEitherTree
    Plans <- OnePlan
    PlanOf <- TheTracker
    Repeating <- TheSecond
    MaxDeaths = 1
    NoCall = NoCall
    NoRecord = NoRecord
    NoRequest = NoRequest
    w1 = w1
    s1 = s1
    c1 = c1
    c2 = c2
    r1 = r1
    r2 = r2
    t1 = t1
    t2 = t2
    tracker = tracker
PROPERTIES
    CompletionReconciled
    DriftNoticed
