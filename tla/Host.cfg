SPECIFICATION FairHostSpec
CONSTANTS
    Manifest <- Manifests
    Capability <- Capabilities
    CapabilityOrder <- Order
    MaxActive = 1
    MaxLease = 3
    MaxTurn = 3
    LeaseTurns = {2, 3, 4}
    Thread = {t1, t2, t3}
    Handler = {h}
    Compatible <- OfThisProfile
    HasEngine = TRUE
    Effectful <- WriteOnly
    Async <- WriteOnly
    Receipt <- Receipts
    None = None
    QuotaLimit = 1
    HasResolver = TRUE
INVARIANTS
    TurnsNeverRegress
    ChargedTargetStaysLive
    EffectsWithinQuota
    ChargesExplained
    EventsMatchAnswers
PROPERTIES
    HostImplementsAuthority
    EveryRequestEnds
CHECK_DEADLOCK FALSE
