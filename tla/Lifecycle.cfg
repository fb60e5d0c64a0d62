SPECIFICATION LifecycleSpec
CONSTANTS
    Manifest <- Manifests
    Capability <- Capabilities
    CapabilityOrder <- Order
    MaxActive = 2
    MaxLease = 3
    MaxTurn = 3
INVARIANTS
    OwnershipExact
    ActiveSetSound
PROPERTIES
    LeaseLossExplained
