SPECIFICATION Spec
CONSTANTS
    Manifest <- Manifests
    Capability <- Capabilities
    CapabilityOrder <- Order
    MaxActive = 1
    MaxLease = 1
    MaxTurn = 1
    Thread = {t1, t2}
    Handler = {h}
    Compatible <- OfThisProfile
    HasEngine = TRUE
    Effectful <- WriteOnly
    Async <- WriteOnly
    Receipt <- Receipts
    None = None
SYMMETRY ThreadSymmetry
INVARIANTS
    AtMostOncePerReceipt
    RedeemedOnlyToRun
