SPECIFICATION Spec
CONSTANTS
    Caller = {c1, c2}
    Owner <- Owners
    Scope <- Scopes
    Tier <- Tiers
    Target <- Targets
    Permission <- Permissions
    Kind = {"calls"}
    Request <- Requests
    Plan <- Plans
    PlanObject <- Exact
    Policy <- Policies
    Approval <- Approvals
    Charges <- Distinct
    None = None
    Grant <- Grants
    LegacyGrants <- Legacy
    MaxTime = 1
    MaxDenials <- Denials
SYMMETRY CallerSymmetry
INVARIANTS
    ApprovalSingleUse
    GrantsAreAuthorized
    AuditMatchesTables
    QuotaAccounted
    QuotaHeld
PROPERTIES
    ReceiptsMoveForward
    ImplementsAuthority
