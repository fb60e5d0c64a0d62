SPECIFICATION Spec
CONSTANTS
    Caller = {c1, c2}
    Owner <- Owners
    Scope <- Scopes
    Tier <- Tiers
    Target <- Targets
    Permission <- Permissions
    Kind = {"calls"}
    Request <- Requests
    Plan <- Plans
    PlanObject <- Exact
    Policy <- Policies
    Approval <- Approvals
    Charges <- Repeating
    None = None
    Grant <- RepeatedKind
    LegacyGrants <- NoGrants
    MaxTime = 1
    MaxDenials <- Denials
SYMMETRY CallerSymmetry
INVARIANTS
    QuotaHeld
