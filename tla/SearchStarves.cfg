SPECIFICATION FairSpec
CONSTANTS
    ProviderCount = 2
    Corpora <- BothHold
    Kinds <- MCKinds
    HitCost <- MCHitCost
    DescriptorCost <- MCDescriptorCost
    Overhead <- MCOverhead
    FailureCost = 2
    Budget = 8
    PageLimit = 2
    MaxPages = 1
    MaxResults = 3
    MaxFailures = 0
PROPERTIES
    EveryRecordReached
CHECK_DEADLOCK FALSE
