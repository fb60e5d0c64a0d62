SPECIFICATION FairSpec
CONSTANTS
    ProviderCount = 2
    Corpora <- MCCorpora
    Kinds <- MCKinds
    HitCost <- MCHitCost
    DescriptorCost <- MCDescriptorCost
    Overhead <- MCOverhead
    FailureCost = 4
    Budget = 6
    PageLimit = 2
    MaxPages = 2
    MaxResults = 3
    MaxFailures = 2
INVARIANTS
    NothingSkipped
    RepeatedOnlyWhenWhole
PROPERTIES
    SearchEndsAlone
    EveryRecordReachedAlone
CHECK_DEADLOCK FALSE
