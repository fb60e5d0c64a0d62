SPECIFICATION FairSpec
CONSTANTS
    Caller = {c1, c2}
    DnsSlots = 1
    MaxAttempts = 2
    MaxLost = 1
    MaxEntries = 2
    MaxCalls = 2
    None = None
    Name = {"x"}
    Digest = {"d1", "d2"}
    MaxCrashes = 1
    MaxStuck = 1
INVARIANTS
    SlotsAccounted
    TokenizerFetchedOnce
    FilesExplained
    ArtifactOnDisk
PROPERTIES
    NeverOverwritten
    EveryCallEnds
    SlotsReturn
CHECK_DEADLOCK FALSE
