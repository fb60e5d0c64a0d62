SPECIFICATION Spec
CONSTANTS
    Worker = {w1, w2}
    Creation <- Everyone
    Path = {f1}
    Content <- TwoFiles
    Provenance = {p1}
    MaxSequence = 2
    MaxTime <- TwoTimes
SYMMETRY WorkerSymmetry
INVARIANTS
    HistoryComplete
    UpdateWonOnce
    ArtifactsBelong
PROPERTIES
    ImplementsJournal
    ImplementsAuthorized
