SPECIFICATION Spec
CONSTANTS
    Worker = {w1, w2}
    Creation <- EffectOnly
    Path = {f1}
    Content <- TwoFiles
    Provenance = {p1}
    MaxSequence = 2
    MaxTime <- OneTime
SYMMETRY WorkerSymmetry
INVARIANTS
    ArtifactDescribesBytes
