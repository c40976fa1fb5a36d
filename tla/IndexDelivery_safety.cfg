SPECIFICATION Spec
CONSTANTS
    Worker = {w1, w2}
    Memory = {m1}
    Message = {}
    Scope = {s1, s2}
    NoWorker = NoWorker
    Batch = 1
    MaxAttempts = 2
    MaxRevisions = 3
    MaxOps = 3
    MaxFaults = 2
    MaxRebuilds = 1
    MaxLost = 0
SYMMETRY Interchangeable
INVARIANTS
    TypeOK
    Mirrored
    GenerationIsCurrent
PROPERTIES
    MirrorSpec
CHECK_DEADLOCK FALSE
