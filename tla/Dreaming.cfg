SPECIFICATION Spec
CONSTANTS
    Memory = {1, 2, 3}
    Job = {d1, d2}
    Worker = {w1, w2}
    Text = {t1}
    NoJob = NoJob
    NoWorker = NoWorker
    NoText = NoText
    MaxClusters = 2
    MaxTime = 2
    MaxFaults = 1
SYMMETRY Interchangeable
INVARIANTS
    TypeOK
    NothingMarkedUnseen
    InferredOnce
CHECK_DEADLOCK FALSE
