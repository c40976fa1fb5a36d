SPECIFICATION FairSpec
CONSTANTS
    Worker = {w1, w2}
    Memory = {m1}
    Message = {g1}
    Scope = {s1}
    NoWorker = NoWorker
    Batch = 2
    MaxAttempts = 2
    MaxRevisions = 1
    MaxOps = 2
    MaxFaults = 1
    MaxRebuilds = 1
    MaxLost = 1
PROPERTIES
    EveryOperationConcludes
CHECK_DEADLOCK FALSE
