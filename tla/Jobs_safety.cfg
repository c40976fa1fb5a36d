SPECIFICATION Spec
CONSTANTS
    j1 = j1
    j2 = j2
    Job = {j1, j2}
    Worker = {w1, w2}
    NoJob = NoJob
    NoWorker = NoWorker
    Kind <- ExtractionAndErasure
    CallLimit <- OneCall
    MaxFaults = 2
    MaxCalls = 1
SYMMETRY Workers
INVARIANTS
    TypeOK
    WriterKeepsClaim
    OneCurrentRunner
    AcceptedErasureNotCancelled
PROPERTIES
    QueueSpec
    RunningLeftByHolder
CHECK_DEADLOCK FALSE
