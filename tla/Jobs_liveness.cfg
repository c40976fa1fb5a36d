SPECIFICATION FairSpec
CONSTANTS
    j1 = j1
    j2 = j2
    Job = {j1, j2}
    Worker = {w1}
    NoJob = NoJob
    NoWorker = NoWorker
    Kind <- ReindexAndErasure
    CallLimit <- OneCall
    MaxFaults = 2
    MaxCalls = 1
PROPERTIES
    QueuedCancellationHonoured
    EveryJobSettles
CHECK_DEADLOCK FALSE
