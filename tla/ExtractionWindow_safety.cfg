SPECIFICATION Spec
CONSTANTS
    Worker = {w1, w2}
    NoWorker = NoWorker
    MaxMessages = 2
    MaxJobs = 3
    WindowSize = 2
    WindowLimit = 2
    UserTurn = {1}
    Remember = {2}
    MaxRequests = 2
    MaxFaults = 2
SYMMETRY Interchangeable
INVARIANTS
    TypeOK
    AppliedOnce
    NoDuplicateWork
    NoFullWindowWaits
CHECK_DEADLOCK FALSE
