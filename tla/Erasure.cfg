SPECIFICATION Spec
CONSTANTS
    Worker = {w1, w2}
    Job = {j1, j2}
    Export = {e1}
    NoWorker = NoWorker
    NoExport = NoExport
    NoJob = NoJob
    MaxRequests = 2
    NoArchive = NoArchive
    MaxFaults = 1
    MaxRestores = 1
SYMMETRY Interchangeable
INVARIANTS
    TypeOK
    GoneForGood
    ReceiptFirst
PROPERTIES
    SharedRecordKept
CHECK_DEADLOCK FALSE
