SPECIFICATION Spec
CONSTANTS
    Process = {p1, p2}
    MaxMemories = 3
    MaxRevisions = 5
    MaxTime = 2
SYMMETRY Interchangeable
INVARIANTS
    TypeOK
    ChainsEnd
    NoLostUpdate
PROPERTIES
    HandedOver
    RestoreUndoes
CHECK_DEADLOCK FALSE
