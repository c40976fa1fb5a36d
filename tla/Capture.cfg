SPECIFICATION CaptureSpec
CONSTANTS
    Hook = {h1, h2}
    MaxDelta = 2
    MaxEvents = 1
    Aliased = TRUE
    MaxSize = 3
    MaxChanges = 1
    MaxMishaps = 1
SYMMETRY Interchangeable
INVARIANTS
    CaptureTypeOK
    NothingSkipped
    ClosedIsComplete
    ExplicitStaysPut
    OnlyTailsWait
CHECK_DEADLOCK FALSE
