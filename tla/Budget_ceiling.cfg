SPECIFICATION Spec
CONSTANTS
    Caller = {c1, c2}
    Job = {j1}
    Reservation = {r1, r2}
    NoJob = NoJob
    NoCaller = NoCaller
    NoReservation = NoReservation
    Limit = 1
    CallLimit = 1
    Months = 1
    MaxFaults = 0
INVARIANTS
    CeilingHolds
CHECK_DEADLOCK FALSE
