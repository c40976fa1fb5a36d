SPECIFICATION FairSpec
CONSTANTS
    Caller = {c1, c2}
    Job = {j1}
    Reservation = {r1, r2}
    NoJob = NoJob
    NoCaller = NoCaller
    NoReservation = NoReservation
    Limit = 1
    CallLimit = 1
    Months = 2
    MaxFaults = 2
INVARIANTS
    TypeOK
    OvershootIsStray
    CallsAreCovered
PROPERTIES
    JobReservationsSettle
CHECK_DEADLOCK FALSE
