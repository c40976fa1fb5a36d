SPECIFICATION Spec
CONSTANTS
    User = {u1, u2}
    Scope = {s1}
    Public = {s1}
    Writer = {w1}
    Asker = {a1, a2}
    MaxRequests = 2
SYMMETRY Interchangeable
INVARIANTS
    TypeOK
PROPERTIES
    DelayedWritesArePermitted
CHECK_DEADLOCK FALSE
