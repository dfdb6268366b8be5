SPECIFICATION Spec
CHECK_DEADLOCK FALSE
CONSTANTS
    Callers = {a, b}
    Keys = {1}
    Leases <- MCLeases
    Second = 2
    Lives = {3}
    DefaultTtl = 2
    LaterTtl = {0}
    MaxTime = 3
    Batches = {{1}}
    Faulty = TRUE
INVARIANTS
    LeaseOutlivesDeadline
    SetTruthful
SYMMETRY Symmetry
