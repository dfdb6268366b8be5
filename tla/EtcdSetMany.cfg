SPECIFICATION Spec
CHECK_DEADLOCK FALSE
CONSTANTS
    Callers = {a}
    Keys <- MCKeys
    Leases <- MCLeases
    Second = 2
    Lives = {1}
    DefaultTtl = 0
    LaterTtl = {}
    MaxTime = 2
    Batches <- MCPairs
    Faulty = TRUE
INVARIANT
    SetManyTruthful
