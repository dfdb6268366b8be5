SPECIFICATION HSpec
CHECK_DEADLOCK FALSE
CONSTANTS
    Keyvs = {k1, k2}
    Stats = {s1, s2}
    Kinds = {hit}
    Names = {x, y, z}
    NoKey = NoKey
    Caps = {0, 2}
    Nobody = Nobody
    MaxCount = 4
INVARIANTS
    ListenersAccounted
    MapIsLru
SYMMETRY Symmetry
