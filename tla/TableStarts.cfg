SPECIFICATION StartSpec
CHECK_DEADLOCK FALSE
CONSTANTS
  a1 = a1
  a2 = a2
  a3 = a3
  Adapters = {a1, a2, a3}
  Scenes <- SomeScenes
  MaxStarts = 4
  MaxCrashes = 1
  MaxRefusals = 1
INVARIANTS StartsComplete StartsIndependent RowsKept
SYMMETRY Symmetry
