SPECIFICATION HSpec
CHECK_DEADLOCK FALSE
CONSTANTS
  c1 = c1
  c2 = c2
  k1 = k1
  k2 = k2
  a1 = a1
  a2 = a2
  Never = Never
  Anyone = Anyone
  Callers = {c1, c2}
  Keyvs = {k1, k2}
  Adapters = {a1, a2}
  Names <- SomeNames
  Keys <- SomeKeys
  Patterns = {"sql", "path"}
  Strip <- SomeStrip
  CacheMax = 1
  Sizes = {1, 2, 3}
  Hashes <- SomeHashes
  Scenes <- SomeScenes
  Lifetimes = {0, Never}
  MaxTime = 1
  MaxWrites = 2
INVARIANTS Placed NamespaceInStep SanitizerTrue Isolated IteratorComplete
PROPERTY OwnRowsOnly
