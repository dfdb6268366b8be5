SPECIFICATION Spec
CONSTANTS
  a1 = a1
  a2 = a2
  f1 = f1
  f2 = f2
  NoPool = NoPool
  Adapters = {a1, a2}
  Configs = {f1, f2}
  EndsAll = FALSE
  SwitchesUri = FALSE
  MaxPools = 3
INVARIANTS PoolLivesWithAdapter
CHECK_DEADLOCK FALSE
