SPECIFICATION Spec
CHECK_DEADLOCK FALSE
CONSTANTS
  c1 = c1
  c2 = c2
  Never = Never
  Absent = Absent
  Callers = {c1, c2}
  Keys = {1, 3}
  Foreign = {2}
  Stores = {"redis", "redisCluster", "redisAll", "valkey", "valkeySets", "memcache", "dynamo", "kvBind", "kvRest", "mongo", "gridfs", "bridgeFull", "bridgeMap", "bridgeBare"}
  Second = 2
  Month = 1
  SixHours = 3
  WriteBatch = 1
  MinimumNative = 0
  UnusedFor = 1
  Lives <- SomeLives
  Faulty = TRUE
  StartTime = 1
  MaxTime = 2
  Batches <- SomeBatches
  Asks <- SomeAsks
  Kinds <- MixedKinds
  MaxWrites <- SomeWrites
INVARIANTS  DeadlinesKept ClearComplete  IteratorComplete MissesJustified
PROPERTIES CleanUpTakesStale
