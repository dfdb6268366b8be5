SPECIFICATION FairSpec
CONSTANTS
  q1 = q1
  q2 = q2
  t1 = t1
  t2 = t2
  None = None
  Queries = {q1, q2}
  Tables = {t1, t2}
  InitFails = TRUE
  MaxPools = 4
  MaxTransitions = 2
  MaxDisconnects = 2
INVARIANTS PoolsOutliveQueries NoPoolLeaks TableReady DisconnectSticks
PROPERTIES AllSettle
CHECK_DEADLOCK FALSE
