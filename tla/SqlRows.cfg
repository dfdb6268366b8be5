SPECIFICATION HSpec
CONSTANTS
  c1 = c1
  c2 = c2
  Never = Never
  None = None
  Clients = {c1, c2}
  Keys = {1, 2}
  Kinds <- MixedKinds
  Lifetimes = {1}
  GuardedDelete = TRUE
  ReadBatch = 1
  WriteBatch = 1
  DeleteBatch = 1
  Limit = 1
  QueriesFail = TRUE
  LostAnswers = TRUE
  MaxTime = 1
  MaxWrites = 2
INVARIANTS DeletesConserved WritesTruthful MissesJustified IteratorComplete
PROPERTIES LiveRowsKept
CHECK_DEADLOCK FALSE
