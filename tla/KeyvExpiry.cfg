SPECIFICATION HSpec
CONSTANTS
  c1 = c1
  c2 = c2
  k1 = k1
  k2 = k2
  Never = Never
  NoEntry = NoEntry
  Clients = {c1, c2}
  Keys = {k1}
  Kinds <- ExpiryKinds
  Ttls <- ShortTtl
  DefaultTtl = Never
  CheckExpired = TRUE
  AdapterExpires = FALSE
  AdapterFails = TRUE
  ErrorModes = {"throw"}
  MaxTime = 2
  MaxWrites = 2
INVARIANTS NoExpiredAnswer
PROPERTIES  ReadsTakeOnlyNewcomers
SYMMETRY ClientSymmetry
CHECK_DEADLOCK FALSE
