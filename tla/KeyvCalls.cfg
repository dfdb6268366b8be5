SPECIFICATION HSpec
CONSTANTS
  c1 = c1
  c2 = c2
  k1 = k1
  k2 = k2
  Never = Never
  NoEntry = NoEntry
  Clients = {c1}
  Keys = {k1, k2}
  Kinds <- EveryKind
  Ttls <- SomeTtls
  DefaultTtl = 1
  CheckExpired = TRUE
  AdapterExpires = TRUE
  AdapterFails = TRUE
  ErrorModes = {"emit", "throw"}
  MaxTime = 2
  MaxWrites = 2
INVARIANTS TypeOk  MissesJustified
 
CHECK_DEADLOCK FALSE
