SPECIFICATION MCSpec
CONSTANTS
  c3 = c3
  Clone = {c1, c2, c3}
  Triple <- Triples
  Assertions <- SomeAssertions
  MaxOps = 6
  MaxWrites = 3
  MaxTicks = 1
INVARIANTS TidsAreOrSet GraphShowsTids Converged AddWins TicksIdentifyOps Resolved
PROPERTIES AppliedOnlyGrows DeliveredInOrder EveryoneCatchesUp
CHECK_DEADLOCK FALSE
