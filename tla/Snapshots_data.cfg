SPECIFICATION Spec
CONSTANTS
  t1 = t1
  t2 = t2
  Triple <- Triples
  MaxOps = 3
INVARIANTS TidsConverge NothingLost
CHECK_DEADLOCK FALSE
