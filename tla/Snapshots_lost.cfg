SPECIFICATION Spec
CONSTANTS
  t1 = t1
  t2 = t2
  Triple <- Triples
  MaxOps = 3
INVARIANT NoTripleLost
CHECK_DEADLOCK FALSE
