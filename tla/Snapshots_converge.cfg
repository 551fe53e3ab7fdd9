SPECIFICATION Spec
CONSTANTS
  t1 = t1
  t2 = t2
  Triple <- Triples
  MaxOps = 3
INVARIANT Converged
CHECK_DEADLOCK FALSE
