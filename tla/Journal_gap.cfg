SPECIFICATION Spec
CONSTANTS
  x = x
  y = y
  Triple <- OneTriple
  MaxOps = 3
  MaxEvents = 2
  MaxFootprint = 2
  Adverse = {"fused-after-gap"}
INVARIANT RevupComplete
CHECK_DEADLOCK FALSE
