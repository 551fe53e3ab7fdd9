SPECIFICATION Spec
CONSTANTS
  x = x
  y = y
  Triple <- OneTriple
  MaxOps = 3
  MaxEvents = 2
  MaxFootprint = 2
  Adverse = {"ask-at-start"}
INVARIANT RevupComplete
CHECK_DEADLOCK FALSE
