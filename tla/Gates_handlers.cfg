SPECIFICATION Spec
CONSTANTS
  r1 = r1
  w1 = w1
  o1 = o1
  q1 = q1
  d1 = d1
  Reader <- Reader1
  Writer <- None
  Remote <- Remote1
  Request <- None
  Connect <- None
  Nests = FALSE
  Snaps = FALSE
  MaxReads = 0
  MaxWrites = 2
  MaxTaken = 2
CHECK_DEADLOCK FALSE
PROPERTY Immutable
