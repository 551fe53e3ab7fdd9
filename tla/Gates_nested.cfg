SPECIFICATION FairSpec
CONSTANTS
  r1 = r1
  w1 = w1
  o1 = o1
  q1 = q1
  d1 = d1
  Reader <- Reader1
  Writer <- None
  Remote <- None
  Request <- Request1
  Connect <- None
  Nests = TRUE
  Snaps = FALSE
  MaxReads = 2
  MaxWrites = 2
  MaxTaken = 2
CHECK_DEADLOCK FALSE
PROPERTY AllServed
