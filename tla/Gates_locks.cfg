SPECIFICATION FairSpec
CONSTANTS
  r1 = r1
  w1 = w1
  o1 = o1
  q1 = q1
  d1 = d1
  Reader <- Reader1
  Writer <- Writer1
  Remote <- Remote1
  Request <- Request1
  Connect <- Connect1
  Nests = FALSE
  Snaps = TRUE
  MaxReads = 1
  MaxWrites = 2
  MaxTaken = 2
CHECK_DEADLOCK FALSE
INVARIANTS LocksCover
PROPERTIES ChangesWait AllServed
