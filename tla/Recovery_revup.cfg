SPECIFICATION FairSpec
CONSTANTS
  MaxOps <- Few
  MaxTotal = 3
  MaxEvents = 3
  Adverse = {}
CHECK_DEADLOCK FALSE
INVARIANTS OperationsKept PublishedInOrder
PROPERTIES RecoveredInTruth CatchesUp
