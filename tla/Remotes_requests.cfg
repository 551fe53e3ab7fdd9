SPECIFICATION FairSpec
CONSTANTS
  a = a
  b = b
  c = c
  Peer <- TwoPeers
  MaxRequests = 1
  MaxItems = 2
  MaxChanges = 1
  Rejoins = FALSE
CHECK_DEADLOCK FALSE
INVARIANTS StreamsSound AnswersTheQuestion EveryoneAsked
PROPERTIES AllEnds
