SPECIFICATION FairSpec
CONSTANTS
  Clone = {c1, c2}
  NewClones = {c2}
  Transports <- BothTransports
  MaxDrops = 1
INVARIANTS PresenceSound AloneOnceReady
PROPERTY AgreedInTheEnd
CHECK_DEADLOCK FALSE
