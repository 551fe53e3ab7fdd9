SPECIFICATION Spec
CONSTANTS
  Clone = {c1, c2}
  NewClones = {}
  Transports <- BothTransports
  MaxDrops = 1
INVARIANT AloneOnlyIfAlone
CHECK_DEADLOCK FALSE
