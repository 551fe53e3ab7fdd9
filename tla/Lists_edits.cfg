SPECIFICATION Spec
CONSTANTS
  Radix = 3
  Skew = 1
  MaxEdits = 4
  MaxInFlight = 2
  MaxLength = 3
  Adverse = {}
CHECK_DEADLOCK FALSE
INVARIANTS ListsSound NothingVanishes ShownAsAsked ViewFollows
