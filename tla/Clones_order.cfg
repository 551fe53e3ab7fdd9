SPECIFICATION JoiningOrJoined
CONSTANTS
  c1 = c1
  c2 = c2
  c3 = c3
  Clone <- Three
  Genesis0 = c1
  OneHelper = TRUE
  MaxOps = 3
  MaxDepth = 2
SYMMETRY Symmetry
INVARIANTS IdentitiesUnique ClockTellsDataset NeverStuck JournalTellsApplied ClocksAsCode
