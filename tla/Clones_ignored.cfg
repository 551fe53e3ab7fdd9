SPECIFICATION Spec
CONSTANTS
  c1 = c1
  c2 = c2
  c3 = c3
  Clone <- Three
  Genesis0 = c1
  OneHelper = FALSE
  MaxOps = 2
  MaxDepth = 2
SYMMETRY Symmetry
INVARIANT IgnoredWasHad
