SPECIFICATION Spec
CONSTANTS
  Triple = {t1, t2, t3}
  Tid = {u1, u2}
  InsertSets <- OneTid
  Streamed = {t3}
SYMMETRY Symmetry
INVARIANTS FindsStoredElsewhere
PROPERTIES ImplementsTable
