SPECIFICATION Spec
CONSTANTS
  Triple = {t1, t2}
  Tid = {u1, u2}
  InsertSets <- AnyTids
  Streamed = {}
PROPERTY ImplementsTable
