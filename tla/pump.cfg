\* Two processes pump the same pipeline on one watermarks.db.
CONSTANTS
  d1 = d1  d2 = d2  d3 = d3  p1 = p1  p2 = p2
  Procs <- TwoProcs
  Ids <- ThreeIds
  MaxId = 2
  Limit = 1
  Budget = 0
  MaxAttempts = 2
  DeleteOnCommit = TRUE
  MaxFaults = 1
  MaxResets = 0
SYMMETRY Symmetry
SPECIFICATION Spec
INVARIANTS
  TypeOK
  NoRowLost
  OldestFirst
PROPERTIES
  RecordMovesForward
  Delivers
CHECK_DEADLOCK TRUE
