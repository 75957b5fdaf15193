\* psk.spots shared by two deleting producers, and a third producer's rows read by
\* a dedup, ceiled sender; every sink is of v3.70 or later.
CONSTANTS
  Pipes <- AllPipes
  Conf <- AllConf
  Kinds <- AllKinds
  OldSinks = FALSE
  Limit = 2
  MaxRows = 3
  MaxCycle = 1
  MaxRestarts = 1
SPECIFICATION Spec
INVARIANTS
  TypeOK
  RowsKeepToTheirOwner
  NothingSkipped
  EachSpotOnce
