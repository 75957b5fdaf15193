\* A sender the completion ceiling holds back.
CONSTANTS
  Pipes <- CeiledPipes
  Conf <- CeiledConf
  Kinds <- SharedKinds
  OldSinks = FALSE
  Limit = 2
  MaxRows = 3
  MaxCycle = 2
  MaxRestarts = 0
SPECIFICATION Spec
INVARIANTS
  NothingSkipped
