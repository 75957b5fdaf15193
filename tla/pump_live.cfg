\* One process: batches of up to two rows, a budget of three records.
CONSTANTS
  d1 = d1  d2 = d2  d3 = d3  p1 = p1  p2 = p2
  Procs <- OneProc
  Ids <- OneId
  MaxId = 3
  Limit = 2
  Budget = 3
  MaxAttempts = 2
  DeleteOnCommit = TRUE
  MaxFaults = 1
  MaxResets = 1
SPECIFICATION LiveSpec
INVARIANTS
  ExactlyOnceUnlessDisrupted
  OneBatchOutstanding
  HoldStopsAtNextCheck
PROPERTIES
  EveryRowDelivered
  EveryPumpReturns
