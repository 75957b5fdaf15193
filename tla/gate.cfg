\* A governed pipeline and the heartbeat; a pump raises, a starting record
\* fails or the daemon restarts; the marker moves between pumps.
CONSTANTS
  Pipes <- GatePipes
  Exempt <- Heartbeat
  Clientless = {}
  Anchored = {"psk"}
  MarkerMoves <- Between
  MaxRows = 2
  MaxMoves = 2
  MaxFaults = 1
SPECIFICATION Spec
INVARIANTS
  TypeOK
  NothingSkipped
  FilledRowsShip
  HoldObeyed
