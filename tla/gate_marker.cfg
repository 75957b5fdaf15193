\* One governed pipeline; the marker may be written at any step of the daemon.
CONSTANTS
  Pipes <- OnePipe
  Exempt = {}
  Clientless = {}
  Anchored = {"psk"}
  MarkerMoves <- AnyTime
  MaxRows = 2
  MaxMoves = 2
  MaxFaults = 0
SPECIFICATION Spec
INVARIANTS
  FilledRowsShip
