\* Two expected receivers, two bands, two cycles and one psk row.
CONSTANTS
  rx1 = rx1  rx2 = rx2
  Cycles <- TwoCycles
  Receivers <- TwoReceivers
  Expected <- TwoReceivers
  Bands = {"20m", "40m"}
  Together = TRUE
  Length = 1
  Backstop = 1
  MaxClock = 4
  MaxMoves = 1
  MaxFaults = 1
  Riders <- OneRider
  Marked = TRUE
SPECIFICATION Spec
INVARIANTS
  TypeOK
  NoRowMissed
  HeldRiderStaysOut
PROPERTY EveryCycleShips
CHECK_DEADLOCK FALSE
