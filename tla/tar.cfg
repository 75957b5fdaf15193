\* Two gateways, two cycles, persistent connections and the FTP fallback.
CONSTANTS
  gw1 = gw1  gw2 = gw2
  Servers <- TwoServers
  LastCycle = 1
  Multiplex = TRUE
  Fallback = TRUE
  MaxFaults = 3
SPECIFICATION Spec
INVARIANTS
  TypeOK
  NoTornTar
  FailoverLands
PROPERTY EveryCycleLands
CHECK_DEADLOCK FALSE
