\* One shared pipeline split in two, rolled back and split again.
CONSTANTS
  psk = psk  meteor = meteor
  Producers <- TwoProducers
  MaxId = 2
  MaxRestarts = 3
  MaxMigrates = 2
  Releases = {0, 3}
  MigrateFirst = TRUE
  TrimBetween = FALSE
SYMMETRY Symmetry
SPECIFICATION Spec
INVARIANTS
  TypeOK
  NoRowSkipped
PROPERTIES
  DeletedRetryIsReread
  RecordsStand
CHECK_DEADLOCK FALSE
