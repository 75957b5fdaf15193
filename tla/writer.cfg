\* Two threads of one producer process and one Writer of batches of two.
CONSTANTS
  r1 = r1  r2 = r2  r3 = r3  r4 = r4  r5 = r5
  batcher = batcher  main = main  psk = psk  meteor = meteor  NoThread = NoThread
  Threads <- BothThreads
  Rows <- MixedRows
  Owner <- MixedOwner
  Unserializable <- PoisonRow
  BatchRows = 2
  MaxInsert = 2
SYMMETRY Symmetry
SPECIFICATION Spec
INVARIANTS
  TypeOK
  NoSilentLoss
  StoredOnce
  CloseStoresAll
  HealthIsTrue
