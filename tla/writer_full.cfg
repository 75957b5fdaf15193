\* One thread, one row per insert, batches of one.
CONSTANTS
  r1 = r1  r2 = r2  r3 = r3  r4 = r4  r5 = r5
  batcher = batcher  main = main  psk = psk  meteor = meteor  NoThread = NoThread
  Threads <- OneThread
  Rows <- PskRows
  Owner <- PskOwner
  Unserializable = {}
  BatchRows = 1
  MaxInsert = 1
SPECIFICATION LiveSpec
PROPERTIES
  BufferDrains
