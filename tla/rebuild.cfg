\* Two files, four contents, one legacy entry that shares a key with a file.
CONSTANTS
  Absent = Absent  Broken = Broken  None = None  Unread = Unread  Unlisted = Unlisted
  Files <- TwoFiles
  Contents <- SomeContents
  Manifest <- OldManifest
  Failing <- MayFail
  MaxEdits = 2
  MaxFaults = 1
SPECIFICATION Spec
INVARIANTS
  TypeOK
  QuietMeansCurrent
  OpenIsInUse
  OneSenderPerKey
PROPERTY EditsDisturbNothingElse
CHECK_DEADLOCK FALSE
