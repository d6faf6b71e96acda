SPECIFICATION Spec
CONSTANTS
  c1 = c1
  c2 = c2
  Contents = {c1, c2}
  Junk = junk
  Projects = 1
  Songs = 1
  DataStart = 28
  BlockSectors = 1
  LastSector = 56
  InitialDisks <- OnlyFormatted
  DirtyReopen = FALSE
INVARIANTS
  TypeOK
  OperationsCommit
  OneCopyWhole
PROPERTY
  CommitWritesOnlyBackup
