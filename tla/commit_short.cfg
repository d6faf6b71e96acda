SPECIFICATION Spec
CONSTANTS
  c1 = c1
  c2 = c2
  Contents = {c1}
  Junk = junk
  Projects = 1
  Songs = 1
  DataStart = 34
  BlockSectors = 1
  LastSector = 40
  InitialDisks <- OnlyHeaderFile
  DirtyReopen = TRUE
PROPERTY
  CommitWritesOnlyBackup
