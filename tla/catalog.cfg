SPECIFICATION Spec
CONSTANTS
  MaxProjects = 2
  MaxSongs = 2
  MaxEntries = 2
  Clusters = {k1, k2}
  StopInCreate = FALSE
  DirtyReopen = FALSE
INVARIANTS
  TypeOK
  NoSharedSong
  SpaceIsSafe
  UsageAgrees
PROPERTY
  ImplementsBook
