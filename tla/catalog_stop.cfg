SPECIFICATION Spec
CONSTANTS
  MaxProjects = 2
  MaxSongs = 2
  MaxEntries = 2
  Clusters = {k1}
  StopInCreate = TRUE
  DirtyReopen = FALSE
INVARIANT NoSharedSong
