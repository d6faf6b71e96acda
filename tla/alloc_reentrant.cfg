SPECIFICATION Spec
CONSTANTS
    WordSize = 2
    NumWords = 4
    ClusterCount = 7
    BlocksPerCluster = 3
    BlockWamples = 1
    SongSectors = {1, 2}
    MaxSongs = 2
    Lengths = {0, 2, 3, 7}
    InitialUsage = {{}, {2}}
    Reentrant = TRUE
INVARIANTS
    AppendedWereAllocated
