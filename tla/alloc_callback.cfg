SPECIFICATION Spec
CONSTANTS
    WordSize = 2
    NumWords = 3
    ClusterCount = 5
    BlocksPerCluster = 3
    BlockWamples = 1
    SongSectors = {1, 2}
    MaxSongs = 2
    Lengths = {0, 3, 7}
    InitialUsage = {{}, {2}}
    Reentrant = TRUE
INVARIANTS
    SoundUntilStrayed
