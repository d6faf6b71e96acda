SPECIFICATION FairCacheSpec
CONSTANTS
    Extents <- MCExtents
    Entries = 3
    SamplesPerBlock = 2
    Lengths = {1, 6}
    Buffers = 3
    Frames = 2
    MaxTransfers = 1
INVARIANTS CacheTypeOK NoBlockCachedTwice PlaysTheSong MaintenanceIsExact CursorOnEntry
PROPERTIES BlockIsHeard
