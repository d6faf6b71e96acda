SPECIFICATION Spec
CONSTANTS
    ClusterSize = 3
    EntriesPerSector = 2
    IndexSectors = 2
    ContentSectors = 9
    BufferStride = 1
    MaxRequest = 5
    MaxWrites = 2
    MaxPartial = 1
    BlockTracks = 3
    BlockSamples = 4
    ExportJobs <- MCExportJobs
    ExportOld <- MCExportOld
    ImportJobs <- MCImportJobs
    RecSongs = {1, 2, 3}
    RecClusters = 9
    BlocksPerCluster = 2
    TableLimit = 2
    MaxBlocks = 7
    RecTables <- MCRecTables
    ScanNames = 3
    MaxReplugs = 3
    LastSector = 3
    HeaderEnd = 1
    MultiSector = 3
    MaxDriveWrites = 1
    MaxErrors = 1
    FsSectors = 5
    DataArea = 11
    BlockSectors = 3
    MaxClusters = 4
    LastSectors <- MCLastSectors
    SizeLimit = 62
    WriteSizes = {1, 2, 3}
    MaxSamples = 6
INVARIANTS
    ImageTypeOK ImageBlocksApart ImageReadsBack
    ExportIsExact PartsKeepLimit
    ImportIsExact NothingWrittenBehindBadBlock
    NoClusterShared
    CopyIsExact HeaderModeIsSafe
    ClustersFit
    HeaderIsHonest
PROPERTIES
    NoSilentOverwrite RecoveryIsExact ListIsRight
CHECK_DEADLOCK FALSE
