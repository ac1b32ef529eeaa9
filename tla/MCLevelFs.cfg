CONSTANTS
    Keys <- MCKeys
    MaxWrites = 4
    MaxTasks = 2
    TriggerLength = 2
    ImmutableChunkNum = 1
    ImmutableChunkMaxNum = 1
    SelectionMax = 1
    DefaultOldestNum = 1
    MaxSstRows = 2
    IoFailures = {}
    MaxFailures = 1
    CommitTimestamps = TRUE
    WalBuffered = FALSE
    MaxCrashes = 0
    MaxLevel = 4
    MajorThreshold = 2
    LevelMagnification = 1
    LevelFs <- MCSplitStores
SPECIFICATION FairSpec
PROPERTIES
    FlushCompletes
