SPECIFICATION SceneSpec
CONSTANTS
    Scenes = {"configured"}
    e1 = e1  e2 = e2  e3 = e3
    Entry = {e1, e2}
    Awaited = {e1, e2}
    Timestamp <- MCTimestamp
    Header = Header  Torn = Torn
    Policy = "Always"
    MaxFileSize = 3
    GroupCommitMaxEntries = 2
    ChannelCapacity = 2
    Faults = {"encode", "create", "append", "partial", "fsync", "delete"}
    TruncateTimes = {1, 2}
    MaxCrashes = 2
INVARIANTS IInv AckedDurableOrExposed
PROPERTY DurableKept
CHECK_DEADLOCK FALSE
