SPECIFICATION SceneSpec
CONSTANTS
    Scenes = {"configured", "always"}
    e1 = e1  e2 = e2  e3 = e3
    Entry = {e1, e2, e3}
    Awaited = {e1}
    Timestamp <- MCTimestamp
    Header = Header  Torn = Torn
    Policy = "EverySecond"
    MaxFileSize = 3
    GroupCommitMaxEntries = 2
    ChannelCapacity = 2
    Faults = {"partial", "fsync"}
    TruncateTimes = {1}
    MaxCrashes = 1
PROPERTIES ReadableKept WritesAnswered
CHECK_DEADLOCK FALSE
