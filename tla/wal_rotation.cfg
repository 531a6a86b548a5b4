SPECIFICATION SceneSpec
CONSTANTS
    Scenes = {"configured"}
    e1 = e1  e2 = e2  e3 = e3
    Entry = {e1, e2, e3}
    Awaited = {e1, e2, e3}
    Timestamp <- MCTimestamp
    Header = Header  Torn = Torn
    Policy = "Always"
    MaxFileSize = 2
    GroupCommitMaxEntries = 2
    ChannelCapacity = 2
    Faults = {}
    TruncateTimes = {}
    MaxCrashes = 1
INVARIANT AckedDurable
CHECK_DEADLOCK FALSE
