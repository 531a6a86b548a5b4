SPECIFICATION SceneSpec
CONSTANTS
    Scenes = {"configured"}
    Delta <- DeltaLive
    Torn = Torn  Absent = Absent
    Backpressure = 3
    MaxSegments = 2
    MinToCompact = 2
    MaxPerCompaction = 9
    TargetSize = 9
    TombstoneCutoff = 9
    Overlap = TRUE
    Faults = {}
    MaxCrashes = 0
    Keys = {"a", "b"}
    Compression = {TRUE, FALSE}
    MinSegments = 1
    Interval = 1
    MaxVersion = 2
    MaxFlushes = 3
    MaxTime = 2
INVARIANT ManifestReadable
CHECK_DEADLOCK FALSE
