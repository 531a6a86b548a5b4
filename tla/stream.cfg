SPECIFICATION SceneSpec
CONSTANTS
    Scenes = {"configured", "together", "checkpoint"}
    Delta <- DeltaWithDelete
    Torn = Torn  Absent = Absent
    Backpressure = 3
    MaxSegments = 2
    MinToCompact = 2
    MaxPerCompaction = 9
    TargetSize = 9
    TombstoneCutoff = 9
    Overlap = FALSE
    Faults = {"put", "partial", "rename", "copied", "delete"}
    MaxCrashes = 1
    Keys = {"a", "b"}
    Compression = {TRUE, FALSE}
    MinSegments = 1
    Interval = 1
    MaxVersion = 2
    MaxFlushes = 3
    MaxTime = 2
INVARIANTS ManifestsOrdered ApartRecovered CheckpointComplete DamageRefused
CHECK_DEADLOCK FALSE
