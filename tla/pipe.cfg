SPECIFICATION SceneSpec
CONSTANTS
    MaxSent = 3
    ChannelCapacity = 2
    MaxDeltas = 2
    Backpressure = 2
    MaxQueued = 1
    MaxBytes = 3
    MaxBuffered = 2
    Threshold = 3
    MaxFlushes = 1
    MaxFailures = 1
    ReplicaId = 3
    MaxOutbound = 2
    MaxTicks = 1
    MaxBroken = 1
INVARIANTS ShutdownStoresAll BufferSound ShutdownFlushes 
PROPERTY DeltasSettle
CHECK_DEADLOCK FALSE
