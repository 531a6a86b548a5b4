SPECIFICATION SceneSpec
CONSTANTS
    v1 = v1  v2 = v2  f1 = f1
    Replica <- Two
    Key = {"a", "h"}
    Value = {v1, v2}
    Field = {f1}
    NoValue = NoValue  Unknown = Unknown  Nothing = Nothing
    Commands <- ByType
    Expiries <- Plain
    MaxDelKeys = 1
    MaxOutbound = 3
    MaxCommands = 3
    MaxLosses = 0
    MaxDuplicates = 1
    WalFails = TRUE
    MaxRestarts = 0
    WalAlways = TRUE
    Replicas = 3
    Kinds = {"gcounter", "pncounter", "clock", "gset", "orset"}
    Amounts = {1, 2}
    Elements = {"a"}
    Rounds = 1
    MaxOps = 3
    MaxRemovals = 1
    MaxSyncs = 2
INVARIANTS TypedConverged StampsUnique LatticesRight UnobservedAddsKept
SYMMETRY Symmetric
CHECK_DEADLOCK FALSE
