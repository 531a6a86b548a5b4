SPECIFICATION SceneSpec
CONSTANTS
    k1 = k1
    k2 = k2
    k3 = k3
    v1 = v1
    v2 = v2
    Replica = {1, 2, 3}
    Value = {v1, v2}
    Field = {}
    NoValue = NoValue
    Unknown = Unknown
    Nothing = Nothing
    NodePosition <- MCNodePosition
    KeyPosition <- MCKeyPosition
    Bucket <- MCBucket
    Configs <- MCConfigs
    MaxWrites = 2
    MaxCuts = 1
    MaxSyncs = 1
    Second = 2
    MaxTime = 5
    MaxLag = 1
    MaxImbalance = 2
    MinKeysForSplit = 100
    MinOpsForScale = 30
    Cooldown = 3
SYMMETRY Symmetry
INVARIANTS  RoundsConverge AdaptiveSound
PROPERTIES MergedServed MembershipMovesLittle
CHECK_DEADLOCK FALSE
