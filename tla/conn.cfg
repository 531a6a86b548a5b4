SPECIFICATION FairSpec
CONSTANTS
  c1 = c1
  c2 = c2
  p1 = p1
  p2 = p2
  Callers = {p1, p2}
  Conns = {c1, c2}
  NumShards = 2
  HashKey <- MCHash
  HashKeyBytes <- MCOtherHash
  Scenes <- MCScenes
  PoolCapacity = 1
  Prewarm = 1
  I64Max = 127
  MsPerSec = 2
  EpochMs = 1
  MaxString = 3
  MaxBit = 16
  Inf = 999
INVARIANTS RepliesMatch SlotsExclusive
PROPERTIES PipelinesAnswered ExpiredEvicted
CHECK_DEADLOCK FALSE
