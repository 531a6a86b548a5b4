SPECIFICATION SceneSpec
CONSTANTS
  I64Max = 13
  Inf = 13
  MsPerSec = 2
  EpochMs = 1
  MaxString = 3
  MaxBit = 16
  MaxLen = 2
  ClockTimes = {3}
  Commands <- MCCommands
  DstCommands <- MCDstCommands
  TxPairs <- MCTxPairs
  MaxLevel = 2
  MaxEntries = 3
INVARIANTS
  TablesHold
  ReadsRight
  ShadowHolds
  CommandsContained
  TransactionsRight
  ListExact
PROPERTY RefinesSequence
