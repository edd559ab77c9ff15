\* Three blocks of two records: the pool runs out and blocks are recycled.
SPECIFICATION FairSpec
CONSTANTS
  Blocks = 3
  BlockCap = 2
  MaxLogs = 8
INVARIANTS
  TypeOK
  PoolIntact
  NoMissedWakeup
  NothingLost
PROPERTIES
  KeepsPromise
  EveryLogHanded
  StopReturns
CHECK_DEADLOCK FALSE
