\* Three requests of every kind against a small socket: the pool may finish them in any
\* order, two queued responses reach the high line and one of them stays above the low one.
SPECIFICATION Spec
CONSTANTS
  SockBuf = 2
  BlockLine = 6
  Kinds = {"keep", "close", "bad", "big"}
  Sizes = {3}
  MaxSend = 3
  MaxReqs = 3
INVARIANTS
  TypeOK
  PendingAccounts
  InterestSync
  BackpressureSound
  RegisteredIsAlive
  NoLostRead
  NoLostWrite
  InOrder
PROPERTIES
  GracefulCloseFlushed
  KeepsPromise
CHECK_DEADLOCK FALSE
