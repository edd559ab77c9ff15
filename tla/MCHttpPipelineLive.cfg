\* Liveness under the fairness of the server's own threads.
SPECIFICATION FairSpec
CONSTANTS
  SockBuf = 2
  BlockLine = 3
  Kinds = {"keep", "close"}
  Sizes = {3}
  MaxSend = 2
  MaxReqs = 2
PROPERTIES
  EveryRequestAnswered
  ClosedIsReclaimed
  OutputFlows
CHECK_DEADLOCK FALSE
