\* A statement of the repository that the code does not keep.
SPECIFICATION Spec
CONSTANTS
  SockBuf = 2
  BlockLine = 3
  Kinds = {"keep", "close"}
  Sizes = {1, 3}
  MaxSend = 2
  MaxReqs = 3
INVARIANTS CloseAfterResponse
CHECK_DEADLOCK FALSE
