\* Days of two seconds, files of four bytes, blocks that fit once or thrice.
SPECIFICATION Spec
CONSTANTS
  FileMax = 4
  CheckEvery = 2
  BlockBytes = {1, 3}
  DayLen = 2
  MaxTime = 2
  MaxCalls = 4
INVARIANTS
  TypeOK
  SizeAccurate
  LimitKept
  StrayBounded
  DayKept
CHECK_DEADLOCK FALSE
