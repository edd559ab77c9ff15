\* A body that arrives in two reads.
SPECIFICATION Spec
CONSTANTS
  Byte <- MCByte
  Junk = "x"
  InitSize = 6
  HugeSize = 14
  Scripts <- MCScripts
  Numbers <- MCNumbers
  SizeMod = 64
  MaxRead = 6
  Components <- MCComponents
  Suffix <- MCSuffix
  Files <- MCFiles
INVARIANTS
  BodySurvivesCut
CHECK_DEADLOCK FALSE
