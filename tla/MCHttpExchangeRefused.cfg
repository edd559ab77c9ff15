\* Paths that are refused, from clients that keep their connection alive.
SPECIFICATION Spec
CONSTANTS
  Byte <- MCByte
  Junk = "x"
  InitSize = 6
  HugeSize = 14
  Scripts <- MCScripts
  Numbers <- MCNumbers
  SizeMod = 64
  MaxRead = 6
  Components <- MCComponents
  Suffix <- MCSuffix
  Files <- MCFiles
INVARIANTS
  BadRequestCloses
CHECK_DEADLOCK FALSE
