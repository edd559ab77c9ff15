\* Two requests, every cut of their bytes, in a buffer smaller than most of them.
SPECIFICATION Spec
CONSTANTS
  Byte <- MCByte
  Junk = "x"
  InitSize = 6
  HugeSize = 14
  Scripts <- MCScripts
  Numbers <- MCNumbers
  SizeMod = 64
  MaxRead = 6
  Components <- MCComponents
  Suffix <- MCSuffix
  Files <- MCFiles
INVARIANTS
  TypeOK
  StreamKept
  FragmentsDoNotMatter
  NothingAfterMalformed
  PathsResolved
  AnswersArrive
  CloseAnnounced
CHECK_DEADLOCK FALSE
