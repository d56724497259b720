\* A player process that is interrupted or killed, and its forked filler.
SPECIFICATION FairSpec
CONSTANTS
  BufferSize = 6
  SectorSize = 2
  FillLimit = 2
  BackSize = 3
  SeekLimitArg = 6
  PrefillArg = 6
  ReadChunk = 0
  FileSize = 13
  Targets = {0, 5, 12}
  Forked = TRUE
  HasControl = TRUE
  Commands = {"query"}
  BackwardSeeks = "never"
  Interrupts = TRUE
  ShortReads = TRUE
  ReadErrors = FALSE
  SeekErrors = FALSE
  MainDies = TRUE
INVARIANT CopySafe
PROPERTIES DeliversFileBytes OrphanExits
