\* Backward seeks while cache_fill is under way.
SPECIFICATION Spec
CONSTANTS
  BufferSize = 4
  SectorSize = 2
  FillLimit = 2
  BackSize = 2
  SeekLimitArg = 4
  PrefillArg = 4
  ReadChunk = 0
  FileSize = 7
  Targets = {0, 3, 6}
  Forked = TRUE
  HasControl = FALSE
  Commands = {}
  BackwardSeeks = "any"
  Interrupts = FALSE
  ShortReads = TRUE
  ReadErrors = FALSE
  SeekErrors = FALSE
  MainDies = FALSE
PROPERTY DeliversFileBytes
