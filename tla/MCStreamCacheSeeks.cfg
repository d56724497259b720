\* Forward seeks at any time, backward seeks while the filler sleeps.
SPECIFICATION Spec
CONSTANTS
  BufferSize = 8
  SectorSize = 2
  FillLimit = 4
  BackSize = 4
  SeekLimitArg = 8
  PrefillArg = 8
  ReadChunk = 0
  FileSize = 17
  Targets = {0, 5, 16}
  Forked = TRUE
  HasControl = FALSE
  Commands = {}
  BackwardSeeks = "quiescent"
  Interrupts = FALSE
  ShortReads = TRUE
  ReadErrors = FALSE
  SeekErrors = FALSE
  MainDies = FALSE
INVARIANTS FillInBounds WindowIsFile
PROPERTIES ReadsAsStream KeepsBackBytes
