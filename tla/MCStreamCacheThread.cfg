\* A filler thread: controls through the mailbox, no interrupt.
SPECIFICATION FairSpec
CONSTANTS
  BufferSize = 4
  SectorSize = 2
  FillLimit = 2
  BackSize = 2
  SeekLimitArg = 4
  PrefillArg = 4
  ReadChunk = 0
  FileSize = 6
  Targets = {0, 4}
  Forked = FALSE
  HasControl = TRUE
  Commands = {"seek_time", "query"}
  BackwardSeeks = "never"
  Interrupts = FALSE
  ShortReads = TRUE
  ReadErrors = FALSE
  SeekErrors = FALSE
  MainDies = FALSE
INVARIANTS TypeOK ReadPosAgrees
PROPERTIES AnswersItsCommand PrefillEnds ReadsEnd ControlEnds
