\* Two pipes, keys and window events, a filter, blocking operations, a signal.
SPECIFICATION FairSpec
CONSTANTS
  Fds <- MCFds
  Script <- MCScript
  MaxSize = 4
  QueueSize = 2
  Commands = {"get", "pause", "seek", "stop", "quit", "key"}
  Stops = {"quit"}
  Grabbed = {"get"}
  KeyCmds = {"key"}
  Signals = TRUE
  Checks = 2
  MaxKeys = 2
INVARIANTS
  LinesKept
  StopsAreRun
  ShownIsNext
PROPERTY AllTaken
