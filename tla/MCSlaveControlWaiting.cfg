\* The front end waits until each command is settled.
SPECIFICATION Spec
CONSTANTS
  Scripts <- MCPlain
  Waits = TRUE
  IdleMode = TRUE
  FirstLists <- MCTwo
  LoopTimes <- MCNever
  Broken = {"b"}
  MayInterrupt = FALSE
PROPERTY ImplementsPlayback
