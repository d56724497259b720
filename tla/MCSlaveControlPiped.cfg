\* The front end writes without waiting; loop counts; blocking operations.
SPECIFICATION FairSpec
CONSTANTS
  Scripts <- MCForced
  Waits = FALSE
  IdleMode = TRUE
  FirstLists <- MCLists
  LoopTimes <- MCOption
  Broken = {"b"}
  MayInterrupt = TRUE
 
PROPERTIES
  NoOldAudio
  QuitExits
  AllConsumed
