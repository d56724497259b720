\* A master that plays, seeks, pauses and exits, and a slave that joins it.
SPECIFICATION FairSpec
CONSTANTS
  Last = 5
  KeyFrames = {0, 3}
  Threshold = 2
  SocketRoom = 2
PROPERTIES
  InStep
  FollowsMaster
  EndsWithMaster
CHECK_DEADLOCK FALSE
