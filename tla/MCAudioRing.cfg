\* All drivers; a full and an empty buffer, both ends of it, wrapping indexes.
SPECIFICATION FairSpec
CONSTANTS
  Drivers = {"coreaudio", "digital", "sdl"}
  StopWaits = {"coreaudio", "digital", "sdl"}
  BufferLen = 4
  Outburst = 2
  MaxOutburst = 3
  ShortDelay = 1
  Requests = {1, 3}
  IndexMod = 10
INVARIANTS
  TypeOK
  RingIntact
PROPERTIES
  SpaceIsThere
  ImplementsSoundQueue
  AllHeard
