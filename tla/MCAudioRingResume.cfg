\* CoreAudio's flag "paused", stored by both threads.
SPECIFICATION Spec
CONSTANTS
  Drivers = {"coreaudio"}
  StopWaits = {"coreaudio"}
  BufferLen = 4
  Outburst = 2
  MaxOutburst = 3
  ShortDelay = 1
  Requests = {1, 3}
  IndexMod = 10
PROPERTY ResumeStarts
