SPECIFICATION Spec
CONSTANTS
  FifoSizes = {2, 4}
  MaxKeyDown = 2
  EventKeys = {"a", "m"}
  TapKeys = {"t", "mm"}
  Double <- MCDouble
  NoRepeat = {"m", "mm"}
  Bound <- MCBound
  OwnDoubles = TRUE
INVARIANTS
  TypeOK
  NoStuckKeys
  RepeatsHeldKeys
  ClickGivesCommand
