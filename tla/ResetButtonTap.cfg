SPECIFICATION Spec
CONSTANTS
  LongPress = 8
  Debounce = 3
  MinHold = 1
  Lag = 2
  QueueLen = 3
PROPERTY OnlyLongPresses
