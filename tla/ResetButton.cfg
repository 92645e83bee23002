SPECIFICATION Spec
CONSTANTS
  LongPress = 8
  Debounce = 3
  MinHold = 3
  Lag = 2
  QueueLen = 3
PROPERTIES OnlyLongPresses LongPressServed
