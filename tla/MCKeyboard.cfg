CONSTANTS
  KBD_BUFFER_SIZE = 3
  REPEAT_DELAY = 2
  REPEAT_RATE = 1
  Setups <- MCSetups
SPECIFICATION Spec
CHECK_DEADLOCK FALSE
INVARIANTS RingIsQueue DecodesTyped RepeatStops
PROPERTIES HandlerReturns TypedIsRead
