SPECIFICATION EvSpec
CONSTANTS
  Capacity = 2
  BufferSize = 1
  MaxEvents = 3
  Wanted = {}
INVARIANTS ReturnsTheNext
CHECK_DEADLOCK FALSE
