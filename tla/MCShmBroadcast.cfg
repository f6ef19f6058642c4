\* Two readers, one of them with timeouts, on a ring of two chunks.
CONSTANTS
  NumReaders = 2
  MaxChunks = 2
  MaxMsgs = 4
  TimedReaders = {2}
SPECIFICATION Spec
INVARIANTS
  UntimedInOrder
  OverflowBounded
PROPERTIES
  QueueSpec
  Delivery
  ShutdownStops
CHECK_DEADLOCK FALSE
