SPECIFICATION Spec
CONSTANTS
  Payload = {a, b}
  Garbage = Garbage
  DEFAULT_QUEUE_SIZE = 2
  MQ_OVERLOAD = 1
  MaxPush = 8
INVARIANTS NeverFull ThresholdTracks
PROPERTY RingIsFifo
CHECK_DEADLOCK FALSE
