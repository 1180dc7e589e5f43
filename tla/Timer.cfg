SPECIFICATION Spec
CONSTANTS
  Timer = {n1, n2}
  TIME_NEAR = 2
  TIME_LEVEL = 2
  MaxDelay = 9
  MaxLag = 2
INVARIANT OnTime
PROPERTIES InOrder Fires
