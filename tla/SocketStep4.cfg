SPECIFICATION Spec
CONSTANTS
  Services = {a, b}
  Openers = {a}
  MAX_SOCKET = 2
  WARNING_SIZE = 2
  Size <- MCSize
  MaxId = 3
  MaxReq = 4
INVARIANT EmptyAtStep4
CHECK_DEADLOCK FALSE
