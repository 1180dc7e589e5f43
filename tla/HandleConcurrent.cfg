SPECIFICATION Spec
CONSTANTS
  Ctx = {c1, c2, c3}
  NULL = NULL
  Names = {1}
  DEFAULT_SLOT_SIZE = 1
  HANDLE_MASK = 7
  Harbor = 1
  ConcurrentLaunch = TRUE
SYMMETRY Symmetric
INVARIANT AssertsHold
CHECK_DEADLOCK FALSE
