SPECIFICATION Spec
CONSTANTS
  Ctx = {c1, c2, c3, c4, c5}
  NULL = NULL
  Names = {1, 2, 3}
  DEFAULT_SLOT_SIZE = 1
  HANDLE_MASK = 3
  Harbor = 1
  ConcurrentLaunch = FALSE
SYMMETRY Symmetric
INVARIANTS HandlesExact NamesExact
PROPERTIES NoEarlyReuse NamesKept
CHECK_DEADLOCK FALSE
