SPECIFICATION Spec
CONSTANTS
  Worker = {w1, w2}
  MaxReady = 2
  MaxTotal = 3
INVARIANTS SleepExact StopOnlyWhenEmpty
PROPERTIES NobodySleepsOnWork Shutdown
CHECK_DEADLOCK FALSE
