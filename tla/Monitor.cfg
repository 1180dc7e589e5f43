SPECIFICATION MonitorLockSpec
CONSTANTS
  Service = {1, 2}
  MaxVersion = 4
  Thread = {monitor_thread, t1, t2}
  MonitorThread = monitor_thread
  Retirable = {1}
INVARIANT Exclusion
PROPERTIES WriterEnters BlamesDispatched HangReported
CHECK_DEADLOCK FALSE
