----------------------------- MODULE MCMonitor ------------------------------
(* Two services and two messages, at any moment of any check; the monitor  *)
(* thread and two others at the lock, one service that is retired.         *)
EXTENDS MonitorLock
=============================================================================
