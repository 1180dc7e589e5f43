---------------------------- MODULE MonitorLock -----------------------------
(***************************************************************************)
(* The monitor thread at work beside threads that look services up and     *)
(* retire them.  SkynetMonitor is the exchange with a worker, RWLock the   *)
(* lock under which skynet_handle_grab reads the table of handles and      *)
(* skynet_handle_retire changes it.  A service retired meanwhile is not    *)
(* found, and the look-up waits for whoever writes.                        *)
(***************************************************************************)
EXTENDS SkynetMonitor, RWLock

CONSTANTS
  MonitorThread,   \* the thread of Thread that runs thread_monitor
  Retirable        \* bound: the services that are retired, each once

ASSUME MonitorLockAssumption == MonitorThread \in Thread /\ Retirable \subseteq Service

Others == Thread \ {MonitorThread}

allVars == <<vars, lockVars>>

MonitorLockInit == Init /\ rwlock_init
-----------------------------------------------------------------------------

\* The lock's functions run on, whoever is inside.
Locking(t) ==
  /\ \/ SpinRead(t) \/ AddRead(t) \/ EnterRead(t) \/ RefuseRead(t) \/ BackRead(t)
     \/ TakeWrite(t) \/ Drained(t)
  /\ UNCHANGED vars

WorkerStep == Worker /\ UNCHANGED lockVars

\* What the monitor thread does outside the lock.
CheckStep == pc[MonitorThread] = "out" /\ Check /\ UNCHANGED lockVars

\* skynet_handle_grab: it takes the read lock,
GrabLock == monitor = "grab" /\ StartRead(MonitorThread) /\ UNCHANGED vars

\* looks the handle up,
GrabFind == pc[MonitorThread] = "reading" /\ Grab /\ UNCHANGED lockVars

\* and gives the lock back.
GrabUnlock == monitor # "grab" /\ UnlockRead(MonitorThread) /\ UNCHANGED vars

MonitorStep == CheckStep \/ GrabLock \/ GrabFind \/ GrabUnlock \/ Locking(MonitorThread)

\* Another thread looks a service up, for as long as it likes, or retires one.
Call(t) ==
  /\ StartRead(t) \/ (~(Retirable \subseteq retired) /\ StartWrite(t))
  /\ UNCHANGED vars

Found(t) == UnlockRead(t) /\ UNCHANGED vars

\* skynet_handle_retire under the write lock; when another thread came first,
\* nothing is found.
RetireUnlock(t) ==
  /\ UnlockWrite(t)
  /\ \/ \E d \in Retirable : Retire(d)
     \/ Retirable \subseteq retired /\ UNCHANGED vars

Proceeding(t) == Locking(t) \/ Found(t) \/ RetireUnlock(t)

StatStep == (\E d \in Service : Stat(d)) /\ UNCHANGED lockVars

MonitorLockNext ==
  \/ WorkerStep \/ StatStep \/ MonitorStep
  \/ \E t \in Others : Call(t) \/ Proceeding(t)

\* The monitor thread is scheduled, and so is every thread inside the lock's
\* functions or its critical section; the worker's callback may never end.
MonitorLockFairness ==
  /\ WF_allVars(MonitorStep)
  /\ \A t \in Others : WF_allVars(Proceeding(t))
  /\ WF_allVars((Run \/ Idle) /\ UNCHANGED lockVars)

MonitorLockSpec == MonitorLockInit /\ [][MonitorLockNext]_allVars /\ MonitorLockFairness
=============================================================================
