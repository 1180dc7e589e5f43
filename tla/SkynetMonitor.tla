--------------------------- MODULE SkynetMonitor ----------------------------
(***************************************************************************)
(* The watch kept on a worker thread by the monitor thread                 *)
(* (skynet-src/skynet_monitor.c): the worker announces each message it     *)
(* dispatches with two unlocked writes and an atomic increment, and the    *)
(* monitor thread, every five seconds, reports a service whose message has *)
(* not ended.  Each read and write is a step of its own, the second read of  *)
(* destination, the look-up of its context and the write of the flag too.  *)
(* MonitorLock puts the look-up under the lock of the handle storage.      *)
(***************************************************************************)
EXTENDS Integers

CONSTANTS
  Service,      \* handles of services, all different from 0
  MaxVersion    \* bound: triggers in a behaviour

ASSUME ServiceAssumption == 0 \notin Service
ASSUME VersionAssumption == MaxVersion \in Nat

VARIABLES
  version, check_version, destination,   \* struct skynet_monitor
  worker,      \* "idle", "begin" (destination written), "run", "end" (cleared)
  current,     \* the service whose message the worker dispatches, 0 for none
  monitor,     \* "check", "differ", "same" (versions equal), "alarm" (destination
               \* seen), "grab" (read again), "flag" (context grabbed)
  target,      \* the argument of skynet_context_endless
  retired,     \* the services that skynet_handle_grab no longer finds
  endless,     \* the services whose endless flag is set
  since        \* history: the services dispatched since the versions were found equal

vars == <<version, check_version, destination, worker, current, monitor, target,
          retired, endless, since>>
sm == <<version, check_version, destination>>

\* skynet_monitor_new.
Init ==
  /\ version = 0 /\ check_version = 0 /\ destination = 0
  /\ worker = "idle" /\ current = 0
  /\ monitor = "check" /\ target = 0
  /\ retired = {} /\ endless = {} /\ since = {}
-----------------------------------------------------------------------------
(* The worker: skynet_monitor_trigger before and after dispatch_message.   *)

\* The destination is written.  The worker holds the context, so that this
\* happens to a retired service too.
Begin(d) ==
  /\ worker = "idle" /\ version + 2 <= MaxVersion
  /\ worker' = "begin" /\ current' = d /\ destination' = d
  /\ since' = IF monitor \in {"check", "differ"} THEN {} ELSE since \cup {d}
  /\ UNCHANGED <<version, check_version, monitor, target, retired, endless>>

\* and the version increased, before the callback.
Run ==
  /\ worker = "begin" /\ worker' = "run"
  /\ version' = version + 1
  /\ UNCHANGED <<check_version, destination, current, monitor, target, retired, endless, since>>

\* Variant of End: the destination is not cleared.
EndKeep ==
  /\ worker = "run" /\ worker' = "end"
  /\ UNCHANGED <<sm, current, monitor, target, retired, endless, since>>

\* The callback has returned: the destination is cleared,
End ==
  /\ worker = "run" /\ worker' = "end"
  /\ destination' = 0
  /\ UNCHANGED <<version, check_version, current, monitor, target, retired, endless, since>>

\* and the version increased.
Idle ==
  /\ worker = "end" /\ worker' = "idle" /\ current' = 0
  /\ version' = version + 1
  /\ UNCHANGED <<check_version, destination, monitor, target, retired, endless, since>>
-----------------------------------------------------------------------------
(* The monitor thread: skynet_monitor_check and skynet_context_endless.    *)

\* sm->version == sm->check_version.
Compare ==
  /\ monitor = "check"
  /\ monitor' = IF version = check_version THEN "same" ELSE "differ"
  /\ since' = IF version = check_version /\ worker \in {"begin", "run"} THEN {current} ELSE {}
  /\ UNCHANGED <<sm, worker, current, target, retired, endless>>

\* else sm->check_version = sm->version, which is read again.
Record ==
  /\ monitor = "differ" /\ monitor' = "check"
  /\ check_version' = version
  /\ UNCHANGED <<version, destination, worker, current, target, retired, endless, since>>

\* if (sm->destination).
Test ==
  /\ monitor = "same"
  /\ IF destination = 0 THEN monitor' = "check" /\ since' = {}
     ELSE monitor' = "alarm" /\ UNCHANGED since
  /\ UNCHANGED <<sm, worker, current, target, retired, endless>>

\* skynet_context_endless(sm->destination): it is read again.
Alarm ==
  /\ monitor = "alarm" /\ monitor' = "grab" /\ target' = destination
  /\ UNCHANGED <<sm, worker, current, retired, endless, since>>

\* skynet_handle_grab finds the context, or nothing is done.
Grab ==
  /\ monitor = "grab"
  /\ IF target \in {0} \cup retired THEN monitor' = "check" /\ target' = 0 /\ since' = {}
     ELSE monitor' = "flag" /\ UNCHANGED <<target, since>>
  /\ UNCHANGED <<sm, worker, current, retired, endless>>

\* Variant of Flag: the service is left alone.
FlagNobody ==
  /\ monitor = "flag" /\ monitor' = "check" /\ target' = 0 /\ since' = {}
  /\ UNCHANGED <<sm, worker, current, retired, endless>>

\* ctx->endless = true.
Flag ==
  /\ monitor = "flag" /\ monitor' = "check" /\ target' = 0 /\ since' = {}
  /\ endless' = endless \cup {target}
  /\ UNCHANGED <<sm, worker, current, retired>>
-----------------------------------------------------------------------------
(* The services.                                                           *)

\* The service asks for its "endless" statistic, which clears it: here, in an
\* endless loop too, or later on another worker.
Stat(d) ==
  /\ d \in endless /\ endless' = endless \ {d}
  /\ UNCHANGED <<sm, worker, current, monitor, target, retired, since>>

\* A service is retired, by itself or by another one.
Retire(d) ==
  /\ d \notin retired /\ retired' = retired \cup {d}
  /\ UNCHANGED <<sm, worker, current, monitor, target, endless, since>>
-----------------------------------------------------------------------------

Worker == (\E d \in Service : Begin(d)) \/ Run \/ End \/ Idle
Check == Compare \/ Record \/ Test \/ Alarm \/ Flag
-----------------------------------------------------------------------------

\* The flag of skynet_context_endless may be set on a service whose message has
\* ended since the monitor thread read destination, with the worker at another
\* service already.  What the unlocked reads of skynet_monitor_check leave: a
\* service is flagged only if a message of it was being dispatched at some
\* moment since the versions were compared, and if the worker has not
\* increased the version again, it is the service the worker is still at.
BlamesDispatched == [][\A d \in Service : d \notin endless /\ d \in endless' =>
  /\ d \in since
  /\ version = check_version => current = d]_vars

\* A callback that never returns is reported, and again each time its flag is
\* cleared (skynet_monitor_check, skynet_context_endless), as long as the
\* service can be found under its handle.
HangReported == \A d \in Service :
  <>[](worker = "run" /\ current = d /\ d \notin retired) => []<>(d \in endless)
=============================================================================
