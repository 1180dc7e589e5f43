---------------------------- MODULE SkynetStart -----------------------------
(***************************************************************************)
(* The threads of skynet-src/skynet_start.c: workers that sleep on a       *)
(* condition variable when the global queue is empty, the timer thread     *)
(* and the socket thread that wake them, the monitor thread, and the main  *)
(* thread that joins them all.  What a worker does with a queue is module  *)
(* SkynetServer; here a queue is one unit of ready, and the services are   *)
(* counted by total.  A callback may run forever.                          *)
(***************************************************************************)
EXTENDS Integers, FiniteSets

CONSTANTS
  Worker,       \* the worker threads
  MaxReady,     \* bound: queues in the global queue
  MaxTotal      \* bound: services

ASSUME WorkerAssumption == IsFiniteSet(Worker) /\ Worker # {}
ASSUME BoundAssumption == MaxReady \in Nat \ {0} /\ MaxTotal \in Nat \ {0}

Count == Cardinality(Worker)
Free == "free"          \* nobody holds the mutex

VARIABLES
  pc,           \* each worker: "loop", "dispatch", "run", "idle", "locked",
                \* "waiting", "woken", "leave", "done"
  q,            \* the workers that return to the loop with a queue in hand
  ready,        \* queues in the global queue
  total,        \* skynet_context_total()
  mutex,        \* who holds m->mutex
  sleep, quit,  \* the fields of struct monitor
  timer,        \* timer thread: "update", "check", "wakeup", "exit", "quit", "done"
  socket,       \* socket thread: "poll", "more", "wakeup", "done"
  socket_exit,  \* skynet_socket_exit was called
  monitor,      \* monitor thread: "check", "done"
  main          \* main thread: "join", "freed"

vars == <<pc, q, ready, total, mutex, sleep, quit, timer, socket, socket_exit, monitor, main>>
threads == <<timer, socket, socket_exit, monitor, main>>

\* start, after skynet_start has launched the logger and the bootstrap service.
Init ==
  /\ pc = [w \in Worker |-> "loop"] /\ q = {}
  /\ ready = 1 /\ total \in 1..MaxTotal
  /\ mutex = Free /\ sleep = 0 /\ quit = FALSE
  /\ timer = "update" /\ socket = "poll" /\ socket_exit = FALSE
  /\ monitor = "check" /\ main = "join"

Goto(w, from, to) == pc[w] = from /\ pc' = [pc EXCEPT ![w] = to]

\* Workers inside a callback; each runs a service of its own.
Running == {w \in Worker : pc[w] = "run"}
Waiting == {w \in Worker : pc[w] = "waiting"}
-----------------------------------------------------------------------------
(* A worker, thread_worker.                                                *)

\* while (!m->quit).
Loop(w) ==
  /\ Goto(w, "loop", IF quit THEN "done" ELSE "dispatch")
  /\ UNCHANGED <<q, ready, total, mutex, sleep, quit, threads>>

\* skynet_context_message_dispatch takes a queue of a service, or goes on
\* with the one in hand.
Dispatch(w) ==
  /\ Goto(w, "dispatch", "run")
  /\ total > Cardinality(Running)
  /\ w \in q \/ ready > 0
  /\ q' = q \ {w} /\ ready' = IF w \in q THEN ready ELSE ready - 1
  /\ UNCHANGED <<total, mutex, sleep, quit, threads>>

\* The next queue of the global queue, NULL if there is none.
NextQueue(w) ==
  IF ready > 0 THEN ready' = ready - 1 /\ q' = q \cup {w} /\ pc' = [pc EXCEPT ![w] = "loop"]
  ELSE ready' = ready /\ q' = q \ {w} /\ pc' = [pc EXCEPT ![w] = "idle"]

\* The queue of a service that is gone is released, or the queue is empty; the
\* next one is taken.
DispatchDead(w) ==
  /\ pc[w] = "dispatch"
  /\ IF w \in q THEN NextQueue(w)
     ELSE \/ ready > 1 /\ ready' = ready - 2 /\ q' = q \cup {w} /\ pc' = [pc EXCEPT ![w] = "loop"]
          \/ ready = 1 /\ ready' = 0 /\ q' = q /\ pc' = [pc EXCEPT ![w] = "idle"]
  /\ UNCHANGED <<total, mutex, sleep, quit, threads>>

\* There is no queue.
DispatchNothing(w) ==
  /\ Goto(w, "dispatch", "idle")
  /\ w \notin q /\ ready = 0
  /\ UNCHANGED <<q, ready, total, mutex, sleep, quit, threads>>

\* The callback sends: another queue becomes ready.  Nobody is woken.
Send(w) ==
  /\ pc[w] = "run" /\ ready < MaxReady
  /\ ready' = ready + 1
  /\ UNCHANGED <<pc, q, total, mutex, sleep, quit, threads>>

\* The callback launches a service, whose queue becomes ready.
Launch(w) ==
  /\ pc[w] = "run" /\ ready < MaxReady /\ total < MaxTotal
  /\ ready' = ready + 1 /\ total' = total + 1
  /\ UNCHANGED <<pc, q, mutex, sleep, quit, threads>>

\* The callback kills a service that is not running.
Kill(w) ==
  /\ pc[w] = "run" /\ total > Cardinality(Running)
  /\ total' = total - 1
  /\ UNCHANGED <<pc, q, ready, mutex, sleep, quit, threads>>

\* The callback returns and the queue has more messages: the worker keeps it
\* or changes it for another.  The service may be gone.
RunMore(w) ==
  /\ Goto(w, "run", "loop")
  /\ q' = q \cup {w}
  /\ total' \in {total, total - 1}
  /\ UNCHANGED <<ready, mutex, sleep, quit, threads>>

\* The callback returns and the queue is empty; the service may be gone.
RunEmpty(w) ==
  /\ pc[w] = "run"
  /\ NextQueue(w)
  /\ total' \in {total, total - 1}
  /\ UNCHANGED <<mutex, sleep, quit, threads>>

\* q == NULL: lock the mutex, ++m->sleep.
Lock(w) ==
  /\ Goto(w, "idle", "locked")
  /\ mutex = Free /\ mutex' = w
  /\ sleep' = sleep + 1
  /\ UNCHANGED <<q, ready, total, quit, threads>>

\* Variant of Sleep: quit is not looked at again.
SleepUnchecked(w) ==
  /\ Goto(w, "locked", "waiting")
  /\ mutex' = Free
  /\ UNCHANGED <<q, ready, total, sleep, quit, threads>>

\* if (!m->quit) pthread_cond_wait, which releases the mutex.
Sleep(w) ==
  /\ Goto(w, "locked", IF quit THEN "leave" ELSE "waiting")
  /\ mutex' = IF quit THEN mutex ELSE Free
  /\ UNCHANGED <<q, ready, total, sleep, quit, threads>>

\* A spurious wakeup.
Spurious(w) ==
  /\ Goto(w, "waiting", "woken")
  /\ UNCHANGED <<q, ready, total, mutex, sleep, quit, threads>>

\* pthread_cond_wait takes the mutex again.
Relock(w) ==
  /\ Goto(w, "woken", "leave")
  /\ mutex = Free /\ mutex' = w
  /\ UNCHANGED <<q, ready, total, sleep, quit, threads>>

\* Variant of Leave: the count of sleepers is not corrected.
LeaveUncounted(w) ==
  /\ Goto(w, "leave", "loop")
  /\ mutex' = Free
  /\ UNCHANGED <<q, ready, total, sleep, quit, threads>>

\* --m->sleep, unlock.
Leave(w) ==
  /\ Goto(w, "leave", "loop")
  /\ sleep' = sleep - 1 /\ mutex' = Free
  /\ UNCHANGED <<q, ready, total, quit, threads>>
-----------------------------------------------------------------------------
(* Waking workers.                                                         *)

\* pthread_cond_signal: one waiting thread, if there is one.
Signal ==
  IF Waiting = {} THEN pc' = pc ELSE \E w \in Waiting : pc' = [pc EXCEPT ![w] = "woken"]

\* wakeup(m, busy).
wakeup(busy) == IF sleep >= Count - busy THEN Signal ELSE pc' = pc

\* A message for a service may make a queue ready.
Message == ready' \in {ready, ready + 1} /\ ready' <= MaxReady /\ (total = 0 => ready' = ready)
-----------------------------------------------------------------------------
(* The timer thread, thread_timer.                                         *)

\* skynet_updatetime, and signal_hup after the sleep before it.
TimerUpdate ==
  /\ timer = "update" /\ timer' = "check"
  /\ Message
  /\ UNCHANGED <<pc, q, total, mutex, sleep, quit, socket, socket_exit, monitor, main>>

\* Variant of Check: the last service, the logger, does not count.
CheckLogger ==
  /\ timer = "check"
  /\ timer' = IF total <= 1 THEN "exit" ELSE "wakeup"
  /\ socket_exit' = (total <= 1)
  /\ UNCHANGED <<pc, q, ready, total, mutex, sleep, quit, socket, monitor, main>>

\* CHECK_ABORT; out of the loop, skynet_socket_exit.
Check ==
  /\ timer = "check"
  /\ timer' = IF total = 0 THEN "exit" ELSE "wakeup"
  /\ socket_exit' = (total = 0)
  /\ UNCHANGED <<pc, q, ready, total, mutex, sleep, quit, socket, monitor, main>>

\* Variant of TimerWakeup: wakeup(m, 0).
TimerWakeupAll ==
  /\ timer = "wakeup" /\ timer' = "update"
  /\ wakeup(0)
  /\ UNCHANGED <<q, ready, total, mutex, sleep, quit, socket, socket_exit, monitor, main>>

\* wakeup(m, m->count-1): if any worker sleeps.
TimerWakeup ==
  /\ timer = "wakeup" /\ timer' = "update"
  /\ wakeup(Count - 1)
  /\ UNCHANGED <<q, ready, total, mutex, sleep, quit, socket, socket_exit, monitor, main>>

\* The mutex is locked,
TimerLock ==
  /\ timer = "exit" /\ timer' = "quit"
  /\ mutex = Free /\ mutex' = "timer"
  /\ UNCHANGED <<pc, q, ready, total, sleep, quit, socket, socket_exit, monitor, main>>

\* and under it quit is set and every waiting worker woken.
TimerQuit ==
  /\ timer = "quit" /\ timer' = "done"
  /\ quit' = TRUE /\ mutex' = Free
  /\ pc' = [w \in Worker |-> IF w \in Waiting THEN "woken" ELSE pc[w]]
  /\ UNCHANGED <<q, ready, total, sleep, socket, socket_exit, monitor, main>>
-----------------------------------------------------------------------------
(* The other threads.                                                      *)

\* skynet_socket_poll forwards an event; more events may be at hand (r < 0).
SocketPoll ==
  /\ socket = "poll" /\ socket' \in {"more", "wakeup"}
  /\ Message
  /\ UNCHANGED <<pc, q, total, mutex, sleep, quit, timer, socket_exit, monitor, main>>

\* It returns 0 once skynet_socket_exit was called.
SocketExit ==
  /\ socket = "poll" /\ socket_exit /\ socket' = "done"
  /\ UNCHANGED <<pc, q, ready, total, mutex, sleep, quit, timer, socket_exit, monitor, main>>

\* r < 0: CHECK_ABORT.
SocketMore ==
  /\ socket = "more" /\ socket' = IF total = 0 THEN "done" ELSE "poll"
  /\ UNCHANGED <<pc, q, ready, total, mutex, sleep, quit, timer, socket_exit, monitor, main>>

\* wakeup(m, 0): only if all workers sleep.
SocketWakeup ==
  /\ socket = "wakeup" /\ socket' = "poll"
  /\ wakeup(0)
  /\ UNCHANGED <<q, ready, total, mutex, sleep, quit, timer, socket_exit, monitor, main>>

\* CHECK_ABORT of thread_monitor.
MonitorExit ==
  /\ monitor = "check" /\ total = 0 /\ monitor' = "done"
  /\ UNCHANGED <<pc, q, ready, total, mutex, sleep, quit, timer, socket, socket_exit, main>>

\* start has joined all threads, free_monitor.
Join ==
  /\ main = "join" /\ \A w \in Worker : pc[w] = "done"
  /\ timer = "done" /\ socket = "done" /\ monitor = "done"
  /\ main' = "freed"
  /\ UNCHANGED <<pc, q, ready, total, mutex, sleep, quit, timer, socket, socket_exit, monitor>>
-----------------------------------------------------------------------------

WorkerStep(w) == Loop(w) \/ Dispatch(w) \/ DispatchDead(w) \/ DispatchNothing(w)
                 \/ Lock(w) \/ Sleep(w) \/ Relock(w) \/ Leave(w)
Callback(w) == Send(w) \/ Launch(w) \/ Kill(w) \/ RunMore(w) \/ RunEmpty(w)
Timer == TimerUpdate \/ Check \/ TimerWakeup \/ TimerLock \/ TimerQuit
Socket == SocketPoll \/ SocketExit \/ SocketMore \/ SocketWakeup

Next ==
  \/ \E w \in Worker : WorkerStep(w) \/ Callback(w) \/ Spurious(w)
  \/ Timer \/ Socket \/ MonitorExit \/ Join

\* Every thread is scheduled and the mutex starves nobody.  Nothing makes a
\* callback return, an event arrive at a socket or a waiting worker wake up
\* by itself.
Fairness ==
  /\ \A w \in Worker : WF_vars(WorkerStep(w)) /\ SF_vars(Lock(w)) /\ SF_vars(Relock(w))
  /\ WF_vars(Timer) /\ SF_vars(TimerLock)
  /\ WF_vars(SocketMore \/ SocketWakeup) /\ SF_vars(SocketExit)
  /\ WF_vars(MonitorExit) /\ WF_vars(Join)
Spec == Init /\ [][Next]_vars /\ Fairness
-----------------------------------------------------------------------------

StartTypeOK ==
  /\ pc \in [Worker -> {"loop", "dispatch", "run", "idle", "locked", "waiting", "woken", "leave", "done"}]
  /\ q \subseteq Worker /\ ready \in 0..MaxReady /\ total \in 0..MaxTotal
  /\ mutex \in Worker \cup {Free, "timer"} /\ sleep \in 0..Count /\ quit \in BOOLEAN
  /\ timer \in {"update", "check", "wakeup", "exit", "quit", "done"}
  /\ socket \in {"poll", "more", "wakeup", "done"} /\ socket_exit \in BOOLEAN
  /\ monitor \in {"check", "done"} /\ main \in {"join", "freed"}

\* m->sleep, which wakeup reads without the mutex, is the number of workers
\* that are going to sleep, sleep or wake up, whatever the order of signals,
\* broadcasts and spurious wakeups (thread_worker).
SleepExact ==
  /\ StartTypeOK
  /\ sleep = Cardinality({w \in Worker : pc[w] \in {"locked", "waiting", "woken", "leave"}})

\* No thread leaves while a service is alive (CHECK_ABORT, m->quit), and the
\* workers stay until the timer thread has told them.
StopOnlyWhenEmpty ==
  /\ (timer = "done" \/ socket = "done" \/ monitor = "done" \/ quit) => total = 0
  /\ (\E w \in Worker : pc[w] = "done") => quit

\* Work is not left lying while a worker sleeps, although sends of a callback
\* wake nobody and the other workers may never come back from theirs: the
\* timer thread's wakeup(m, m->count-1) gets a sleeper up.
NobodySleepsOnWork ==
  (ready > 0 /\ Waiting # {} /\ \A w \in Worker : pc[w] \in {"waiting", "run"})
    ~> (ready = 0 \/ Waiting = {} \/ \E w \in Worker : pc[w] \notin {"waiting", "run"})

\* When the last service is gone the process ends: no worker misses m->quit,
\* every thread is joined (thread_timer, thread_worker, start).
Shutdown == total = 0 ~> main = "freed"
=============================================================================
