---------------------------- MODULE StartProofs -----------------------------
(***************************************************************************)
(* The threads of skynet_start.c keep an exact count of the sleeping       *)
(* workers and none of them leaves while a service is alive, for every     *)
(* number of workers, services and queues.                                 *)
(***************************************************************************)
EXTENDS SkynetStart, FiniteSetTheorems, TLAPS

\* The places of a worker, and those where m->sleep counts it.
Place == {"loop", "dispatch", "run", "idle", "locked", "waiting", "woken", "leave", "done"}
Asleep == {"locked", "waiting", "woken", "leave"}

\* The workers that m->sleep counts.
Sleepers == {w \in Worker : pc[w] \in Asleep}

\* A thread has seen that there is no service.
SeenEmpty == \/ socket_exit \/ quit \/ timer \in {"exit", "quit", "done"}
             \/ socket = "done" \/ monitor = "done"

\* Inductive invariant.  A worker inside a callback has a service of its own;
\* so there is nobody to launch another once all are gone, and what a thread
\* has read of the total stays true.
StartInv ==
  /\ StartTypeOK
  /\ sleep = Cardinality(Sleepers)
  /\ Cardinality(Running) <= total
  /\ SeenEmpty => total = 0
  /\ (\E w \in Worker : pc[w] = "done") => quit

\* Sets of workers are finite, and their cardinalities are numbers up to Count.
LEMMA WorkerSets ==
  ASSUME NEW S \in SUBSET Worker
  PROVE  IsFiniteSet(S) /\ Cardinality(S) \in 0..Count
<1>1. IsFiniteSet(S) /\ Cardinality(S) <= Cardinality(Worker)
  BY FS_Subset, WorkerAssumption
<1>2. Cardinality(S) \in Nat /\ Cardinality(Worker) \in Nat
  BY <1>1, FS_CardinalityType, WorkerAssumption
<1> QED
  BY <1>1, <1>2 DEF Count

\* One worker more, or one less.
LEMMA OneMore ==
  ASSUME NEW S \in SUBSET Worker, NEW w \in Worker \ S
  PROVE  Cardinality(S \cup {w}) = Cardinality(S) + 1
  BY WorkerSets, FS_AddElement

LEMMA OneLess ==
  ASSUME NEW S \in SUBSET Worker, NEW w \in S
  PROVE  Cardinality(S \ {w}) = Cardinality(S) - 1
  BY WorkerSets, FS_RemoveElement

\* A set of workers is empty when its cardinality is 0.
LEMMA NoneLeft ==
  ASSUME NEW S \in SUBSET Worker, Cardinality(S) = 0
  PROVE  S = {}
  BY WorkerSets, FS_EmptySet

\* When no service is left no worker is inside a callback.
LEMMA NobodyRuns == ASSUME StartInv, total = 0 PROVE Running = {}
<1>1. Running \in SUBSET Worker
  BY DEF Running
<1>2. Cardinality(Running) \in Nat /\ Cardinality(Running) <= 0
  BY <1>1, WorkerSets DEF StartInv
<1> QED
  BY <1>1, <1>2, NoneLeft

\* start begins with all workers awake and at least one service.
LEMMA InitStart == Init => StartInv
<1> SUFFICES ASSUME Init PROVE StartInv
  OBVIOUS
<1>1. Sleepers = {} /\ Running = {}
  BY DEF Init, Sleepers, Running, Asleep
<1>2. Count \in Nat
  BY FS_CardinalityType, WorkerAssumption DEF Count
<1>3. StartTypeOK
  <2>1. quit \in BOOLEAN /\ socket_exit \in BOOLEAN
    BY Zenon DEF Init
  <2>2. ready \in 0..MaxReady /\ total \in 0..MaxTotal /\ sleep \in 0..Count
    BY <1>2, BoundAssumption DEF Init
  <2> QED
    BY <2>1, <2>2 DEF Init, StartTypeOK, Place
<1>4. sleep = Cardinality(Sleepers)
  BY <1>1, FS_EmptySet DEF Init
<1>5. Cardinality(Running) <= total
  BY <1>1, FS_EmptySet, BoundAssumption DEF Init
<1>6. ~SeenEmpty
  BY DEF Init, SeenEmpty
<1>7. ~\E w \in Worker : pc[w] = "done"
  BY DEF Init
<1> QED
  BY <1>3, <1>4, <1>5, <1>6, <1>7 DEF StartInv

\* A worker that goes to another place of thread_worker changes the two counts
\* as its old and its new place say.
LEMMA Move ==
  ASSUME StartInv, NEW w \in Worker,
         NEW to \in Place,
         pc' = [pc EXCEPT ![w] = to]
  PROVE  /\ pc' \in [Worker -> Place]
         /\ Cardinality(Sleepers)' =
              (IF w \in Sleepers THEN Cardinality(Sleepers) - 1 ELSE Cardinality(Sleepers))
              + (IF to \in Asleep THEN 1 ELSE 0)
         /\ Cardinality(Running)' =
              (IF w \in Running THEN Cardinality(Running) - 1 ELSE Cardinality(Running))
              + (IF to = "run" THEN 1 ELSE 0)
         /\ (\E v \in Worker : pc'[v] = "done") => to = "done" \/ \E v \in Worker : pc[v] = "done"
<1>1. pc' \in [Worker -> Place]
  BY DEF StartInv, StartTypeOK, Place
<1>2. Sleepers \in SUBSET Worker /\ Running \in SUBSET Worker
  BY DEF Sleepers, Running
<1>3. Cardinality(Sleepers) \in Nat /\ Cardinality(Running) \in Nat
  BY <1>2, WorkerSets
<1>4. Cardinality(Sleepers \ {w}) = IF w \in Sleepers THEN Cardinality(Sleepers) - 1 ELSE Cardinality(Sleepers)
  BY <1>2, WorkerSets, FS_RemoveElement
<1>5. Cardinality(Running \ {w}) = IF w \in Running THEN Cardinality(Running) - 1 ELSE Cardinality(Running)
  BY <1>2, WorkerSets, FS_RemoveElement
<1>6. Sleepers' = IF to \in Asleep THEN (Sleepers \ {w}) \cup {w}
                  ELSE Sleepers \ {w}
  BY DEF Sleepers, StartInv, StartTypeOK
<1>7. Running' = IF to = "run" THEN (Running \ {w}) \cup {w} ELSE Running \ {w}
  BY DEF Running, StartInv, StartTypeOK
<1>8. /\ Cardinality((Sleepers \ {w}) \cup {w}) = Cardinality(Sleepers \ {w}) + 1
      /\ Cardinality((Running \ {w}) \cup {w}) = Cardinality(Running \ {w}) + 1
  <2>1. /\ Sleepers \ {w} \in SUBSET Worker /\ w \in Worker \ (Sleepers \ {w})
        /\ Running \ {w} \in SUBSET Worker /\ w \in Worker \ (Running \ {w})
    BY <1>2
  <2> QED
    BY <2>1, OneMore
<1>9. Cardinality(Sleepers)' =
        (IF w \in Sleepers THEN Cardinality(Sleepers) - 1 ELSE Cardinality(Sleepers))
        + (IF to \in Asleep THEN 1 ELSE 0)
  BY <1>3, <1>4, <1>6, <1>8
<1>10. Cardinality(Running)' =
        (IF w \in Running THEN Cardinality(Running) - 1 ELSE Cardinality(Running))
        + (IF to = "run" THEN 1 ELSE 0)
  BY <1>3, <1>5, <1>7, <1>8
<1>11. (\E v \in Worker : pc'[v] = "done") => to = "done" \/ \E v \in Worker : pc[v] = "done"
  BY DEF StartInv, StartTypeOK
<1> QED
  BY <1>1, <1>9, <1>10, <1>11

\* Where every worker stays both counts stay.
LEMMA Stay ==
  ASSUME StartInv, pc' = pc
  PROVE  /\ pc' \in [Worker -> Place]
         /\ Cardinality(Sleepers)' = Cardinality(Sleepers)
         /\ Cardinality(Running)' = Cardinality(Running)
         /\ (\E v \in Worker : pc'[v] = "done") <=> \E v \in Worker : pc[v] = "done"
<1>1. Sleepers' = Sleepers /\ Running' = Running
  BY DEF Sleepers, Running
<1> QED
  BY <1>1 DEF StartInv, StartTypeOK, Place

\* The counts are numbers, and no more workers are counted than there are.
LEMMA Counts ==
  ASSUME StartInv
  PROVE  /\ Cardinality(Sleepers) \in Nat /\ Cardinality(Running) \in Nat /\ Count \in Nat
         /\ total \in Nat /\ ready \in Nat /\ total <= MaxTotal /\ ready <= MaxReady
<1>1. Sleepers \in SUBSET Worker /\ Running \in SUBSET Worker
  BY DEF Sleepers, Running
<1>2. Cardinality(Sleepers) \in Nat /\ Cardinality(Running) \in Nat
  BY <1>1, WorkerSets
<1>3. Count \in Nat
  BY WorkerAssumption, FS_CardinalityType DEF Count
<1> QED
  BY <1>2, <1>3, BoundAssumption DEF StartInv, StartTypeOK

\* In every state.
LEMMA SleepersBound == Cardinality(Sleepers) \in 0..Count
<1>1. Sleepers \in SUBSET Worker
  BY DEF Sleepers
<1> QED
  BY <1>1, WorkerSets

\* What is left to show of a step of a worker, once its place and the total
\* are known.
LEMMA WorkerFrame ==
  ASSUME StartInv, UNCHANGED <<quit, threads>>,
         pc' \in [Worker -> Place], q' \subseteq Worker, ready' \in 0..MaxReady, total' \in 0..MaxTotal,
         mutex' \in Worker \cup {Free, "timer"},
         sleep' = Cardinality(Sleepers)', Cardinality(Running)' <= total', total = 0 => total' = 0,
         (\E v \in Worker : pc'[v] = "done") => quit
  PROVE  StartInv'
<1>1. sleep' \in 0..Count
  <2>1. (Cardinality(Sleepers) \in 0..Count)'
    BY SleepersBound, PTL
  <2>2. Count' = Count
    BY DEF Count
  <2> QED
    BY <2>1, <2>2
<1>2. UNCHANGED <<quit, timer, socket, socket_exit, monitor, main>>
  BY DEF threads
<1>3. StartTypeOK'
  BY <1>1, <1>2 DEF StartInv, StartTypeOK, Place, Count, Free
<1>4. SeenEmpty' = SeenEmpty
  BY <1>2 DEF SeenEmpty
<1> QED
  BY <1>2, <1>3, <1>4 DEF StartInv

\* A step of a worker to another place that changes m->sleep and the total as
\* the two places ask.
MoveOK(w, to) ==
  /\ pc' = [pc EXCEPT ![w] = to] /\ UNCHANGED <<quit, threads>>
  /\ q' \subseteq Worker /\ ready' \in 0..MaxReady /\ total' \in 0..MaxTotal
  /\ mutex' \in Worker \cup {Free, "timer"}
  /\ to = "done" => quit
  /\ total = 0 => total' = 0
  /\ sleep' = (IF pc[w] \in Asleep THEN sleep - 1 ELSE sleep) + (IF to \in Asleep THEN 1 ELSE 0)
  /\ (IF pc[w] = "run" THEN Cardinality(Running) - 1 ELSE Cardinality(Running))
       + (IF to = "run" THEN 1 ELSE 0) <= total'

\* Such a step keeps the invariant.
LEMMA MoveFrame ==
  ASSUME StartInv, NEW w \in Worker, NEW to \in Place, MoveOK(w, to)
  PROVE  StartInv'
<1> USE DEF MoveOK
<1>1. /\ w \in Running <=> pc[w] = "run"
      /\ w \in Sleepers <=> pc[w] \in Asleep
  BY DEF Running, Sleepers
<1>2. pc' \in [Worker -> Place]
  BY Move
<1>3. Cardinality(Sleepers)' = sleep'
  <2>1. sleep = Cardinality(Sleepers)
    BY DEF StartInv
  <2>2. Cardinality(Sleepers)' =
              (IF w \in Sleepers THEN Cardinality(Sleepers) - 1 ELSE Cardinality(Sleepers))
              + (IF to \in Asleep THEN 1 ELSE 0)
    BY Move
  <2> QED
    BY <1>1, <2>1, <2>2
<1>4. Cardinality(Running)' <= total'
  <2>1. Cardinality(Running)' =
              (IF w \in Running THEN Cardinality(Running) - 1 ELSE Cardinality(Running))
              + (IF to = "run" THEN 1 ELSE 0)
    BY Move
  <2> QED
    BY <1>1, <2>1
<1>5. (\E v \in Worker : pc'[v] = "done") => quit
  BY Move DEF StartInv
<1> QED
  BY <1>2, <1>3, <1>4, <1>5, WorkerFrame

\* The steps of a worker outside the mutex: while (!m->quit), and
\* skynet_context_message_dispatch with its callback.
LEMMA DispatchStep ==
  ASSUME StartInv, NEW w \in Worker,
         Loop(w) \/ Dispatch(w) \/ DispatchDead(w) \/ DispatchNothing(w) \/ Callback(w)
  PROVE  StartInv'
<1> USE Counts, BoundAssumption DEF Place, Asleep
<1>0. /\ pc \in [Worker -> Place] /\ q \subseteq Worker /\ mutex \in Worker \cup {Free, "timer"}
      /\ sleep = Cardinality(Sleepers) /\ Cardinality(Running) <= total
      /\ ready \in 0..MaxReady /\ total \in 0..MaxTotal
      /\ (\E v \in Worker : pc[v] = "done") => quit
  BY DEF StartInv, StartTypeOK
<1>a. w \in Running <=> pc[w] = "run"
  BY DEF Running
<1>c. w \in Running => Cardinality(Running) > 0
  <2>1. Running \in SUBSET Worker
    BY DEF Running
  <2> QED
    BY <2>1, NoneLeft
<1>1. CASE Loop(w)
  <2>1. PICK to \in {"done", "dispatch"} : pc' = [pc EXCEPT ![w] = to] /\ (to = "done" => quit)
    BY <1>1 DEF Loop, Goto
  <2>2. pc[w] = "loop" /\ UNCHANGED <<q, ready, total, mutex, sleep, quit, threads>>
    BY <1>1 DEF Loop, Goto
  <2>3. MoveOK(w, to)
    BY <1>0, <2>1, <2>2 DEF MoveOK
  <2> QED
    BY <2>3, MoveFrame
<1>2. CASE Dispatch(w)
  <2>1. /\ pc[w] = "dispatch" /\ pc' = [pc EXCEPT ![w] = "run"] /\ total > Cardinality(Running)
        /\ q' = q \ {w} /\ ready' \in {ready, ready - 1} /\ (ready' = ready - 1 => ready > 0)
        /\ UNCHANGED <<total, mutex, sleep, quit, threads>>
    BY <1>2 DEF Dispatch, Goto
  <2>2. MoveOK(w, "run")
    BY <1>0, <2>1 DEF MoveOK
  <2> QED
    BY <2>2, MoveFrame
<1>3. ASSUME NextQueue(w)
      PROVE  /\ q' \subseteq Worker /\ ready' \in 0..MaxReady
             /\ \E to \in {"loop", "idle"} : pc' = [pc EXCEPT ![w] = to]
  <2>1. CASE ready > 0
    BY <1>0, <1>3, <2>1 DEF NextQueue
  <2>2. CASE ~(ready > 0)
    BY <1>0, <1>3, <2>2 DEF NextQueue
  <2> QED
    BY <2>1, <2>2
<1>4. CASE DispatchDead(w)
  <2>1. /\ pc[w] = "dispatch" /\ q' \subseteq Worker /\ ready' \in 0..MaxReady
        /\ UNCHANGED <<total, mutex, sleep, quit, threads>>
    BY <1>0, <1>3, <1>4 DEF DispatchDead
  <2>2. PICK to \in {"loop", "idle"} : pc' = [pc EXCEPT ![w] = to]
    BY <1>3, <1>4 DEF DispatchDead
  <2>3. MoveOK(w, to)
    BY <1>0, <2>1, <2>2 DEF MoveOK
  <2> QED
    BY <2>3, MoveFrame
<1>5. CASE DispatchNothing(w)
  <2>1. /\ pc[w] = "dispatch" /\ pc' = [pc EXCEPT ![w] = "idle"]
        /\ UNCHANGED <<q, ready, total, mutex, sleep, quit, threads>>
    BY <1>5 DEF DispatchNothing, Goto
  <2>2. MoveOK(w, "idle")
    BY <1>0, <2>1 DEF MoveOK
  <2> QED
    BY <2>2, MoveFrame
<1>6. CASE Send(w) \/ Launch(w) \/ Kill(w)
  <2>1. /\ pc[w] = "run" /\ ready' \in 0..MaxReady /\ total' \in 0..MaxTotal
        /\ Cardinality(Running) <= total'
        /\ UNCHANGED <<pc, q, mutex, sleep, quit, threads>>
    BY <1>0, <1>6 DEF Send, Launch, Kill
  <2>2. total # 0
    BY <1>0, <1>a, <1>c, <2>1
  <2> QED
    BY <1>0, <2>1, <2>2, Stay, WorkerFrame
<1>7. CASE RunMore(w) \/ RunEmpty(w)
  <2>1. /\ pc[w] = "run" /\ q' \subseteq Worker /\ ready' \in 0..MaxReady
        /\ total' \in {total, total - 1}
        /\ UNCHANGED <<mutex, sleep, quit, threads>>
    BY <1>0, <1>3, <1>7 DEF RunMore, RunEmpty, Goto
  <2>2. PICK to \in {"loop", "idle"} : pc' = [pc EXCEPT ![w] = to]
    BY <1>3, <1>7 DEF RunMore, RunEmpty, Goto
  <2>3. total # 0
    BY <1>0, <1>a, <1>c, <2>1
  <2>4. MoveOK(w, to)
    BY <1>0, <2>1, <2>2, <2>3 DEF MoveOK
  <2> QED
    BY <2>4, MoveFrame
<1> QED
  BY <1>1, <1>2, <1>4, <1>5, <1>6, <1>7 DEF Callback

\* The steps of a worker that goes to sleep: under the mutex, in
\* pthread_cond_wait and on the way out.
LEMMA SleepStep ==
  ASSUME StartInv, NEW w \in Worker, Lock(w) \/ Sleep(w) \/ Spurious(w) \/ Relock(w) \/ Leave(w)
  PROVE  StartInv'
<1> USE Counts, BoundAssumption DEF Place, Asleep
<1>0. /\ pc \in [Worker -> Place] /\ q \subseteq Worker /\ mutex \in Worker \cup {Free, "timer"}
      /\ sleep = Cardinality(Sleepers) /\ Cardinality(Running) <= total
      /\ ready \in 0..MaxReady /\ total \in 0..MaxTotal
      /\ (\E v \in Worker : pc[v] = "done") => quit
  BY DEF StartInv, StartTypeOK
<1>1. CASE Lock(w)
  <2>1. /\ pc[w] = "idle" /\ pc' = [pc EXCEPT ![w] = "locked"] /\ mutex' = w /\ sleep' = sleep + 1
        /\ UNCHANGED <<q, ready, total, quit, threads>>
    BY <1>1 DEF Lock, Goto
  <2>2. MoveOK(w, "locked")
    BY <1>0, <2>1 DEF MoveOK
  <2> QED
    BY <2>2, MoveFrame
<1>2. CASE Sleep(w)
  <2>1. PICK to \in {"leave", "waiting"} : pc' = [pc EXCEPT ![w] = to]
    BY <1>2 DEF Sleep, Goto
  <2>2. /\ pc[w] = "locked" /\ mutex' \in {mutex, Free}
        /\ UNCHANGED <<q, ready, total, sleep, quit, threads>>
    BY <1>2 DEF Sleep, Goto
  <2>3. MoveOK(w, to)
    BY <1>0, <2>1, <2>2 DEF MoveOK
  <2> QED
    BY <2>3, MoveFrame
<1>3. CASE Spurious(w)
  <2>1. /\ pc[w] = "waiting" /\ pc' = [pc EXCEPT ![w] = "woken"]
        /\ UNCHANGED <<q, ready, total, mutex, sleep, quit, threads>>
    BY <1>3 DEF Spurious, Goto
  <2>2. MoveOK(w, "woken")
    BY <1>0, <2>1 DEF MoveOK
  <2> QED
    BY <2>2, MoveFrame
<1>4. CASE Relock(w)
  <2>1. /\ pc[w] = "woken" /\ pc' = [pc EXCEPT ![w] = "leave"] /\ mutex' = w
        /\ UNCHANGED <<q, ready, total, sleep, quit, threads>>
    BY <1>4 DEF Relock, Goto
  <2>2. MoveOK(w, "leave")
    BY <1>0, <2>1 DEF MoveOK
  <2> QED
    BY <2>2, MoveFrame
<1>5. CASE Leave(w)
  <2>1. /\ pc[w] = "leave" /\ pc' = [pc EXCEPT ![w] = "loop"] /\ mutex' = Free /\ sleep' = sleep - 1
        /\ UNCHANGED <<q, ready, total, quit, threads>>
    BY <1>5 DEF Leave, Goto
  <2>2. MoveOK(w, "loop")
    BY <1>0, <2>1 DEF MoveOK
  <2> QED
    BY <2>2, MoveFrame
<1> QED
  BY <1>1, <1>2, <1>3, <1>4, <1>5

\* Waking waiting workers, one or all, leaves both counts alone: m->sleep goes
\* down only when the worker itself has the mutex again.
LEMMA Woken ==
  ASSUME StartInv, pc' \in [Worker -> Place],
         \A w \in Worker : pc'[w] = pc[w] \/ (pc[w] = "waiting" /\ pc'[w] = "woken")
  PROVE  /\ Sleepers' = Sleepers /\ Running' = Running
         /\ (\E v \in Worker : pc'[v] = "done") => \E v \in Worker : pc[v] = "done"
  BY DEF Sleepers, Running, Asleep

\* wakeup(m, busy) wakes one worker at most.
LEMMA WakeupOne ==
  ASSUME StartInv, NEW busy, wakeup(busy)
  PROVE  /\ pc' \in [Worker -> Place]
         /\ \A w \in Worker : pc'[w] = pc[w] \/ (pc[w] = "waiting" /\ pc'[w] = "woken")
<1>1. pc \in [Worker -> Place]
  BY DEF StartInv, StartTypeOK, Place
<1>2. pc' = pc \/ \E w \in Waiting : pc' = [pc EXCEPT ![w] = "woken"]
  BY DEF wakeup, Signal
<1>3. CASE pc' = pc
  BY <1>1, <1>3
<1>4. CASE \E w \in Waiting : pc' = [pc EXCEPT ![w] = "woken"]
  <2>1. PICK w \in Waiting : pc' = [pc EXCEPT ![w] = "woken"]
    BY <1>4
  <2>2. w \in Worker /\ pc[w] = "waiting" /\ "woken" \in Place
    BY DEF Waiting, Place
  <2> QED
    BY <1>1, <2>1, <2>2
<1> QED
  BY <1>2, <1>3, <1>4

\* The steps of the threads that are not workers: they change neither the
\* total nor the count of sleepers, and note that there is no service only
\* when the total is 0.
LEMMA ThreadStep ==
  ASSUME StartInv, Timer \/ Socket \/ MonitorExit \/ Join
  PROVE  StartInv'
<1> USE BoundAssumption, Counts
<1>1. /\ pc' \in [Worker -> Place]
      /\ \A w \in Worker : pc'[w] = pc[w] \/ (pc[w] = "waiting" /\ pc'[w] = "woken")
  <2>1. CASE pc' = pc
    BY <2>1 DEF StartInv, StartTypeOK, Place
  <2>2. CASE TimerWakeup \/ SocketWakeup
    BY <2>2, WakeupOne DEF TimerWakeup, SocketWakeup
  <2>3. CASE TimerQuit
    <3>1. pc' = [w \in Worker |-> IF pc[w] = "waiting" THEN "woken" ELSE pc[w]]
      BY <2>3 DEF TimerQuit, Waiting
    <3> QED
      BY <3>1 DEF StartInv, StartTypeOK, Place
  <2> QED
    BY <2>1, <2>2, <2>3 DEF Timer, TimerUpdate, Check, TimerLock, Socket, SocketPoll, SocketExit,
       SocketMore, MonitorExit, Join
<1>2. /\ Sleepers' = Sleepers /\ Running' = Running
      /\ (\E v \in Worker : pc'[v] = "done") => quit
  BY <1>1, Woken DEF StartInv
<1>3. total' = total /\ sleep' = sleep /\ q' = q
  BY DEF Timer, TimerUpdate, Check, TimerWakeup, TimerLock, TimerQuit, Socket, SocketPoll, SocketExit,
     SocketMore, SocketWakeup, MonitorExit, Join
<1>4. ready' \in 0..MaxReady
  <2>1. Message => ready' \in 0..MaxReady
    BY DEF Message
  <2>2. ready' = ready => ready' \in 0..MaxReady
    BY DEF StartInv, StartTypeOK
  <2> QED
    BY <2>1, <2>2 DEF Timer, TimerUpdate, Check, TimerWakeup, TimerLock, TimerQuit, Socket, SocketPoll,
       SocketExit, SocketMore, SocketWakeup, MonitorExit, Join
<1>5. mutex' \in Worker \cup {Free, "timer"}
  BY DEF StartInv, StartTypeOK, Timer, TimerUpdate, Check, TimerWakeup, TimerLock, TimerQuit, Socket,
     SocketPoll, SocketExit, SocketMore, SocketWakeup, MonitorExit, Join
<1>6. /\ timer' \in {"update", "check", "wakeup", "exit", "quit", "done"}
      /\ socket' \in {"poll", "more", "wakeup", "done"}
      /\ monitor' \in {"check", "done"} /\ main' \in {"join", "freed"}
  BY DEF StartInv, StartTypeOK, Timer, TimerUpdate, Check, TimerWakeup, TimerLock, TimerQuit, Socket,
     SocketPoll, SocketExit, SocketMore, SocketWakeup, MonitorExit, Join
<1>7. quit' \in BOOLEAN /\ socket_exit' \in BOOLEAN /\ (quit => quit')
  BY Zenon DEF StartInv, StartTypeOK, Timer, TimerUpdate, Check, TimerWakeup, TimerLock, TimerQuit, Socket,
     SocketPoll, SocketExit, SocketMore, SocketWakeup, MonitorExit, Join
<1>8. SeenEmpty' => total' = 0
  BY DEF StartInv, SeenEmpty, Timer, TimerUpdate, Check, TimerWakeup, TimerLock, TimerQuit, Socket,
     SocketPoll, SocketExit, SocketMore, SocketWakeup, MonitorExit, Join
<1>9. StartTypeOK'
  BY <1>1, <1>3, <1>4, <1>5, <1>6, <1>7 DEF StartInv, StartTypeOK, Place, Count, Free
<1>10. Cardinality(Sleepers') = sleep' /\ Cardinality(Running') <= total'
  BY <1>2, <1>3 DEF StartInv
<1> QED
  BY <1>2, <1>7, <1>8, <1>9, <1>10 DEF StartInv

\* Every step keeps the invariant.
LEMMA NextStart == StartInv /\ [Next]_vars => StartInv'
<1> SUFFICES ASSUME StartInv, [Next]_vars PROVE StartInv'
  OBVIOUS
<1>1. CASE \E w \in Worker : WorkerStep(w) \/ Callback(w) \/ Spurious(w)
  BY <1>1, DispatchStep, SleepStep DEF WorkerStep
<1>2. CASE Timer \/ Socket \/ MonitorExit \/ Join
  BY <1>2, ThreadStep
<1>3. CASE UNCHANGED vars
  BY <1>3 DEF vars, StartInv, StartTypeOK, Sleepers, Running, SeenEmpty, Count, Free
<1> QED
  BY <1>1, <1>2, <1>3 DEF Next

\* The invariant holds throughout.
LEMMA StartAlways == Spec => []StartInv
  BY InitStart, NextStart, PTL DEF Spec

\* m->sleep, which wakeup reads without the mutex, is exactly the number of
\* workers on their way into, in and out of pthread_cond_wait, for every
\* number of workers and however signals, the final broadcast and spurious
\* wakeups interleave (thread_worker, thread_timer).
THEOREM SleepCounted == Spec => []SleepExact
<1>1. StartInv => SleepExact
  BY DEF StartInv, SleepExact, Sleepers, Asleep
<1> QED
  BY <1>1, StartAlways, PTL

\* No thread leaves its loop while a service is alive, and no worker before
\* the timer thread has set m->quit, for every number of workers and services
\* (CHECK_ABORT, thread_timer, thread_worker).
THEOREM StopsEmpty == Spec => []StopOnlyWhenEmpty
<1>1. StartInv => StopOnlyWhenEmpty
  BY DEF StartInv, SeenEmpty, StopOnlyWhenEmpty
<1> QED
  BY <1>1, StartAlways, PTL

\* Once the last service is gone there is never another: nobody is left inside
\* a callback to launch one, so that what CHECK_ABORT has read cannot become
\* stale before its thread acts on it.
THEOREM EmptyForever == Spec => [][total = 0 => total' = 0]_vars
<1>1. ASSUME StartInv, [Next]_vars, total = 0 PROVE total' = 0
  <2>1. \A w \in Worker : pc[w] # "run"
    BY <1>1, NobodyRuns DEF Running
  <2>2. \A w \in Worker : ~Callback(w)
    BY <2>1 DEF Callback, Send, Launch, Kill, RunMore, RunEmpty, Goto
  <2>3. ASSUME NEW w \in Worker, WorkerStep(w) \/ Spurious(w) PROVE total' = total
    BY <2>3 DEF WorkerStep, Loop, Dispatch, DispatchDead, DispatchNothing, Lock, Sleep, Relock, Leave, Spurious
  <2>4. Timer \/ Socket \/ MonitorExit \/ Join \/ UNCHANGED vars => total' = total
    BY DEF Timer, TimerUpdate, Check, TimerWakeup, TimerLock, TimerQuit, Socket, SocketPoll, SocketExit,
       SocketMore, SocketWakeup, MonitorExit, Join, vars
  <2> QED
    BY <1>1, <2>2, <2>3, <2>4 DEF Next
<1>2. StartInv /\ [Next]_vars => [total = 0 => total' = 0]_vars
  BY <1>1
<1> QED
  BY <1>2, StartAlways, PTL DEF Spec
=============================================================================
