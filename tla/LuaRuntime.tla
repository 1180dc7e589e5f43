----------------------------- MODULE LuaRuntime -----------------------------
(* The Lua side of services (lualib/skynet.lua) and the launcher             *)
(* (service/launcher.lua): a request starts a coroutine, a call suspends it  *)
(* until its session is answered or reported as failed, and a service that   *)
(* exits reports to everybody who waits for it.  A service handles one       *)
(* message at a time; a coroutine that runs is left only where it yields.    *)
EXTENDS Integers, Sequences, FiniteSets

CONSTANTS
    Services,   \* the services, the launcher excepted
    Root,       \* the services that exist at the start
    Launcher,   \* the launcher
    Mortal,     \* bound: the services that may exit
    MaxCall,    \* bound: the calls that each service makes
    MaxFork,    \* bound: the coroutines that each service forks
    MaxCo       \* bound: coroutines that one service has at a time

All      == Services \cup {Launcher}
Sessions == UNION {1 .. MaxCall[s] + 1 : s \in Services}    \* 1 is the timer that starts a service
Co       == 1 .. MaxCo
NoCo     == 0
Nobody   == "nobody"            \* the address of no service: the timer, or none
Forked   == "forked"            \* stands for the address in a forked coroutine, which has none

ASSUME RuntimeAssumption ==
    /\ IsFiniteSet(Services)
    /\ Root \subseteq Services
    /\ Mortal \subseteq Services
    /\ Launcher \notin Services
    /\ {Nobody, Forked} \cap (Services \cup {Launcher}) = {}
    /\ MaxFork \in [Services -> Nat]
    /\ MaxCall \in [Services -> Nat]
    /\ MaxCo \in Nat \ {0}

VARIABLES
    st,                     \* "none", "up", "exiting" (its handle is retired) or "down"
    inbox,                  \* the messages of each service, in order
    left,                   \* messages that the worker's batch may still dispatch
    running,                \* the coroutine that runs in each service, or NoCo
    co,                     \* the coroutines of each service
    session_id_coroutine,   \* the coroutine that waits for a session, or NoCo
    watching_session,       \* the service that a session is waiting for
    watching_service,       \* how many users of each address a service has
    dead_service,           \* the addresses known to be dead
    error_queue,            \* sessions whose coroutine is to be failed
    instance,               \* launcher: the caller who waits for a new service
    sent,                   \* number of sessions that each service has used
    forks                   \* number of coroutines that each service has forked

vars == <<st, inbox, left, running, co, session_id_coroutine, watching_session,
          watching_service, dead_service, error_queue, instance, sent, forks>>

\* A coroutine: whom and which session it serves, if it has answered, what it
\* waits for, and if skynet.exit has told its caller (for the properties only).
NoWork == [st |-> "free", from |-> Nobody, session |-> 0, ret |-> FALSE, waits |-> 0,
           told |-> FALSE]

\* The coroutine that runs the start function of a service.
Starter == [NoWork EXCEPT !.st = "wait", !.waits = 1]

NoCaller == [from |-> Nobody, session |-> 0]

Msg(type, session, from, arg) == [type |-> type, session |-> session, from |-> from, arg |-> arg]

\* skynet.start: the start function runs when a timer of 0 ticks answers.
StartMsg == Msg("RESPONSE", 1, Nobody, Nobody)

Init ==
    /\ st = [s \in All |-> IF s \in Root \cup {Launcher} THEN "up" ELSE "none"]
    /\ inbox = [s \in All |-> IF s \in Root THEN <<StartMsg>> ELSE <<>>]
    /\ left = [s \in All |-> 0]
    /\ running = [s \in All |-> NoCo]
    /\ co = [s \in All |-> [c \in Co |-> IF c = 1 /\ s \in Services THEN Starter ELSE NoWork]]
    /\ session_id_coroutine =
         [s \in All |-> [k \in Sessions |-> IF k = 1 /\ s \in Services THEN 1 ELSE NoCo]]
    /\ watching_session = [s \in All |-> [k \in Sessions |-> Nobody]]
    /\ watching_service = [s \in All |-> [a \in All |-> 0]]
    /\ dead_service = [s \in All |-> {}]
    /\ error_queue = [s \in All |-> <<>>]
    /\ instance = [s \in Services |-> NoCaller]
    /\ sent = [s \in All |-> IF s \in Services THEN 1 ELSE 0]
    /\ forks = [s \in Services |-> 0]

-----------------------------------------------------------------------------
(* The kernel as the runtime uses it: a message to a service that has gone   *)
(* is refused.  Sends is a sequence of pairs of an address and a message.    *)

Deliver(box, to, m) ==
    IF to \in All /\ st[to] = "up" THEN [box EXCEPT ![to] = Append(@, m)] ELSE box

\* The report that session of service to has failed; c.send with PTYPE_ERROR.
ErrorTo(box, s, to, session) ==
    IF session = 0 THEN box ELSE Deliver(box, to, Msg("ERROR", session, s, Nobody))

\* Variant of release_watching: one release forgets every user of the address.
release_all(s, a) ==
    IF a \in All THEN [watching_service EXCEPT ![s][a] = 0] ELSE watching_service

release_watching(s, a) ==
    IF a \in All /\ watching_service[s][a] > 0
    THEN [watching_service EXCEPT ![s][a] = @ - 1]
    ELSE watching_service

\* Variant of Told: a report without a session names no session.
ToldNone(s, from) == {}

\* The sessions of s that wait for a service that is down.
Told(s, from) == {k \in Sessions : watching_session[s][k] = from}

\* The sequences that list a set once; pairs() has no order.
Listings(S) ==
    {q \in [1 .. Cardinality(S) -> S] : \A m, n \in DOMAIN q : q[m] = q[n] => m = n}

(* The end of suspend in service s, with the tables cs, sid and queue as the *)
(* yield has left them: the head of the error queue, if any, is resumed with *)
(* a failure.  A session whose coroutine is gone raises an error, and what   *)
(* is left of the queue stays for the next message.                          *)
Suspend(s, cs, sid, ws, queue) ==
    LET k == Head(queue)
        c == sid[k]
    IN  IF queue = <<>> \/ (queue # <<>> /\ sid[Head(queue)] = NoCo)
        THEN /\ running' = [running EXCEPT ![s] = NoCo]
             /\ co' = [co EXCEPT ![s] = cs]
             /\ session_id_coroutine' = [session_id_coroutine EXCEPT ![s] = sid]
             /\ watching_session' = [watching_session EXCEPT ![s] = ws]
             /\ error_queue' = [error_queue EXCEPT ![s] = IF queue = <<>> THEN <<>> ELSE Tail(queue)]
        ELSE /\ running' = [running EXCEPT ![s] = c]
             /\ co' = [co EXCEPT ![s] = [cs EXCEPT ![c].st = "run", ![c].waits = 0]]
             /\ session_id_coroutine' = [session_id_coroutine EXCEPT ![s] = [sid EXCEPT ![k] = NoCo]]
             /\ watching_session' = [watching_session EXCEPT ![s] = [ws EXCEPT ![k] = Nobody]]
             /\ error_queue' = [error_queue EXCEPT ![s] = Tail(queue)]

-----------------------------------------------------------------------------
(* A running coroutine. *)

\* A service whose handle is retired goes on until the worker's batch ends.
Alive(s) == st[s] \in {"up", "exiting"}

Runs(s) == Alive(s) /\ running[s] # NoCo

Me(s) == co[s][running[s]]

\* co_create takes the first coroutine that is not in use.
FirstFree(s, c) == co[s][c].st = "free" /\ \A d \in Co : d < c => co[s][d].st # "free"

\* The start function of a service runs in a coroutine that serves nobody.
IsStarter(c) == c.from = Nobody

\* skynet.call, and skynet.newservice when it is the launcher that is called.
Call(s, t, arg) ==
    LET c == running[s]
        k == sent[s] + 1
    IN  /\ Runs(s)
        /\ t # s
        /\ st[t] = "up"
        /\ k <= MaxCall[s] + 1
        /\ sent' = [sent EXCEPT ![s] = k]
        /\ inbox' = Deliver(inbox, t, Msg("CALL", k, s, arg))
        /\ Suspend(s, [co[s] EXCEPT ![c].st = "wait", ![c].waits = k],
                   [session_id_coroutine[s] EXCEPT ![k] = c],
                   [watching_session[s] EXCEPT ![k] = t], error_queue[s])
        /\ UNCHANGED <<st, left, watching_service, dead_service, instance, forks>>

CallService(s) == \E t \in Services : Call(s, t, Nobody)

NewService(s) == \E t \in Services : st[t] = "none" /\ Call(s, Launcher, t)

\* skynet.fork: the new coroutine runs when the message has been handled.
Fork(s) ==
    /\ Runs(s)
    /\ forks[s] < MaxFork[s]
    /\ forks' = [forks EXCEPT ![s] = @ + 1]
    /\ \E c \in Co :
          /\ FirstFree(s, c)
          /\ co' = [co EXCEPT ![s][c] = [NoWork EXCEPT !.st = "fork", !.from = Forked]]
    /\ UNCHANGED <<st, inbox, left, running, session_id_coroutine, watching_session, watching_service,
                   dead_service, error_queue, instance, sent>>

\* skynet.ret: the answer, unless the caller is known to be dead.
Ret(s) ==
    LET me == Me(s) IN
    /\ Runs(s)
    /\ me.session # 0
    /\ ~me.ret
    /\ co' = [co EXCEPT ![s][running[s]].ret = TRUE]
    /\ inbox' = IF me.from \in dead_service[s] THEN inbox
                ELSE Deliver(inbox, me.from, Msg("RESPONSE", me.session, s, Nobody))
    /\ UNCHANGED <<st, left, running, session_id_coroutine, watching_session, watching_service,
                   dead_service, error_queue, instance, sent, forks>>

\* The coroutine ends.  Handlers answer before they end; the start function is
\* followed by LAUNCHOK.
Finish(s) ==
    LET me == Me(s) IN
    /\ Runs(s)
    /\ me.ret \/ me.from \in {Nobody, Forked}
    /\ inbox' = IF IsStarter(me) THEN Deliver(inbox, Launcher, Msg("LAUNCHOK", 0, s, Nobody))
                ELSE inbox
    /\ watching_service' = release_watching(s, me.from)
    /\ Suspend(s, [co[s] EXCEPT ![running[s]] = NoWork], session_id_coroutine[s],
               watching_session[s], error_queue[s])
    /\ UNCHANGED <<st, left, dead_service, instance, sent, forks>>

\* The coroutine raises an error: its caller is told, answered or not, and the
\* error leaves the handling of this message.
Raise(s) ==
    LET me == Me(s) IN
    /\ Runs(s)
    /\ ~IsStarter(me)
    /\ inbox' = ErrorTo(inbox, s, me.from, me.session)
    /\ co' = [co EXCEPT ![s][running[s]] = NoWork]
    /\ running' = [running EXCEPT ![s] = NoCo]
    /\ UNCHANGED <<st, left, session_id_coroutine, watching_session, watching_service,
                   dead_service, error_queue, instance, sent, forks>>

-----------------------------------------------------------------------------
(* skynet.exit: REMOVE to the launcher, a failure to every caller that has a *)
(* coroutine here, and the end of this service to those it is calling.       *)

\* The sessions of t that coroutines of s serve.
Callers(s, t) ==
    {co[s][c].session : c \in {d \in Co : co[s][d].st # "free" /\ co[s][d].from = t
                                         /\ co[s][d].session # 0}}

Reports(s, t) ==
    LET sessions == CHOOSE q \in Listings(Callers(s, t)) : TRUE
    IN  (IF t = Launcher THEN <<Msg("REMOVE", 0, s, Nobody)>> ELSE <<>>)
        \o [n \in DOMAIN sessions |-> Msg("ERROR", sessions[n], s, Nobody)]
        \o (IF \E k \in Sessions : watching_session[s][k] = t
            THEN <<Msg("ERROR", 0, s, Nobody)>> ELSE <<>>)

\* A coroutine of the service after the exit: forks that have not run are
\* dropped, the one that called skynet.exit is not resumed any more.
AfterExit(c) ==
    IF c.st \in {"free", "fork"} THEN NoWork
    ELSE [c EXCEPT !.st = IF c.st = "run" THEN "quit" ELSE c.st, !.told = TRUE]

\* Messages before the reports: "ERROR" to the launcher if the start function
\* failed.  A handler that the batch calls after an exit may exit once more.
Leave(s, first) ==
    /\ st' = [st EXCEPT ![s] = "exiting"]
    /\ inbox' = [t \in All |->
                    IF t = s \/ st[t] # "up" THEN inbox[t]
                    ELSE inbox[t] \o (IF t = Launcher THEN first ELSE <<>>) \o Reports(s, t)]
    /\ running' = [running EXCEPT ![s] = NoCo]
    /\ co' = [co EXCEPT ![s] = [c \in Co |-> AfterExit(co[s][c])]]
    /\ UNCHANGED <<left, session_id_coroutine, watching_session, watching_service,
                   dead_service, error_queue, instance, sent, forks>>

Exit(s) == Runs(s) /\ s \in Mortal /\ Leave(s, <<>>)

\* The start function raises an error, which skynet.init_service catches.
StartFails(s) ==
    /\ Runs(s)
    /\ s \in Mortal
    /\ IsStarter(Me(s))
    /\ Leave(s, <<Msg("INITERROR", 0, s, Nobody)>>)

\* No message may be dispatched before the forks of the last one have run.
Quiet(s) == running[s] = NoCo /\ \A c \in Co : co[s][c].st # "fork"

\* The worker's batch ends, and with it the last reference to the service: the Lua
\* state is closed.  How many messages a batch has depends on the weight of the
\* worker.  Of co remain, for the properties, the requests that nobody has settled.
EndBatch(s) ==
    /\ st[s] = "exiting"
    /\ Quiet(s)
    /\ st' = [st EXCEPT ![s] = "down"]
    /\ left' = [left EXCEPT ![s] = 0]
    /\ co' = [co EXCEPT ![s] = [c \in Co |-> IF co[s][c].ret \/ co[s][c].told THEN NoWork
                                             ELSE co[s][c]]]
    /\ session_id_coroutine' = [session_id_coroutine EXCEPT ![s] = [k \in Sessions |-> NoCo]]
    /\ watching_session' = [watching_session EXCEPT ![s] = [k \in Sessions |-> Nobody]]
    /\ watching_service' = [watching_service EXCEPT ![s] = [a \in All |-> 0]]
    /\ dead_service' = [dead_service EXCEPT ![s] = {}]
    /\ error_queue' = [error_queue EXCEPT ![s] = <<>>]
    /\ UNCHANGED <<inbox, running, instance, sent, forks>>

\* Variant of Drop: the senders are not told.
DropSilently(s) ==
    /\ st[s] = "down"
    /\ inbox[s] # <<>>
    /\ inbox' = [inbox EXCEPT ![s] = Tail(@)]
    /\ UNCHANGED <<st, left, running, co, session_id_coroutine, watching_session,
                   watching_service, dead_service, error_queue, instance, sent, forks>>

\* The kernel drops what the service had not handled, and tells each sender.
Drop(s) ==
    LET m == Head(inbox[s])
        box == [inbox EXCEPT ![s] = Tail(@)]
    IN  /\ st[s] = "down"
        /\ inbox[s] # <<>>
        /\ inbox' = Deliver(box, m.from, Msg("ERROR", 0, s, Nobody))
        /\ UNCHANGED <<st, left, running, co, session_id_coroutine, watching_session,
                       watching_service, dead_service, error_queue, instance, sent, forks>>

-----------------------------------------------------------------------------
(* raw_dispatch_message: the next message of service s.  The worker calls    *)
(* the callback for each message of its batch, also after the service has    *)
(* retired its handle in one of them.                                        *)

Next1(s, type) ==
    /\ st[s] = "up" \/ (st[s] = "exiting" /\ left[s] > 0)
    /\ Quiet(s)
    /\ inbox[s] # <<>>
    /\ Head(inbox[s]).type = type

Popped(s) == [inbox EXCEPT ![s] = Tail(@)]

\* Any message may be the first of a batch, and a worker of weight 0 has then as
\* many in the batch as are left in the queue when that message is out of it.
Batch(s) ==
    [left EXCEPT ![s] = IF st[s] = "exiting" THEN @ - 1
                        ELSE IF Len(inbox[s]) > 2 THEN Len(inbox[s]) - 2 ELSE 0]

\* The coroutines that the handling of the message has forked come next.
RunFork(s) ==
    /\ Alive(s)
    /\ running[s] = NoCo
    /\ \E c \in Co :
          /\ co[s][c].st = "fork"
          /\ co' = [co EXCEPT ![s][c].st = "run"]
          /\ running' = [running EXCEPT ![s] = c]
    /\ UNCHANGED <<st, inbox, left, session_id_coroutine, watching_session, watching_service,
                   dead_service, error_queue, instance, sent, forks>>

DispatchResponse(s) ==
    LET k == Head(inbox[s]).session
        c == session_id_coroutine[s][k]
    IN  /\ Next1(s, "RESPONSE")
        /\ inbox' = Popped(s)
        /\ left' = Batch(s)
        /\ \/ /\ c = NoCo        \* unknown_response raises an error
              /\ UNCHANGED <<running, co, session_id_coroutine, watching_session>>
           \/ /\ c # NoCo
              /\ running' = [running EXCEPT ![s] = c]
              /\ co' = [co EXCEPT ![s][c].st = "run", ![s][c].waits = 0]
              /\ session_id_coroutine' = [session_id_coroutine EXCEPT ![s][k] = NoCo]
              /\ watching_session' = [watching_session EXCEPT ![s][k] = Nobody]
        /\ UNCHANGED <<st, watching_service, dead_service, error_queue, instance, sent, forks>>

\* _error_dispatch, in a coroutine that ends at once.
DispatchError(s) ==
    LET m == Head(inbox[s]) IN
    /\ Next1(s, "ERROR")
    /\ inbox' = Popped(s)
    /\ left' = Batch(s)
    /\ dead_service' = IF m.session = 0 /\ watching_service[s][m.from] > 0
                       THEN [dead_service EXCEPT ![s] = @ \cup {m.from}]
                       ELSE dead_service
    /\ \E q \in Listings(IF m.session = 0 THEN Told(s, m.from)
                         ELSE {m.session} \cap {k \in Sessions : watching_session[s][k] # Nobody}) :
          Suspend(s, co[s], session_id_coroutine[s], watching_session[s], error_queue[s] \o q)
    /\ UNCHANGED <<st, watching_service, instance, sent, forks>>

\* A request to a service starts a coroutine.
DispatchCall(s) ==
    LET m == Head(inbox[s]) IN
    /\ s # Launcher
    /\ Next1(s, "CALL")
    /\ inbox' = Popped(s)
    /\ left' = Batch(s)
    /\ \E c \in Co :
          /\ FirstFree(s, c)
          /\ co' = [co EXCEPT ![s][c] = [NoWork EXCEPT !.st = "run", !.from = m.from,
                                                       !.session = m.session]]
          /\ running' = [running EXCEPT ![s] = c]
    /\ watching_service' = [watching_service EXCEPT ![s][m.from] = @ + 1]
    /\ UNCHANGED <<st, session_id_coroutine, watching_session, dead_service, error_queue,
                   instance, sent, forks>>

-----------------------------------------------------------------------------
(* The launcher. *)

\* LAUNCH: the answer waits in instance until the new service reports.
Launch ==
    LET m == Head(inbox[Launcher])
        t == m.arg
    IN  /\ Next1(Launcher, "CALL")
        /\ \/ /\ st[t] = "none"
              /\ st' = [st EXCEPT ![t] = "up"]
              /\ inbox' = [Popped(Launcher) EXCEPT ![t] = <<StartMsg>>]
              /\ instance' = [instance EXCEPT ![t] = [from |-> m.from, session |-> m.session]]
              /\ watching_service' = [watching_service EXCEPT ![Launcher][m.from] = @ + 1]
           \/ /\ inbox' = ErrorTo(Popped(Launcher), Launcher, m.from, m.session)
              /\ UNCHANGED <<st, instance, watching_service>>
        /\ UNCHANGED <<left, running, co, session_id_coroutine, watching_session, dead_service,
                       error_queue, sent, forks>>

\* LAUNCHOK, ERROR and REMOVE answer the caller who waits for the service, once.
Report(type) ==
    LET m == Head(inbox[Launcher])
        caller == instance[m.from]
    IN  /\ Next1(Launcher, type)
        /\ inbox' = IF caller = NoCaller \/ caller.from \in dead_service[Launcher]
                    THEN Popped(Launcher)
                    ELSE Deliver(Popped(Launcher), caller.from,
                                 Msg(IF type = "INITERROR" THEN "ERROR" ELSE "RESPONSE",
                                     caller.session, Launcher, Nobody))
        /\ instance' = [instance EXCEPT ![m.from] = NoCaller]
        /\ watching_service' = release_watching(Launcher, caller.from)
        /\ UNCHANGED <<st, left, running, co, session_id_coroutine, watching_session, dead_service,
                       error_queue, sent, forks>>

-----------------------------------------------------------------------------
\* What a running coroutine may do, and what it cannot put off for ever.
Step(s) == CallService(s) \/ NewService(s) \/ Fork(s) \/ Raise(s) \/ Exit(s) \/ StartFails(s)
Progress(s) == Ret(s) \/ Finish(s)
Dispatch(s) == RunFork(s) \/ DispatchResponse(s) \/ DispatchError(s) \/ DispatchCall(s)
Launching == Launch \/ \E type \in {"LAUNCHOK", "INITERROR", "REMOVE"} : Report(type)

Next ==
    \/ \E s \in Services : Step(s) \/ Progress(s) \/ EndBatch(s) \/ Drop(s)
    \/ \E s \in All : Dispatch(s)
    \/ Launching

\* A worker serves every service that has something to do, the launcher too.
Serve(s) == Progress(s) \/ Dispatch(s) \/ EndBatch(s) \/ Drop(s)

Fairness ==
    /\ \A s \in Services : WF_vars(Serve(s))
    /\ WF_vars(Dispatch(Launcher) \/ Launching)

Spec == Init /\ [][Next]_vars /\ Fairness

-----------------------------------------------------------------------------
Messages ==
    [type : {"CALL", "RESPONSE", "ERROR", "LAUNCHOK", "INITERROR", "REMOVE"},
     session : Sessions \cup {0}, from : All \cup {Nobody}, arg : Services \cup {Nobody}]

RuntimeTypeOK ==
    /\ st \in [All -> {"none", "up", "exiting", "down"}]
    /\ inbox \in [All -> Seq(Messages)]
    /\ left \in [All -> Nat]
    /\ running \in [All -> Co \cup {NoCo}]
    /\ co \in [All -> [Co -> [st : {"free", "run", "wait", "fork", "quit"},
                               from : All \cup {Nobody, Forked}, session : Sessions \cup {0},
                               ret : BOOLEAN, waits : Sessions \cup {0}, told : BOOLEAN]]]
    /\ session_id_coroutine \in [All -> [Sessions -> Co \cup {NoCo}]]
    /\ watching_session \in [All -> [Sessions -> All \cup {Nobody}]]
    /\ watching_service \in [All -> [All -> Nat]]
    /\ dead_service \in [All -> SUBSET (All \cup {Nobody})]
    /\ error_queue \in [All -> Seq(Sessions)]
    /\ instance \in [Services -> [from : All \cup {Nobody}, session : Sessions \cup {0}]]
    /\ sent \in [All -> Sessions \cup {0}]

InBox(s, type, session, from) ==
    \E n \in DOMAIN inbox[s] :
        LET m == inbox[s][n] IN m.type = type /\ m.session = session /\ m.from = from

(* The tables of a service agree.  A coroutine waits for a session exactly   *)
(* when the session leads to it, so that an answer and a failure for the     *)
(* same call can resume it only once between them; and as long as a handler  *)
(* or an answer put off is for an address, the service watches that address. *)
CallsTracked ==
    /\ RuntimeTypeOK
    /\ \A s \in All : Alive(s) =>
          /\ \A k \in Sessions, c \in Co :
                session_id_coroutine[s][k] = c <=> (co[s][c].st = "wait" /\ co[s][c].waits = k)
          /\ \A c \in Co : co[s][c].st = "run" <=> running[s] = c
          /\ \A k \in Sessions : watching_session[s][k] # Nobody => session_id_coroutine[s][k] # NoCo
          /\ \A a \in All :
                watching_service[s][a] >=
                    Cardinality({c \in Co : co[s][c].from = a})
                    + (IF s = Launcher THEN Cardinality({t \in Services : instance[t].from = a}) ELSE 0)

\* The caller's answer waits in the launcher for a service that has still to report.
Launched(s, k) ==
    \E t \in Services :
        /\ instance[t] = [from |-> s, session |-> k]
        /\ \/ st[t] = "up" /\ \E c \in Co : co[t][c].st # "free" /\ IsStarter(co[t][c])
           \/ \E type \in {"LAUNCHOK", "INITERROR", "REMOVE"} : InBox(Launcher, type, 0, t)

\* Service t has request k of s, has not answered it, and was not in
\* skynet.exit since the request came.
Holds(t, s, k) ==
    \E c \in Co : /\ co[t][c].from = s /\ co[t][c].session = k
                  /\ ~co[t][c].ret /\ ~co[t][c].told

\* What the code does forget: a request dispatched in the rest of the batch
\* after skynet.exit, whose handler still waits when the batch ends.
Abandoned(t, s, k) == st[t] = "down" /\ Holds(t, s, k)

(* A call is forgotten in one case only.  While a coroutine waits for        *)
(* session k, the request is on its way, or somebody who will answer it has  *)
(* it, or the answer or a report of failure is on its way, or the failure is *)
(* queued: whoever raises an error, exits, fails to start or drops its queue *)
(* in between.  The case: the request was dispatched after the exit of its   *)
(* service, in the same batch, and its handler yielded (Abandoned).          *)
NobodyForgotten ==
    \A s \in Services, k \in Sessions :
        LET t == watching_session[s][k] IN
        st[s] = "up" /\ t # Nobody =>
            \/ InBox(t, "CALL", k, s)
            \/ Alive(t) /\ Holds(t, s, k)
            \/ t = Launcher /\ Launched(s, k)
            \/ InBox(s, "RESPONSE", k, t) \/ InBox(s, "ERROR", k, t) \/ InBox(s, "ERROR", 0, t)
            \/ \E n \in DOMAIN error_queue[s] : error_queue[s][n] = k
            \/ Abandoned(t, s, k)

Waiting(s, k) == st[s] = "up" /\ watching_session[s][k] # Nobody

\* A coroutine that was failed has raised an error and so left other failures in
\* the error queue, where they wait for the next message.
Stranded == \E t \in Services : error_queue[t] # <<>>

\* Somebody waits for a request that was abandoned.
Deserted ==
    \E s \in Services, k \in Sessions : Waiting(s, k) /\ Abandoned(watching_session[s][k], s, k)

(* Every call ends, with an answer or with a failure, as long as handlers go *)
(* on and answer: a coroutine that has to wait is not left waiting for ever. *)
(* The two exceptions are Stranded and Deserted.  Services make MaxCall      *)
(* calls at most, each with its own session, so that a call without an end   *)
(* is the same as somebody waiting from some time on.                        *)
CallSettles ==
    []<>(\/ \A s \in Services, k \in Sessions : ~Waiting(s, k)
         \/ Stranded
         \/ Deserted)
=============================================================================
