---------------------------- MODULE SkynetServer ----------------------------
(***************************************************************************)
(* The kernel of skynet: service contexts, their reference counts, the     *)
(* worker threads that dispatch messages, and the commands a callback may  *)
(* issue while it runs (skynet-src/skynet_server.c, with the parts of      *)
(* skynet_handle.c that own references).                                   *)
(*                                                                         *)
(* One action is one critical section or one atomic instruction, so        *)
(* everything another thread can do between two of them is explored.  A    *)
(* thread's call stack has at most three frames, one variable each:        *)
(*   disp[t]  skynet_context_message_dispatch of a worker ("ext": a timer  *)
(*            or socket thread, which only sends);                         *)
(*   cmd[t]   a LAUNCH (skynet_context_new) or ABORT                       *)
(*            (skynet_handle_retireall) issued by the running callback;    *)
(*   op[t]    skynet_send, skynet_context_release or skynet_handle_retire, *)
(*            called from either of the others.                            *)
(* A frame moves only while the frames above it are idle.  An init         *)
(* function that itself launches services is the nesting left out.         *)
(***************************************************************************)
EXTENDS SkynetMQ, FiniteSets

CONSTANTS
  Workers,     \* worker threads
  Others,      \* threads that only send: the timer and the socket thread
  Weight,      \* Weight[w]: the worker's share of a queue, -1 for one message
  Boot,        \* the service bootstrap() launched before the threads start
  BootMsg,     \* the message that its init function sent to itself
  Monitor,     \* the service that registers itself as monitor, if any
  NoCallback,  \* services whose init function never calls skynet_callback
  Killable,    \* bound: the services that KILL and EXIT are used on
  MayAbort     \* bound: whether a callback may issue ABORT

Threads == Workers \cup Others

ASSUME ThreadAssumption ==
  /\ IsFiniteSet(Workers) /\ IsFiniteSet(Others) /\ IsFiniteSet(Services)
  /\ Workers \cap Others = {}
ASSUME WeightAssumption == Weight \in [Workers -> {-1} \cup Nat]
ASSUME BootAssumption == Boot \in Services /\ BootMsg \in Msgs
ASSUME BoundAssumption ==
  /\ Monitor \in Services \cup {NoService}
  /\ NoCallback \subseteq Services /\ Killable \subseteq Services
  /\ MayAbort \in BOOLEAN

VARIABLES
  slot,     \* slot[s]: handle_storage still maps the handle of s to its context
  ctx,      \* the memory of the context: "none", "live" or "freed"
  ref,      \* ctx[s].ref
  init,     \* ctx[s].init
  total,    \* G_NODE.total
  op, cmd, disp,
  fate      \* history: what became of each ordinary message

vars == <<globalq, queue, in_global, release, qmem,
          slot, ctx, ref, init, total, op, cmd, disp, fate>>

-----------------------------------------------------------------------------
(* Stack frames.                                                           *)

Null == Services \cup {NoService}

OpFrame == [pc : {"idle", "grab", "push", "rel", "del", "retire"},
            svc : Null, msg : Message \cup {NoMessage}, victim : Null]

CmdFrame == [pc : {"idle", "mq", "init", "setinit", "push",
                   "retire", "mqrel", "drop", "abort"},
             svc : Null, scan : SUBSET Services, hit : BOOLEAN]

DispFrame == [pc : {"ext", "idle", "grab", "mqrel", "drop", "next",
                    "pop", "len", "call", "cb", "end", "back"},
              q : Null, nq : Null, i : Nat, n : Nat,
              msg : Message \cup {NoMessage}]

IdleOp == [pc |-> "idle", svc |-> NoService, msg |-> NoMessage, victim |-> NoService]
\* skynet_send of m to d; then, in handle_exit, skynet_handle_retire(v).
SendOp(m, d, v) == [pc |-> "grab", svc |-> d, msg |-> m, victim |-> v]
ReleaseOp(s) == [pc |-> "rel", svc |-> s, msg |-> NoMessage, victim |-> NoService]
RetireOp(s) == [pc |-> "retire", svc |-> s, msg |-> NoMessage, victim |-> NoService]

\* The frame moves to another place and keeps the rest.
OpTo(f, pc) == [pc |-> pc, svc |-> f.svc, msg |-> f.msg, victim |-> f.victim]
CmdTo(f, pc) == [pc |-> pc, svc |-> f.svc, scan |-> f.scan, hit |-> f.hit]
DispTo(f, pc) == [pc |-> pc, q |-> f.q, nq |-> f.nq, i |-> f.i, n |-> f.n, msg |-> f.msg]

IdleCmd == [pc |-> "idle", svc |-> NoService, scan |-> {}, hit |-> FALSE]

Scan(rest, hit) == [pc |-> "abort", svc |-> NoService, scan |-> rest, hit |-> hit]

DispAt(pc, q) == [pc |-> pc, q |-> q, nq |-> NoService, i |-> 0, n |-> 1,
                  msg |-> NoMessage]

Fates == {"unsent", "sending", "refused", "queued", "held", "dispatched",
          "discarded", "dropped", "reporting", "reported", "unreported"}

TypeOK ==
  /\ MQTypeOK
  /\ slot \in [Services -> BOOLEAN]
  /\ ctx \in [Services -> {"none", "live", "freed"}]
  /\ ref \in [Services -> Nat]
  /\ init \in [Services -> BOOLEAN]
  /\ total \in Int
  /\ op \in [Threads -> OpFrame]
  /\ cmd \in [Threads -> CmdFrame]
  /\ disp \in [Threads -> DispFrame]
  /\ fate \in [Msgs -> Fates]

\* A message's history advances; messages without an identity have none.
Fate(m, f) == IF m.id \in Msgs THEN [fate EXCEPT ![m.id] = f] ELSE fate

-----------------------------------------------------------------------------
(* The node when skynet_start creates its threads: bootstrap() has         *)
(* launched one service, whose init function sent itself a message.        *)

Init ==
  /\ globalq = <<Boot>>
  /\ queue = [s \in Services |-> IF s = Boot
                THEN <<[typ |-> "req", id |-> BootMsg, src |-> Boot]>> ELSE <<>>]
  /\ in_global = [s \in Services |-> IF s = Boot THEN 1 ELSE 0]
  /\ release = [s \in Services |-> 0]
  /\ qmem = [s \in Services |-> IF s = Boot THEN "live" ELSE "none"]
  /\ slot = [s \in Services |-> s = Boot]
  /\ ctx = [s \in Services |-> IF s = Boot THEN "live" ELSE "none"]
  /\ ref = [s \in Services |-> IF s = Boot THEN 1 ELSE 0]
  /\ init = [s \in Services |-> s = Boot]
  /\ total = 1
  /\ op = [t \in Threads |-> IdleOp]
  /\ cmd = [t \in Threads |-> IdleCmd]
  /\ disp = [t \in Threads |-> DispAt(IF t \in Workers THEN "idle" ELSE "ext", NoService)]
  /\ fate = [m \in Msgs |-> IF m = BootMsg THEN "queued" ELSE "unsent"]

-----------------------------------------------------------------------------
(* Frame op: skynet_send (through skynet_context_push),                    *)
(* skynet_context_release and skynet_handle_retire.                        *)

\* What follows the send: in handle_exit the retirement, otherwise nothing.
AfterSend(t) ==
  IF op[t].victim = NoService THEN IdleOp ELSE RetireOp(op[t].victim)

\* Variant of PushGrab: the context is used without taking a reference.
PushGrabNoRef(t) ==
  /\ op[t].pc = "grab" /\ slot[op[t].svc]
  /\ op' = [op EXCEPT ![t] = OpTo(@, "push")]
  /\ UNCHANGED <<mqVars, slot, ctx, ref, init, total, cmd, disp, fate>>

\* skynet_handle_grab in skynet_context_push: the handle is still mapped.
PushGrab(t) ==
  /\ op[t].pc = "grab" /\ slot[op[t].svc]
  /\ ref' = [ref EXCEPT ![op[t].svc] = @ + 1]
  /\ op' = [op EXCEPT ![t] = OpTo(@, "push")]
  /\ UNCHANGED <<mqVars, slot, ctx, init, total, cmd, disp, fate>>

\* ... and when it is not: skynet_send frees the data and returns -1.
PushRefused(t) ==
  /\ op[t].pc = "grab" /\ ~slot[op[t].svc]
  /\ op' = [op EXCEPT ![t] = AfterSend(t)]
  /\ fate' = Fate(op[t].msg, IF op[t].msg.typ = "err" THEN "unreported" ELSE "refused")
  /\ UNCHANGED <<mqVars, slot, ctx, ref, init, total, cmd, disp>>

\* skynet_mq_push(ctx->queue, message).
Push(t) ==
  /\ op[t].pc = "push"
  /\ mq_push(op[t].svc, op[t].msg)
  /\ op' = [op EXCEPT ![t] = OpTo(@, "rel")]
  /\ fate' = Fate(op[t].msg, IF op[t].msg.typ = "err" THEN "reported" ELSE "queued")
  /\ UNCHANGED <<slot, ctx, ref, init, total, cmd, disp>>

\* skynet_context_release: the atomic decrement.
Release(t) ==
  /\ op[t].pc = "rel"
  /\ ref' = [ref EXCEPT ![op[t].svc] = @ - 1]
  /\ op' = [op EXCEPT ![t] = IF ref[op[t].svc] = 1 THEN OpTo(@, "del")
                                                   ELSE AfterSend(t)]
  /\ UNCHANGED <<mqVars, slot, ctx, init, total, cmd, disp, fate>>

\* Variant of Delete: context_dec is forgotten.
DeleteNoDec(t) ==
  /\ op[t].pc = "del"
  /\ mark_release(op[t].svc)
  /\ ctx' = [ctx EXCEPT ![op[t].svc] = "freed"]
  /\ op' = [op EXCEPT ![t] = AfterSend(t)]
  /\ cmd' = [cmd EXCEPT ![t] = IF @.pc = "setinit" THEN CmdTo(@, "push") ELSE @]
  /\ UNCHANGED <<total, slot, ref, init, disp, fate>>

\* delete_context; skynet_context_release then returns NULL, which
\* skynet_context_new tells from the context by (its "setinit" step).
Delete(t) ==
  /\ op[t].pc = "del"
  /\ mark_release(op[t].svc)
  /\ ctx' = [ctx EXCEPT ![op[t].svc] = "freed"]
  /\ total' = total - 1
  /\ op' = [op EXCEPT ![t] = AfterSend(t)]
  /\ cmd' = [cmd EXCEPT ![t] = IF @.pc = "setinit" THEN CmdTo(@, "push") ELSE @]
  /\ UNCHANGED <<slot, ref, init, disp, fate>>

\* skynet_handle_retire: unmapping the handle passes the reference of the
\* handle storage on to the release that follows the unlock.
Retire(t) ==
  /\ op[t].pc = "retire" /\ slot[op[t].svc]
  /\ slot' = [slot EXCEPT ![op[t].svc] = FALSE]
  /\ op' = [op EXCEPT ![t] = ReleaseOp(op[t].svc)]
  /\ cmd' = [cmd EXCEPT ![t] = IF @.pc = "abort" THEN Scan(@.scan, TRUE) ELSE @]
  /\ UNCHANGED <<mqVars, ctx, ref, init, total, disp, fate>>

\* ... of a handle that is no longer mapped.
RetireNothing(t) ==
  /\ op[t].pc = "retire" /\ ~slot[op[t].svc]
  /\ op' = [op EXCEPT ![t] = IdleOp]
  /\ UNCHANGED <<mqVars, slot, ctx, ref, init, total, cmd, disp, fate>>

OpStep(t) ==
  \/ PushGrab(t) \/ PushRefused(t) \/ Push(t)
  \/ Release(t) \/ Delete(t) \/ Retire(t) \/ RetireNothing(t)

-----------------------------------------------------------------------------
(* What the code of a service does with the kernel: in a callback          *)
(* (disp[t] at "cb"), or in the init function of a service being launched  *)
(* (cmd[t] at "init").  A timer or socket thread sends as handle 0.        *)

Running(t) ==
  /\ op[t].pc = "idle"
  /\ \/ disp[t].pc = "cb" /\ cmd[t].pc \in {"idle", "init"}
     \/ disp[t].pc = "ext"

Self(t) == IF disp[t].pc = "ext" THEN NoService
           ELSE IF cmd[t].pc = "init" THEN cmd[t].svc ELSE disp[t].q

\* A handle is handed out by its own service, from its init function on.
Known(s) == qmem[s] # "none"

\* skynet_send, skynet_context_push: a new message to a service.
Send(t) ==
  /\ Running(t)
  /\ \E m \in Msgs, d \in Services :
       /\ fate[m] = "unsent" /\ Known(d)
       /\ op' = [op EXCEPT ![t] =
                   SendOp([typ |-> "req", id |-> m, src |-> Self(t)], d, NoService)]
       /\ fate' = [fate EXCEPT ![m] = "sending"]
  /\ UNCHANGED <<mqVars, slot, ctx, ref, init, total, cmd, disp>>

\* G_NODE.monitor_exit, which the monitor service sets once it runs.
monitor_exit ==
  IF Monitor \in Services /\ qmem[Monitor] # "none" THEN Monitor ELSE NoService

\* cmd_kill and cmd_exit: handle_exit tells the monitor before it retires.
Kill(t) ==
  /\ Running(t) /\ disp[t].pc = "cb"
  /\ \E v \in Killable :
       /\ Known(v) /\ slot[v]       \* bound: no KILL of a handle already unmapped
       /\ op' = [op EXCEPT ![t] =
            IF monitor_exit = NoService THEN RetireOp(v)
            ELSE SendOp([typ |-> "exit", id |-> NoMsg, src |-> v], monitor_exit, v)]
  /\ UNCHANGED <<mqVars, slot, ctx, ref, init, total, cmd, disp, fate>>

-----------------------------------------------------------------------------
(* Frame cmd: cmd_launch (skynet_context_new) and cmd_abort                *)
(* (skynet_handle_retireall).                                              *)

\* skynet_context_new up to skynet_handle_register: one reference for the
\* handle storage, one for this function.
Launch(t) ==
  /\ Running(t) /\ disp[t].pc = "cb" /\ cmd[t].pc = "idle"
  /\ \E s \in Services :
       /\ ctx[s] = "none"
       /\ ctx' = [ctx EXCEPT ![s] = "live"]
       /\ ref' = [ref EXCEPT ![s] = 2]
       /\ slot' = [slot EXCEPT ![s] = TRUE]
       /\ cmd' = [cmd EXCEPT ![t] = [pc |-> "mq", svc |-> s, scan |-> {}, hit |-> FALSE]]
  /\ UNCHANGED <<mqVars, init, total, op, disp, fate>>

\* ctx->handle is set, skynet_mq_create, context_inc.
CreateQueue(t) ==
  /\ cmd[t].pc = "mq"
  /\ mq_create(cmd[t].svc)
  /\ total' = total + 1
  /\ cmd' = [cmd EXCEPT ![t] = CmdTo(@, "init")]
  /\ UNCHANGED <<slot, ctx, ref, init, op, disp, fate>>

\* skynet_module_instance_init returned 0: release the launcher's reference.
InitOK(t) ==
  /\ cmd[t].pc = "init" /\ op[t].pc = "idle"
  /\ op' = [op EXCEPT ![t] = ReleaseOp(cmd[t].svc)]
  /\ cmd' = [cmd EXCEPT ![t] = CmdTo(@, "setinit")]
  /\ UNCHANGED <<mqVars, slot, ctx, ref, init, total, disp, fate>>

\* The release left the context alive: ctx->init = true.
SetInit(t) ==
  /\ cmd[t].pc = "setinit" /\ op[t].pc = "idle"
  /\ init' = [init EXCEPT ![cmd[t].svc] = TRUE]
  /\ cmd' = [cmd EXCEPT ![t] = CmdTo(@, "push")]
  /\ UNCHANGED <<mqVars, slot, ctx, ref, total, op, disp, fate>>

\* skynet_globalmq_push(queue): from here on workers may take the queue.
LaunchPush(t) ==
  /\ cmd[t].pc = "push" /\ op[t].pc = "idle"
  /\ globalmq_push(cmd[t].svc)
  /\ cmd' = [cmd EXCEPT ![t] = IdleCmd]
  /\ UNCHANGED <<queue, in_global, release, qmem, slot, ctx, ref, init, total,
                 op, disp, fate>>

\* The init function failed: release, ...
InitFail(t) ==
  /\ cmd[t].pc = "init" /\ op[t].pc = "idle"
  /\ op' = [op EXCEPT ![t] = ReleaseOp(cmd[t].svc)]
  /\ cmd' = [cmd EXCEPT ![t] = CmdTo(@, "retire")]
  /\ UNCHANGED <<mqVars, slot, ctx, ref, init, total, disp, fate>>

\* ... then skynet_handle_retire(handle), then skynet_mq_release.
LaunchRetire(t) ==
  /\ cmd[t].pc = "retire" /\ op[t].pc = "idle"
  /\ op' = [op EXCEPT ![t] = RetireOp(cmd[t].svc)]
  /\ cmd' = [cmd EXCEPT ![t] = CmdTo(@, "mqrel")]
  /\ UNCHANGED <<mqVars, slot, ctx, ref, init, total, disp, fate>>

\* cmd_abort, skynet_handle_retireall: passes over all slots ...
Abort(t) ==
  /\ MayAbort /\ \E s \in Services : slot[s]   \* bound: no ABORT of an empty node
  /\ Running(t) /\ disp[t].pc = "cb" /\ cmd[t].pc = "idle"
  /\ cmd' = [cmd EXCEPT ![t] = Scan(Services, FALSE)]
  /\ UNCHANGED <<mqVars, slot, ctx, ref, init, total, op, disp, fate>>

\* ... each one retired unless it is empty or its context has no handle yet ...
AbortSlot(t) ==
  /\ cmd[t].pc = "abort" /\ op[t].pc = "idle"
  /\ \E s \in cmd[t].scan :
       /\ cmd' = [cmd EXCEPT ![t] = Scan(@.scan \ {s}, @.hit)]
       /\ op' = IF slot[s] /\ qmem[s] # "none"
                THEN [op EXCEPT ![t] = RetireOp(s)] ELSE op
  /\ UNCHANGED <<mqVars, slot, ctx, ref, init, total, disp, fate>>

\* ... until a pass retires nothing.
AbortPass(t) ==
  /\ cmd[t].pc = "abort" /\ op[t].pc = "idle" /\ cmd[t].scan = {}
  /\ cmd' = [cmd EXCEPT ![t] = IF @.hit THEN Scan(Services, FALSE) ELSE IdleCmd]
  /\ UNCHANGED <<mqVars, slot, ctx, ref, init, total, op, disp, fate>>

-----------------------------------------------------------------------------
(* skynet_mq_release and _drop_queue, called by a failed launch and by a   *)
(* worker that finds no context behind a queue.                            *)

\* drop_message: report the loss to the source, unless that is handle 0.
DropOp(s, m) ==
  IF m.src = NoService THEN IdleOp
  ELSE SendOp([typ |-> "err", id |-> IF m.typ = "req" THEN m.id ELSE NoMsg,
               src |-> s], m.src, NoService)

DropFate(m) ==
  IF m.typ # "req" THEN fate
  ELSE Fate(m, IF m.src = NoService THEN "dropped" ELSE "reporting")

LaunchMqRelease(t) ==
  /\ cmd[t].pc = "mqrel" /\ op[t].pc = "idle"
  /\ globalq' = mq_release(cmd[t].svc)
  /\ cmd' = [cmd EXCEPT ![t] = IF release[cmd[t].svc] = 1 THEN CmdTo(@, "drop")
                                                         ELSE IdleCmd]
  /\ UNCHANGED <<queue, in_global, release, qmem, slot, ctx, ref, init, total,
                 op, disp, fate>>

LaunchDrop(t) ==
  /\ cmd[t].pc = "drop" /\ op[t].pc = "idle"
  /\ LET s == cmd[t].svc IN
       /\ mq_pop(s)
       /\ op' = [op EXCEPT ![t] = DropOp(s, Head(queue[s]))]
       /\ fate' = DropFate(Head(queue[s]))
  /\ UNCHANGED <<slot, ctx, ref, init, total, cmd, disp>>

LaunchDropDone(t) ==
  /\ cmd[t].pc = "drop" /\ op[t].pc = "idle"
  /\ drop_done(cmd[t].svc)
  /\ cmd' = [cmd EXCEPT ![t] = IdleCmd]
  /\ UNCHANGED <<slot, ctx, ref, init, total, op, disp, fate>>

CmdStep(t) ==
  \/ CreateQueue(t) \/ InitOK(t) \/ SetInit(t) \/ LaunchPush(t)
  \/ InitFail(t) \/ LaunchRetire(t) \/ LaunchMqRelease(t)
  \/ LaunchDrop(t) \/ LaunchDropDone(t) \/ AbortSlot(t) \/ AbortPass(t)

-----------------------------------------------------------------------------
(* Frame disp: skynet_context_message_dispatch.                            *)

\* The worker's frame may move.
Top(w, pc) == disp[w].pc = pc /\ cmd[w].pc = "idle" /\ op[w].pc = "idle"

\* skynet_globalmq_pop with no queue in hand: on entry with q == NULL, or in
\* a return skynet_globalmq_pop().
TakeQueue(w) ==
  /\ Top(w, "idle") \/ Top(w, "next")
  /\ \E s \in Services :
       /\ globalmq_pop(s)
       /\ disp' = [disp EXCEPT ![w] = DispAt("grab", s)]
  /\ UNCHANGED <<queue, in_global, release, qmem, slot, ctx, ref, init, total,
                 op, cmd, fate>>

TakeNothing(w) ==
  /\ Top(w, "next") /\ globalq = <<>>
  /\ disp' = [disp EXCEPT ![w] = DispAt("idle", NoService)]
  /\ UNCHANGED <<mqVars, slot, ctx, ref, init, total, op, cmd, fate>>

\* skynet_handle_grab(handle).
Grab(w) ==
  /\ Top(w, "grab")
  /\ ref' = [ref EXCEPT ![disp[w].q] = IF slot[disp[w].q] THEN @ + 1 ELSE @]
  /\ disp' = [disp EXCEPT ![w] = IF slot[disp[w].q] THEN DispAt("pop", disp[w].q)
                                 ELSE DispTo(@, "mqrel")]
  /\ UNCHANGED <<mqVars, slot, ctx, init, total, op, cmd, fate>>

\* No context: skynet_mq_release(q, drop_message, &d).
MqRelease(w) ==
  /\ Top(w, "mqrel")
  /\ globalq' = mq_release(disp[w].q)
  /\ disp' = [disp EXCEPT ![w] = IF release[disp[w].q] = 1 THEN DispTo(@, "drop")
                                 ELSE DispAt("next", NoService)]
  /\ UNCHANGED <<queue, in_global, release, qmem, slot, ctx, ref, init, total,
                 op, cmd, fate>>

Drop(w) ==
  /\ Top(w, "drop")
  /\ LET s == disp[w].q IN
       /\ mq_pop(s)
       /\ op' = [op EXCEPT ![w] = DropOp(s, Head(queue[s]))]
       /\ fate' = DropFate(Head(queue[s]))
  /\ UNCHANGED <<slot, ctx, ref, init, total, cmd, disp>>

DropDone(w) ==
  /\ Top(w, "drop")
  /\ drop_done(disp[w].q)
  /\ disp' = [disp EXCEPT ![w] = DispAt("next", NoService)]
  /\ UNCHANGED <<slot, ctx, ref, init, total, op, cmd, fate>>

\* skynet_mq_pop finds a message.
Pop(w) ==
  /\ Top(w, "pop")
  /\ LET s == disp[w].q IN
       /\ mq_pop(s)
       /\ disp' = [disp EXCEPT ![w] =
            [pc |-> IF @.i = 0 /\ Weight[w] >= 0 THEN "len" ELSE "call",
             q |-> s, nq |-> @.nq, i |-> @.i, n |-> @.n, msg |-> Head(queue[s])]]
       /\ fate' = IF Head(queue[s]).typ = "req" THEN Fate(Head(queue[s]), "held") ELSE fate
  /\ UNCHANGED <<slot, ctx, ref, init, total, op, cmd>>

\* Variant of PopEmpty: the early return forgets skynet_context_release.
PopEmptyLeak(w) ==
  /\ Top(w, "pop")
  /\ mq_pop_empty(disp[w].q)
  /\ disp' = [disp EXCEPT ![w] = DispAt("next", NoService)]
  /\ UNCHANGED <<slot, ctx, ref, init, total, op, cmd, fate>>

\* skynet_mq_pop finds none: give up the queue, then the reference.
PopEmpty(w) ==
  /\ Top(w, "pop")
  /\ mq_pop_empty(disp[w].q)
  /\ op' = [op EXCEPT ![w] = ReleaseOp(disp[w].q)]
  /\ disp' = [disp EXCEPT ![w] = DispAt("next", NoService)]
  /\ UNCHANGED <<slot, ctx, ref, init, total, cmd, fate>>

\* k >> w: how many whole shares of 2^w there are in k.
ShiftRight(k, w) == Cardinality({j \in 1..k : j * 2^w <= k})

\* n = skynet_mq_length(q) >> weight, after the first pop.
Length(w) ==
  /\ Top(w, "len")
  /\ disp' = [disp EXCEPT ![w] =
       [pc |-> "call", q |-> @.q, nq |-> @.nq, i |-> @.i, msg |-> @.msg,
        n |-> ShiftRight(Len(queue[@.q]), Weight[w])]]
  /\ UNCHANGED <<mqVars, slot, ctx, ref, init, total, op, cmd, fate>>

\* for (i=0;i<n;i++): on to the next message, or leave the loop.
Next_i(w) ==
  [disp EXCEPT ![w] = [pc |-> IF @.i + 1 < @.n THEN "pop" ELSE "end",
                       q |-> @.q, nq |-> @.nq, i |-> @.i + 1, n |-> @.n,
                       msg |-> NoMessage]]

\* dispatch_message: enter the callback.
Call(w) ==
  /\ Top(w, "call") /\ disp[w].q \notin NoCallback
  /\ disp' = [disp EXCEPT ![w] = DispTo(@, "cb")]
  /\ fate' = IF disp[w].msg.typ = "req" THEN Fate(disp[w].msg, "dispatched") ELSE fate
  /\ UNCHANGED <<mqVars, slot, ctx, ref, init, total, op, cmd>>

\* ctx->cb == NULL: the message is freed.
Discard(w) ==
  /\ Top(w, "call") /\ disp[w].q \in NoCallback
  /\ disp' = Next_i(w)
  /\ fate' = IF disp[w].msg.typ = "req" THEN Fate(disp[w].msg, "discarded") ELSE fate
  /\ UNCHANGED <<mqVars, slot, ctx, ref, init, total, op, cmd>>

\* The callback returns.
Return(w) ==
  /\ Top(w, "cb")
  /\ disp' = Next_i(w)
  /\ UNCHANGED <<mqVars, slot, ctx, ref, init, total, op, cmd, fate>>

\* After the loop: another queue waits, so this one goes to the back ...
EndTake(w) ==
  /\ Top(w, "end")
  /\ \E s \in Services :
       /\ globalmq_pop(s)
       /\ disp' = [disp EXCEPT ![w] = [pc |-> "back", q |-> @.q, nq |-> s, i |-> @.i,
                                       n |-> @.n, msg |-> @.msg]]
  /\ UNCHANGED <<queue, in_global, release, qmem, slot, ctx, ref, init, total,
                 op, cmd, fate>>

\* ... skynet_globalmq_push(q), with the reference still held ...
PushBack(w) ==
  /\ Top(w, "back")
  /\ globalmq_push(disp[w].q)
  /\ op' = [op EXCEPT ![w] = ReleaseOp(disp[w].q)]
  /\ disp' = [disp EXCEPT ![w] = DispAt("grab", disp[w].nq)]
  /\ UNCHANGED <<queue, in_global, release, qmem, slot, ctx, ref, init, total,
                 cmd, fate>>

\* ... or no other queue waits and the worker keeps this one.
EndKeep(w) ==
  /\ Top(w, "end") /\ globalq = <<>>
  /\ op' = [op EXCEPT ![w] = ReleaseOp(disp[w].q)]
  /\ disp' = [disp EXCEPT ![w] = DispAt("grab", disp[w].q)]
  /\ UNCHANGED <<mqVars, slot, ctx, ref, init, total, cmd, fate>>

DispStep(w) ==
  \/ TakeQueue(w) \/ TakeNothing(w) \/ Grab(w) \/ MqRelease(w)
  \/ Drop(w) \/ DropDone(w) \/ Pop(w) \/ PopEmpty(w) \/ Length(w)
  \/ Call(w) \/ Discard(w) \/ Return(w)
  \/ EndTake(w) \/ PushBack(w) \/ EndKeep(w)

Next ==
  \/ \E t \in Threads : OpStep(t) \/ CmdStep(t)
                        \/ Send(t) \/ Kill(t) \/ Launch(t) \/ Abort(t)
  \/ \E w \in Workers : DispStep(w)

\* Every thread is scheduled again and again, a callback and an init function
\* return (skynet has no preemption: the monitor thread only warns), and
\* nothing obliges a service to issue a command.
Fairness ==
  /\ \A t \in Threads : WF_vars(OpStep(t)) /\ WF_vars(CmdStep(t))
  /\ \A w \in Workers : WF_vars(DispStep(w))

Spec == Init /\ [][Next]_vars

FairSpec == Spec /\ Fairness
-----------------------------------------------------------------------------
(* Who may touch a queue, and who keeps a context alive.                   *)

\* The owners of queue s: its places in the global queue, the workers that
\* hold it, and the thread that is launching the service.
Owners(s) ==
  {<<"global", i>> : i \in {j \in 1..Len(globalq) : globalq[j] = s}}
  \cup {<<"worker", t>> : t \in {u \in Threads : disp[u].q = s}}
  \cup {<<"next", t>> : t \in {u \in Threads : disp[u].nq = s}}
  \cup {<<"launch", t>> : t \in {u \in Threads :
           cmd[u].svc = s /\ cmd[u].pc \notin {"idle", "mq"}}}

\* The references to context s: the handle storage's, that of a send or a
\* release in progress, a dispatching worker's, and the launcher's.
DispRef == {"pop", "len", "call", "cb", "end", "back"}
SlotCount(s) == IF slot[s] THEN 1 ELSE 0
OpHolders(s) == {t \in Threads : op[t].svc = s /\ op[t].pc \in {"push", "rel"}}
DispHolders(s) == {t \in Threads : disp[t].q = s /\ disp[t].pc \in DispRef}
CmdHolders(s) == {t \in Threads : cmd[t].svc = s /\ cmd[t].pc \in {"mq", "init"}}

RefCount(s) ==
  SlotCount(s) + Cardinality(OpHolders(s))
    + Cardinality(DispHolders(s)) + Cardinality(CmdHolders(s))

\* skynet_mq.c keeps a queue in the global queue or in the hands of one
\* thread, never both and never twice, exactly while in_global or release is
\* set; a queue that was freed, or not yet created, is in nobody's hands.
QueueOwnership ==
  \A s \in Services :
    /\ \A a, b \in Owners(s) : a = b
    /\ Owners(s) # {} <=> qmem[s] = "live" /\ (in_global[s] = 1 \/ release[s] = 1)

\* No wakeup is lost: a queue that holds messages has an owner who will get
\* to them, whatever pushes, empty pops and releases were interleaved.
NothingStranded ==
  \A s \in Services : queue[s] # <<>> => Owners(s) # {}

\* skynet_context.ref counts exactly the references held, so it reaches 0
\* when the last of them goes and not before.
RefExact ==
  \A s \in Services : ref[s] = RefCount(s)

\* No thread touches a freed context or a freed queue: the target of a push
\* or a release, the queue and context of a dispatching worker, the service
\* whose init function runs.
MemorySafe ==
  \A t \in Threads :
    /\ op[t].pc \in {"push", "rel", "del"} =>
         /\ ctx[op[t].svc] = "live"
         /\ qmem[op[t].svc] = "live"
    /\ disp[t].q \in Services => qmem[disp[t].q] = "live"
    /\ disp[t].pc \in DispRef => ctx[disp[t].q] = "live"
    /\ cmd[t].pc = "init" => ctx[cmd[t].svc] = "live"
    /\ cmd[t].pc \in {"push", "mqrel", "drop"} => qmem[cmd[t].svc] = "live"

\* The assertions of the C code hold: ctx->init in dispatch_message,
\* release == 0 in skynet_mq_mark_release, and next == NULL (the queue is not
\* linked) wherever a thread is about to link or free it.
KernelAsserts ==
  \A t \in Threads :
    /\ disp[t].pc = "cb" => init[disp[t].q]
    /\ op[t].pc = "del" => release[op[t].svc] = 0
    /\ disp[t].pc \in {"mqrel", "drop", "back"} => ~InGlobalQueue(disp[t].q)
    /\ cmd[t].pc \in {"push", "mqrel", "drop"} => ~InGlobalQueue(cmd[t].svc)
    /\ op[t].pc = "del" /\ in_global[op[t].svc] = 0 => ~InGlobalQueue(op[t].svc)

\* A message that was accepted is in one queue, once, until a worker takes it
\* into its hands; it is neither lost nor delivered twice.
MessageConserved ==
  \A m \in Msgs :
    LET places == UNION {{<<s, i>> : i \in {j \in 1..Len(queue[s]) :
                     queue[s][j].typ = "req" /\ queue[s][j].id = m}} : s \in Services}
        hands == {t \in Threads : disp[t].msg.typ = "req" /\ disp[t].msg.id = m
                                   /\ disp[t].pc \in {"len", "call"}}
    IN  /\ fate[m] = "queued" <=> Cardinality(places) = 1
        /\ fate[m] = "held" <=> Cardinality(hands) = 1
        /\ Cardinality(places) + Cardinality(hands) <= 1

\* Once skynet_context_release has deleted a context, nothing is added to its
\* queue and its handle is not mapped again.
DeadStaysDead ==
  [][\A s \in Services : ctx[s] = "freed" =>
       Len(queue'[s]) <= Len(queue[s]) /\ ~slot'[s] /\ ctx'[s] = "freed"]_vars

\* Every message a service or a thread sends is dispatched (or discarded for
\* want of a callback), or refused at once, or dropped; and a dropped one is
\* reported to its source as long as that exists.
MessageSettled ==
  \A m \in Msgs : fate[m] \in {"sending", "queued", "held", "reporting"} ~>
    fate[m] \in {"refused", "dispatched", "discarded", "dropped", "reported", "unreported"}

\* A retired service is reclaimed: its context and its queue are freed.
RetiredReclaimed ==
  \A s \in Services : ctx[s] = "live" /\ ~slot[s] ~> ctx[s] = "freed" /\ qmem[s] = "freed"

\* ABORT, when no launch runs beside it or follows it, brings the number of
\* services to 0, which is what stops the node's threads.
AbortDrains ==
  (\E t \in Threads : cmd[t].pc = "abort")
     /\ (\A s \in Services : ctx[s] # "none")
     /\ (\A t \in Threads : cmd[t].pc \in {"idle", "abort"})
  ~> total = 0
-----------------------------------------------------------------------------
(* The inductive invariant behind the safety properties.                   *)

LaunchOwns(t, s) == cmd[t].svc = s /\ cmd[t].pc \notin {"idle", "mq"}

\* The frames of one thread fit together.
FrameInv ==
  \A t \in Threads :
    /\ op[t].svc = NoService <=> op[t].pc = "idle"
    /\ op[t].pc \in {"grab", "push"} => op[t].msg \in Message
    /\ op[t].pc = "retire" => op[t].victim = NoService
    /\ cmd[t].svc = NoService <=> cmd[t].pc \in {"idle", "abort"}
    /\ cmd[t].pc # "idle" => disp[t].pc = "cb"
    /\ cmd[t].pc \in {"mq", "push"} => op[t].pc = "idle"
    /\ cmd[t].pc = "setinit" /\ op[t].pc # "idle" =>
         /\ op[t].pc \in {"rel", "del"}
         /\ op[t].svc = cmd[t].svc
         /\ op[t].victim = NoService
    /\ disp[t].q = NoService <=> disp[t].pc \in {"ext", "idle", "next"}
    /\ disp[t].nq = NoService <=> disp[t].pc # "back"

\* Every handle that is written down somewhere has been handed out.
KnownInv ==
  /\ \A t \in Threads :
       /\ op[t].svc \in Services => qmem[op[t].svc] # "none"
       /\ op[t].victim \in Services => qmem[op[t].victim] # "none"
       /\ op[t].msg.src \in Services => qmem[op[t].msg.src] # "none"
  /\ \A s \in Services : \A i \in 1..Len(queue[s]) :
       queue[s][i].src \in Services => qmem[queue[s][i].src] # "none"

\* No queue has two owners.
GlobalOnce == \A i, j \in 1..Len(globalq) : globalq[i] = globalq[j] => i = j

GlobalApart ==
  \A t \in Threads : \A i \in 1..Len(globalq) :
    globalq[i] # disp[t].q /\ globalq[i] # disp[t].nq /\ globalq[i] # cmd[t].svc

FramesApart ==
  \A t, u \in Threads :
    /\ disp[t].q \in Services => disp[t].q # disp[u].nq /\ disp[t].q # cmd[u].svc
    /\ disp[t].nq \in Services => disp[t].nq # cmd[u].svc
    /\ t # u => /\ disp[t].q \in Services => disp[t].q # disp[u].q
                /\ disp[t].nq \in Services => disp[t].nq # disp[u].nq
                /\ cmd[t].svc \in Services => cmd[t].svc # cmd[u].svc

OwnInv == GlobalOnce /\ GlobalApart /\ FramesApart

\* A queue has an owner exactly while one of its flags is set.
Owned(s) ==
  \/ InGlobalQueue(s)
  \/ \E t \in Threads : disp[t].q = s \/ disp[t].nq = s \/ LaunchOwns(t, s)

FlagInv ==
  \A s \in Services :
    /\ Owned(s) <=> qmem[s] = "live" /\ (in_global[s] = 1 \/ release[s] = 1)
    /\ queue[s] # <<>> => qmem[s] = "live" /\ (in_global[s] = 1 \/ release[s] = 1)

\* The life of a context and its queue (with RefExact).
LifeInv ==
  /\ \A s \in Services :
       /\ ref[s] # 0 => ctx[s] = "live"
       /\ ctx[s] = "none" => qmem[s] = "none"
       /\ release[s] = 1 <=> ctx[s] = "freed"
       /\ qmem[s] = "none" => release[s] = 0 /\ in_global[s] = 0
       /\ qmem[s] = "freed" => ctx[s] = "freed"
  /\ \A t \in Threads :
       /\ cmd[t].svc \in Services =>
            /\ ctx[cmd[t].svc] # "none"
            /\ cmd[t].pc = "mq" <=> qmem[cmd[t].svc] = "none"
       /\ cmd[t].pc = "drop" => release[cmd[t].svc] = 1
       /\ disp[t].pc = "drop" => release[disp[t].q] = 1
       /\ op[t].pc = "del" =>
            /\ ctx[op[t].svc] = "live" /\ ref[op[t].svc] = 0
            /\ \A u \in Threads \ {t} : op[u].pc = "del" => op[u].svc # op[t].svc

\* Only a service whose init function succeeded is dispatched to.
InitInv ==
  /\ \A s \in Services : slot[s] => \/ init[s]
                                    \/ \E t \in Threads : cmd[t].svc = s
  /\ \A t \in Threads :
       /\ disp[t].pc \in DispRef => init[disp[t].q]
       /\ cmd[t].pc = "push" /\ slot[cmd[t].svc] => init[cmd[t].svc]
       /\ cmd[t].pc \in {"mqrel", "drop"} /\ slot[cmd[t].svc] =>
            op[t].pc = "retire" /\ op[t].svc = cmd[t].svc

IInv == TypeOK /\ FrameInv /\ KnownInv /\ OwnInv /\ FlagInv
          /\ RefExact /\ LifeInv /\ InitInv
=============================================================================
