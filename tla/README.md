# A TLA+ model of FWServer

FWServer is a game server: a copy of the skynet actor framework (C kernel under
`skynet/skynet-src`, Lua runtime under `skynet/lualib` and `skynet/service`) and a
layer of Lua scripts (`script/`) that accepts clients, logs them in, keeps their
records in redis and runs game rooms. This directory models the framework's kernel,
its socket server, the Lua runtime of a service and the server's client connections in
TLA+, checks them with TLC on small instances, and proves the safety properties of the
kernel and of its socket server with TLAPS for instances of any size.

Contents: 1 the system and its hazards, 2 the plan, 3 the modules and the code,
4 the runs, 5 fairness, 6 the proofs, 7 what the checks found, 8 what is not modelled.

## 1. The system

### 1.1 Components, their state and operations

| component | state | operations |
| --- | --- | --- |
| message queues (`skynet_mq.c`) | global queue: a linked list of the queues that have work; per service a private queue: ring buffer, `in_global`, `release`, overload threshold | `skynet_globalmq_push/pop`, `skynet_mq_create/push/pop/mark_release/release/overload` |
| service contexts (`skynet_server.c`) | `skynet_context`: reference count, `init`, queue, `endless`; `G_NODE.total` | `skynet_context_new`, `_push`, `_release`, `skynet_send`, `skynet_context_message_dispatch`, the text commands (LAUNCH, EXIT, KILL, ABORT, MONITOR, ...) |
| handle storage (`skynet_handle.c`) | hash table handle → context, search index, sorted table of local names | `register`, `retire`, `retireall`, `grab`, `findname`, `namehandle` |
| read-write lock (`rwlock.h`) | `write`, `read` | `rwlock_rlock/runlock/wlock/wunlock` |
| timer wheel (`skynet_timer.c`) | `near`, four levels `t`, `time`; wall clock | `timer_add`, `timer_update`, `skynet_updatetime` |
| threads (`skynet_start.c`) | workers, timer, socket and monitor thread; `sleep`, `quit`, a mutex and a condition variable | `thread_worker`, `thread_timer`, `thread_socket`, `thread_monitor`, `wakeup`, `start` |
| monitor (`skynet_monitor.c`) | per worker: `version`, `check_version`, `source`, `destination` | `trigger`, `check` |
| module loader (`skynet_module.c`) | table of shared libraries | `query`, `insert` |
| socket server (`socket_server.c`, `skynet_socket.c`) | socket slots with type, id, owner and two write buffers; `alloc_id`, command pipe, event array | open, listen, accept, send, close, poll |
| harbor (`skynet_harbor.c`, `service_harbor.c`, `cmaster`, `cslave`) | links to other nodes, queues for names not yet known | send to a remote handle, hand-shake, reconnect |
| Lua runtime (`lualib/skynet.lua`) | coroutines by session, watched services, error and wake-up queues | `call`, `send`, `ret`, `response`, `timeout`, `sleep`, `exit` |
| launcher (`service/launcher.lua`) | services, pending responses | LAUNCH, LAUNCHOK, ERROR, REMOVE |
| client connections (`script/services/skynet`: gate, watchdog, agent) | gate: `connection`, `client_number`; watchdog: `agent[fd]` and its suspended handlers; agent: its pack object | open, forward, kick, close, data, `closeSocket` |
| message packing (`script/common/msgpack/pack.lua`) | `m_state`, `m_proto`, `m_ckey` of each end | start, handshake, pack, unpack |
| users (`script/gamelogic/user`, `login`) | `userToFdTab`, `fdToUserIdTab`, `m_userInfoTab` | register, login, logout |
| broadcast (`script/services/broadcast`, `services/skynet/broadcast.lua`) | a service of its own: `agentTab`, `fdMap` | connected, enter, disconnect, broadcast |
| database cache (`script/services/db`, `dbredis.lua`) | records, update and delete times | insert, get, set, update, periodic check, destroy |
| lobby, rooms, cluster scripts | rooms, members | create, enter, leave |

### 1.2 How they interact

A worker takes a private queue from the global queue, looks its service up in the
handle storage (which takes a reference), pops messages and runs the service's
callback. The callback sends messages (look up, push, release), launches and
retires services, and sets timers. The timer thread pushes a message for each
timer that is due, the socket thread one for each event; both wake sleeping
workers. A queue must be linked into the global queue by exactly the thread that
finds it idle: `in_global` is the only means by which that is known. A context
dies with its last reference and leaves its queue behind for some worker to drop.
The monitor thread watches each worker without a lock. When the number of services
falls to 0 every thread leaves.

Workers ask the socket thread for things through a pipe, but reserve the slot of a new
socket themselves. The socket thread handles the requests before the events that it has
fetched, and tells the service that owns a socket what happened to it.

A Lua service runs one coroutine per request. A coroutine that calls another service is
stored under the number of its session and resumed by the answer, by an error of the
called service, or by the news that the service has gone. The launcher answers
`newservice` when the new service reports its start or its failure.

The gate is told of sockets by the socket thread and tells the watchdog. The watchdog
starts an agent per connection, has the gate forward the client's data to it, and runs
the script that keeps the users. What the script tells the broadcast service is a message that
this service handles later. The agent makes the handshake with
its client and passes requests on. A disconnection goes from gate to watchdog, back to
the gate as a kick, to the agent, and once more to the watchdog.

### 1.3 What is hard here

The kernel has a lock per structure and none that spans two of them, so each of the
steps above may be separated from the next by anything another thread does. The
script layer is single-threaded per service, but every `skynet.call` yields, so a
handler reads state, waits for another service, and writes. `PROJECT.json` lists the
hazards line by line. The main ones: an empty pop against a push; the release of
the last reference against a look-up; retirement of a service at any point of the
dispatch loop; a failed init with messages already waiting; ABORT; growth and
wrap-around of the ring, of the handle table and of the time; the sleep and quit
protocol of the workers; the unlocked reads of the monitor; a slot of the socket server
that is reserved while events and commands for its last user are still on their way, or while
the socket thread is still freeing it;
partial writes with two priorities; calls whose answer, error and the exit of the called
service cross, or that a worker still dispatches to a service which has exited; and in the scripts the handlers of the watchdog and of login that yield
half-way.

### 1.4 What makes each component correct

- Queues and contexts: every queue with work has exactly one owner; references are
  counted exactly; nothing freed is touched; each message is handled, refused or
  reported once; a retired service is reclaimed; ABORT ends.
- Ring: a first-in first-out queue.
- Handle storage: a handle finds exactly its context; handles are not reused early; a
  name belongs to the service that took it.
- Lock: a writer is alone, and is not kept out.
- Timer wheel: every timer fires once, in its tick, in the order set.
- Threads: work is not left beside a sleeping worker; nobody leaves while a service
  lives; everybody leaves afterwards.
- Monitor: a callback that hangs is reported, and nobody is who had no message at the time.
- Socket server: no slot is lost or shared, events and data go to the socket and the
  service they belong to, and packets leave whole.
- Lua runtime: each call is resumed at most once, and exactly once but for the cases of section 7.
- Client connections: the gate counts exactly, both ends use the same key, and when a
  connection goes its agent goes and no user or channel leads to it any more.

## 2. Plan

Done: `SkynetMQ` and `SkynetServer`; `MQFifo` and `MQRing`; `SkynetHandle`; `RWLock`;
`SkynetTimer`; `SkynetStart`; `SkynetMonitor` and `MonitorLock`; `SocketServer`; `LuaRuntime`; `MsgPack` and
`ClientSession`. Proofs for queues, contexts and dispatch, the ring and its refinement,
the handle table and its names, the lock, the threads, the socket server, the Lua runtime and the
client connections (section 6).

Left, for when the code is completed: the database cache with its write-back,
registration, and the script timers.

Composition: `SkynetServer` extends `SkynetMQ`, whose operations it applies inside the
actions of threads. `MQRing` justifies the sequence that `SkynetMQ` keeps for a private
queue, `RWLock` the atomic operations of `SkynetHandle`, and `SkynetHandle` the map
`slot` of `SkynetServer` from services to contexts. `SkynetStart` abstracts the
dispatch loop of `SkynetServer` to the queues it takes and gives back. `MonitorLock` composes
`SkynetMonitor` with `RWLock`: the monitor thread looks services up under the lock. `SocketServer`
is beside it the other half of the socket thread. `LuaRuntime` rests on what `SkynetServer`
promises of a message: it is handled in order, or its sender is told. `ClientSession`
extends `MsgPack`, takes sockets as `SocketServer` shows them to their owner, and calls
as `LuaRuntime` shows them to a service that does not die.

## 3. Modules and the code

Each action is one critical section or one atomic instruction unless stated. An
operator whose comment begins with "Variant of" is a plausible bug of the
definition it follows; no specification uses it, and `PROJECT.json` pairs each
property with the variant that breaks it.

### `SkynetMQ`, `SkynetServer`: queues, contexts, dispatch

`SkynetMQ` has the queues as state and the operations of `skynet_mq.c` as operators on
it. `SkynetServer` has the rest. A thread is three frames: `disp[t]` is the worker's
dispatch loop, with the queue it holds, the queue it will take next, the message and the
loop counters; `cmd[t]` a LAUNCH or ABORT that the running callback has issued; `op[t]` a
send, release or retire called from either. A frame moves while the frames above it are
idle. `Others` are threads that only send (timer, socket).

- `skynet_send` is `Send`, `PushGrab` (the look-up) or `PushRefused`, `Push`, `Release`;
  `skynet_context_release` is `Release` and, at 0, `Delete`.
- `skynet_context_new` is `Launch`, `CreateQueue`, then init, during which the new
  service may send, kill and be killed, then `InitOK`, `SetInit`, `LaunchPush`, or `InitFail`,
  `LaunchRetire`, `LaunchMqRelease`, `LaunchDrop`.
- `skynet_context_message_dispatch` is `TakeQueue` to `EndKeep`, `PushBack`; the share of a
  queue a worker takes is `Weight`, as in `skynet_start.c`.
- ABORT is `AbortSlot` per handle and `AbortPass`.
- `fate[m]` is a history variable that records what became of each message.

Abstractions: payloads are model values. `Delete` merges `skynet_mq_mark_release`, the
frees and `context_dec`, because no other thread can reach the context any more. An init
function does not itself launch a service. A handle is not reused (`SkynetHandle` models
that). Session numbers, log files and commands that only format text are left out.

### `MQFifo`, `MQRing`: one private queue

`MQRing` is the array, `head`, `tail`, `cap`, the overload threshold and the operations
under the queue's spin lock. `MQFifo` is the queue it should be. `RingIsFifo` is the
refinement, with the messages between `head` and `tail` as the abstract queue.

### `SkynetHandle`: handle storage

`Register` (a free slot), `RegisterGrow` (the table doubles and the search starts over),
`RegisterAssert` (the assertion of the doubling fails), `SetHandle` (the caller of
`skynet_handle_register` stores the handle in the context, outside the lock), `Retire`,
`NameHandle`. The binary search is a recursive function of the two bounds, and the compaction
of the name array one of the entries it has passed, both as the loops are written.
`HANDLE_MASK`, `DEFAULT_SLOT_SIZE` and `Harbor` are constants.

### `RWLock`: the lock of the handle storage

One action per `__sync` operation or read of a volatile, under sequential consistency
(each `__sync` operation is a full barrier on the platforms of the build).

### `SkynetTimer`: the timer wheel

`near` and `t` are sequences of timers, `time` wraps at `TimeSpan`, a stand-in for 2^32 that
keeps the five stages. `timer_update` is split where it gives up the lock: `Unlink`, `Deliver`,
`Relock`. `Clock` is the machine's clock; `skynet_updatetime` runs one update per tick it
is behind. `remain` and `order` are history: the ticks each timer has left and the order in which
timers were added.

### `SkynetStart`: threads

The number `ready` of queues in the global queue, the set `q` of workers that hold one,
`total`, and a program counter per thread. The condition variable is modelled from its use:
a signal wakes one sleeper, a broadcast all, and a sleeper may wake without either.
A callback may run for ever.

### `SkynetMonitor`: one worker and the monitor thread

The worker's two writes are separate actions, and so is each step of the monitor thread: the
comparison of the versions, the two reads of `destination` (`Test`, `Alarm`), the look-up
of the context (`Grab`) and the write of its flag (`Flag`); STAT resets the flag. The worker may end
its message and begin another one between any two of them. `since`, a history variable,
is the set of services that were dispatched since the versions were found equal.

### `MonitorLock`: the monitor thread at the lock

The actions of `SkynetMonitor` and `RWLock` side by side. The look-up is `GrabLock`, the lock's
own steps, `GrabFind` and `GrabUnlock`; other threads look services up or retire one.

### `SocketServer`: slots, commands, events, write buffers

A slot is its type, id, owner, the two write lists as sequences of units that have not
been sent, `wb_size`, `warn_size` and whether it waits for output. Workers reserve a slot
(`reserve_id`, `ReserveStore`: the id is stored after the slot was taken) and put requests into
the pipe. The socket thread handles one request per action (`open_socket`, `listen_socket`,
`start_socket`, `close_socket`, `send_socket`), but for an open whose `sp_add` fails: `new_fd`
frees the slot (line 386, `AddFails`) and the label `_failed` frees it once more (line 475,
`open_failed`), with workers running in between. It voids events (`clear_closed_event`, a step of its
own, since a worker may reserve the slot just before it), waits (`sp_wait`), and handles
one event per action (`report_accept`, `report_connect`, `forward_message_tcp`, `Flush`). A write
takes any number of units, or fails. An assertion that fails ends the behaviour with its
name in `failed`. History variables: `wire` (units that left), `heard` (what the owner was
told last), `raced` (the socket thread has met a slot that a worker was just reserving, or
has freed one that a worker had reserved).
Packets are numbers with a length; `MAX_SOCKET` is the number of slots.

### `LuaRuntime`: coroutines, calls and errors

Per service the coroutines with what each works on, and the tables of `skynet.lua`:
`session_id_coroutine`, `watching_session`, `watching_service`, `dead_service`,
`error_queue`, and the fork queue. A coroutine runs from one yield to the next: `Call`, `Ret`, `Finish`, `Raise`, `Exit`
are what it may do. `skynet.exit` retires the service's handle, so that it gets no new message, and
the coroutine is not resumed; but the worker keeps its reference and calls the callback
for the rest of its batch (`skynet_server.c:313-338`). The service is `"exiting"` until then,
`left` is the number of messages that the batch still has, and `EndBatch` closes the Lua
state. `Dispatch` takes the next message (`DispatchCall`, `DispatchResponse`,
`DispatchError`) or forked coroutine. The launcher's `Launch` and `Report` are `launcher.lua`;
`StartFails` is `skynet.init_service` with an error; `Drop` is the kernel's answer to messages left
in the queue of a service that has gone.

### `MsgPack`, `ClientSession`: client connections

`MsgPack` has the handshake and the choice of the key of `pack.lua` as operators on an
object; ciphers and layout are left out, a packed message remembers the key it was packed
with. `ClientSession` has the socket of each client, the message queues of gate, watchdog, agents
and broadcast, and their tables under the names of the code. A handler that yields is split
there: `Open`, `Launched`, `Started` are `SOCKET.open` before and after `newservice` and the
call of `start`; `close_agent` stops at its call of the gate and `Kicked` continues it; a login
waits for the database twice (`login[n].pc`). `notifyConnected`, `notifyDisiconnected` and the
end of a login send messages to the broadcast, which handles them in steps of its own
(`Broadcast`). Its queue is kept per socket (`bc_in`), in the order of sending: a message changes only the
entries of its socket, so that the order between sockets makes no difference. What the
broadcast would send to agents is left out; nothing in this commit asks for it. The client is a program that uses `pack.lua`
as the repository's client side does, sends a login after the handshake, and may hang up
at any time. An error of a socket takes the same path as a close in gate and watchdog
and is the same message here. The launch of an agent may fail, as `newservice` may, which
ends the handler. `closeSocket()` without a socket happens once, when there are agents: a second
loop beside the first is left out. The history variables `late`, `over` and `lost` mark the cases that
the properties exempt: a login under way at the agent's leave, a user whose place on the
socket another login took, and the agents that `closeSocket` dropped.

## 4. Runs

| run | what it asks | bounds |
| --- | --- | --- |
| `server_safety` | ownership, lost wake-ups, reference counts, memory, assertions, conservation of messages, no life after death | 2 workers with the weights -1 and 0, a sending thread, 3 services, of which one registers as monitor and can be killed and one has no callback, 2 messages |
| `server_live` | messages are settled, retired services reclaimed, ABORT reaches 0 services | 2 workers, 2 services that both run, kill and abort, 2 messages |
| `ring` | ring refines queue, never full, types and threshold | 2 slots at first, 8 pushes of 2 messages: two doublings, both ends wrap |
| `handle_safety` | a handle finds its context, a launch fails only when all handles are taken; names sorted, stable and dropped at the retirement; no early reuse | 5 contexts, 4 handles from a table of 1, 3 names, one launch at a time |
| `handle_concurrent` | the assertion of the doubling (violated) | 3 contexts, launches at the same time |
| `timer` | linked once and in its tick, in order; every timer fires | 2 timers, 32 ticks in 5 stages of 2 slots, delays up to 9, the clock up to 2 ahead |
| `start` | the count of sleepers, nobody leaves early, work wakes a sleeper, shutdown | 2 workers, 3 services, 2 queues |
| `monitor` | exclusion at the lock and entry of the writer; whoever is flagged was being dispatched, a hang is reported | 2 services of which one is retired, versions up to 4 (2 messages), the monitor thread and 2 others at the lock |
| `socket` | slots, the server's assertions but one, events and data for the right socket, whole packets | 2 services, of which one opens sockets, 2 slots, 3 ids, 4 requests, 2 packets of 2 and 1 units |
| `socket_step4` | the assertion of step 4 of `send_buffer` (violated) | the same |
| `runtime` | each call is tracked, told of the death of its service, and ends, but for the named cases | 2 services and the launcher; 3 calls and a fork of one, a call of the other, up to 4 coroutines each |
| `session` | the gate's count, the keys, what is left after a connection, the end of an agent | 2 sockets, 2 users, four scenarios (`Bounds`): room for one client and 2 requests; room for two and 1 request; 1 request while `closeSocket()` may come at any time; room for two silent clients and `closeSocket()` |

Why the bounds are enough to be interesting. Two workers, a sender and three services give
every pair of kernel operations on the same queue and context, including a service that
kills itself, is killed by another, or is launched while messages are on their way; the
safety theorems then cover any number. The ring grows twice with `head` at any place. In
`handle_safety` the index wraps many times, the table is full and a launch fails. The small
wheel has all five stages and the time wraps, and a timer set just before the end of a
block starts in any of the stages. Two workers are enough for one to take the queue
that a signal has woken the other for. With 3 ids on 2 slots a slot is used again while
requests, events and the closing of its last user are under way, and a packet of 2
units can be sent in part on either list; a failed open of one slot can meet a reservation of it,
and a second opening. In `runtime` two coroutines can wait for
the same service at once, which calls back, raises, exits or fails to start, and three messages can be
in a queue, so that a batch goes on after the exit and dispatches a call whose handler calls
somebody in turn. In `monitor` the worker can end the message that the monitor thread
has seen and be in the next one, of the same or another service, at each of its steps. In
`session` the second socket is refused, comes later, or is open beside the first, and two users
can log in one after the other on the same socket, while the broadcast is behind. The largest runs
have 1.5 million (`session`) and 390 thousand states (`runtime`, with a liveness property).

Bounds that are not in the code: `MaxPush`, `MaxDelay`, `MaxLag`, `MaxReady`, `MaxTotal`,
`MaxVersion`, `Retirable`, `Killable`, `MayAbort`, `ConcurrentLaunch`, `Openers`, `MaxId`, `MaxReq`, `Mortal`,
`MaxCall`, `MaxFork`, `MaxCo`, `MaxApp` and, in `Bounds`, `talkers`, `apps` and `closing`
(`maxclient` is in the configuration), and the size of each constant set.
`CHECK_DEADLOCK FALSE` stands where the system may stop: a node whose services have gone
or whose bounded supply of messages and launches is used up.

## 5. Fairness

- `SkynetServer`: each thread inside a kernel function goes on, each callback and init
  function returns in the end, and a worker looks for work again and again. Nothing obliges a
  service to send, launch or kill. The spin locks are never held across a blocking
  call, so a thread that the operating system schedules gets them.
- `SkynetTimer`: the clock advances and the timer thread runs.
- `SkynetStart`: weak fairness of the threads, and strong fairness of taking the mutex,
  which others take and give back all the time, and of the socket thread's reading of its exit
  command. Callbacks get none: they may hang.
- `MonitorLock`: the monitor thread goes on checking, through the lock too; the worker finishes the
  two writes of a trigger, and the callback gets none; a thread that is in a lock function or
  holds the lock goes on. A writer that has not got the flag is not promised anything.
- `LuaRuntime`: a worker serves each service that has something to do: a message, a fork, a
  running coroutine that can answer or end, the end of the batch in which it exited, the queue
  that is to be dropped (`RetiredReclaimed`, `MessageSettled` of `server_live`); and the
  launcher handles its messages. One weak fairness per service stands for all of these, as one
  worker loop does. Nothing obliges a coroutine to make a call.
- `SocketServer` and `ClientSession` state safety only.

## 6. Proofs

Eight modules hold theorems. Their assumptions are the named `ASSUME`s of the modules they
extend: the sets of threads and services are finite and workers differ from other
threads, weights are -1 or natural, the monitor and the bounded sets are services; the
ring's first capacity is at least 1; the lock's threads form a finite set; the sizes of
the handle table are powers of two up to 2^24 and the mask is one less than such a power;
the slots and the sizes of packets are positive, and `"none"` and `"gone"` name no service;
the sockets form a finite set, limits of the gate are natural numbers, and `"nobody"` names
neither a socket nor a user; the services of the Lua runtime form a finite set to which
neither the launcher nor `"nobody"` and `"forked"` belong, each with at least one coroutine; the
near wheel has at least one slot, a level at least two, and a delay is less than half of the
wheel's time, as a positive `int` is of a `uint32_t`.

**Kernel** (`SkynetServerProofs`). For any
number of workers, senders, services and messages: `Typing`, `Ownership`, `NoLostWakeup`,
`Counting`, `Memory`, `Asserts`. All follow from one inductive invariant `IInv`
(theorem `Inductive`). None of the properties is
inductive alone. Its parts:

- `TypeOK`, `FrameInv`: what each program counter says about the fields of its frame and of
  the frames below.
- `KnownInv`: a handle that is written down anywhere belongs to a service that has a
  queue, so that a late send cannot meet a half-made one.
- `OwnInv`: no queue is in two hands. It needs `FlagInv`, since a push links the queue
  when `in_global` is 0 and must know that this means nobody has it;
- `FlagInv`: a queue has an owner exactly while `in_global` or `release` is set, and a
  queue with messages has one of them set. The second flag is needed because
  `skynet_mq_mark_release` links a queue without setting `in_global`.
- `RefExact`: the reference count is the number of holders. Each action adds or removes
  one holder of one kind; the lemmas on cardinalities come first.
- `LifeInv`: memory is freed in order; at most one thread deletes a context, and then the
  count is 0. With `RefExact` this gives memory safety.
- `InitInv`: a service that is in the handle table has been initialised or is still being
  launched, which gives the assertion on `ctx->init`.

The first half of the module proves the first four parts action by action, the second the
last three, combines them and derives the theorems. `Memory` does not cover the write of
`ctx->init` by the launching thread after its release (`skynet_server.c:164-168`, pc
"setinit"): there the code does touch a context that may be gone if the service has
retired itself in init.

`Conservation` (`MessageConserved`) has a second invariant, `TraceInv`, proved on top of
`IInv`: a message that is recorded as queued is in exactly one place of exactly one queue
(`QueueTrace`), one that is in hand is held by exactly one worker (`HandTrace`), and one that
is on its way is carried by exactly one send (`WayTrace`). Each action moves at most one message from
one of the three to another. `DeletedForGood` (`DeadStaysDead`) is an action property and
follows from `IInv`: no step restores a context, a queue or a handle that is gone.

**Ring** (`MQRingProofs`). `RingNeverFull` and `RingRefinesFifo`, for any first capacity,
any messages and any number of pushes, from `RingInv`: the ends lie in the array, the
places between them hold messages, and pushes and pops account for the length. The step
that matters is the growth, where the new array has the oldest message first.
`ThresholdKeepsPace` (`ThresholdTracks`) adds `TrackInv`: the threshold never falls below
`MQ_OVERLOAD`, covers the longest queue met and is less than twice that.

**Handle table** (`HandleProofs`). `TableAddressed` and `GivenOncePerLap` (`NoEarlyReuse`) hold
for concurrent launches too; their invariant `TableInv` says that the table can be addressed and
that the handles given in this lap are below the index. `TableExact` (`HandlesExact`) assumes
`ConcurrentLaunch = FALSE`, the condition of the run `handle_safety`; without it the property is
false, which is what `handle_concurrent` shows. Its invariant `ExactInv` says that the
table holds exactly the contexts that were placed, each in the slot of its handle, that a
context's handle field is the handle it was given once the launch is over, and that at
most one launch is under way. The argument for the growth: a table that is full holds live
contexts only; two of them in different slots have handles that differ modulo the old
size and therefore modulo twice the size, so the doubling cannot collide; and the search that
starts over finds a slot, since one half of the new table is free. It rests on lemmas on remainders of
powers of two, proved once.

`NamesFound` (`NamesExact`) and `NamesLast` (`NamesKept`: a name stays with its handle until that is
retired, and its retirement takes the name away; as in the code, a handle that has been retired
already may still be named) hold for concurrent launches too, from
`NamesInv`: the name array is sorted and within its capacity, and a context's handle field is the
handle it was given from the store until it is retired. The two loops over the array are
recursive functions; that the functions exist, and what they return, is shown by a least
counterexample (`LeastOf`) in place of induction. For the search, `Between` says that the names
left of the range are too small and those right of it too large, and each round keeps that for a
shorter range (`RoundFinds`); for the compaction, `Compact` says that the entries kept so far are
those of other handles, in order (`CopyCompacts`).

**Lock** (the last part of `HandleProofs`). `LockInductive` and `LockExclusion`, for any finite
set of threads, from `LockInv`: `read` counts the readers that have announced themselves and
not withdrawn, `write` has one owner at most, and none while it is 0.

**Timer wheel** (`TimerProofs`). `TimersLinked`, `TimersOnTime` (`OnTime`) and `TimersInOrder`
(`InOrder`), for any set of timers, any number of slots of the near wheel and of the levels (the code's
256 and 64 are one case; nothing needs a power of two once masks are read as quotients), across
the wrap of the time. `InSpot` says where a timer belongs that is due `r` ticks after time `x`:
in the lowest of the five stages whose current round still holds `x + r`, in the slot
of `x + r`. It has one such spot (`SpotUnique`). The argument:

- `add_node` links a timer in its spot (`StageForIs`, `LinkAdd`), although it compares times that
  have wrapped: a delay below half of the wheel's time leaves no doubt which is later
  (`BlockModulo`).
- When a tick passes, a timer stays in its spot unless the tick opens that slot (`Passing`), and
  `timer_shift` opens at most one slot, slot 0 of the last level when the time wraps
  (`ShiftLevelIs`). So the other lists need no change (`LinkTick`), and those of the opened slot
  are added anew at the new time (`OpenedLinked`). The loop of `move_list` is a recursive function, treated as
  those of the handle table (`MovedExists`, `MoveAll`).
- The slot of the current tick holds exactly the timers that are due (`SpotDue`, `DueSlot`), so that nothing
  is early and, when the second `timer_execute` finds it empty, nothing is late.
- Order: timers due in the same tick are always in the same list (`SameSpot`), so it is enough
  that each list keeps the order in which timers were added. None of them is linked already when
  the opened list is added anew.

`TimerInv` consists of `Linked` (every list holds timers that belong there, without repetition, in
order, and every timer that is set and not in delivery is in one), `TimesOK` (a timer's `expire` is its
remaining ticks ahead of the time; none is due outside the second `timer_execute`), `OrderOK`,
`DispatchOK` and `ThreadOK`. The lemmas on quotients and remainders, with the stages' spans as
products, come first.

**Threads** (`StartProofs`). `SleepCounted` (`SleepExact`), `StopsEmpty` (`StopOnlyWhenEmpty`) and
`EmptyForever` (once no service is left none comes back), for any number of workers,
services and queues, from `StartInv`: `sleep` is the number of workers between the lock and
the decrement; the workers inside a callback are at most as many as the services; whoever
has read that no service is left is still right. The second part makes the third
inductive: a service can only be launched by a callback of another.

**Socket server** (`SocketProofs`). `SlotsAccounted` (`SlotsSound`), `AssertsHold`
(`AssertsPinned`), `EventsCurrent` (`EventCurrent`), `DataReachesOpener`
(`DataToOpener`) and `PacketsWhole` (`WireFramed`), for any number of slots, services,
packets of any size, ids and requests. The first four are from `SocketInv`:

- `TypeInv`, `FreshInv`: an id is handed out once, and the command that opens its socket is
  ahead of all others about it in the pipe. A slot's `wb_size` covers its lists, always.
- `DistinctInv`: the events of one wait are of different slots.
- `FailInv`: between the two stores of a failed open the id is of no socket and of no other
  reservation; the slot may be reserved again, and then the second store sets `raced`.
- As long as `raced` is false, `CalmInv`: a slot is reserved for exactly one reservation or
  opening command (`ClaimInv`); an id in use leads to its slot (`IdInv`); buffers are counted,
  a socket with something to send asks for output events, and no low list begins with part
  of a packet between two steps (`BufInv`, `ConnectInv`); an event is of the socket that is
  polled in the slot, or of the one that `clear_closed_event` is about to void (`EventInv`);
  and who was told what (`HeardInv`).

`AssertsPinned` is part of the invariant: it is about the assertions of `new_fd`, `force_close` and the
entry of `send_buffer`; the one of step 4 fails without any race (`socket_step4`). That the low list
does not begin in the middle of a packet, which `raise_uncomplete` restores after every
partial write, is what keeps the one at the entry. The induction is by
command, event and request; what they share (`CommandInv`, `EventStep`, `RequestStep`) and what
`send_buffer` returns (`Sent`) are lemmas.

`PacketsWhole` needs a second invariant beside it, `WireInv`, as long as `raced` is false.
What a socket has sent, its high list and its low list, put one after the other, make
whole packets (`Whole`); in each of the parts, and from one to the next, packets of one priority
are in order (`Ordered`, `Before`); the low list has only packets of low priority; all of
them are older than the packets in the pipe, which are in the order in which they were
sent (`Past`, `Queued`); and an id whose socket is not open yet has sent nothing
(`UnopenedInv`), so that the next socket in a slot begins with an empty line. It is proved
unit by unit: a partial write moves a front of the lists to the wire (`SentUnits`),
`raise_uncomplete` cuts the low list where another packet begins (`RaisedUnits`, `WholeCut`),
and a packet taken from the pipe joins the end of its list (`LinedHigh`, `LinedLow`).

The attempt to prove these showed three places where the properties said more than the code
keeps, beyond the bounds of the run. Once the socket thread has met a slot that is just being
reserved, or has freed one, a late send and a late close for the old id turn the reserved slot into
a half closed one, a socket can be reported open after it was reported gone, and the late close
writes the packet of the late send in the name of the old socket, behind the packet in the
middle of which that socket was closed. `SlotsSound`, `DataToOpener` and `WireFramed` are therefore stated up to that moment
(`~raced`), as `AssertsPinned` and `EventCurrent` already were.

**Lua runtime** (`RuntimeProofs`). `TrackedHolds` (`CallsTracked`) and `ForgottenHolds`
(`NobodyForgotten`), for any services, any of which may exit or fail to start, any number of
coroutines, calls and forks, from `RuntimeInv`:

- `Tables`: in a service whose Lua state is not closed, also after its exit, a session leads to the coroutine that waits for
  it and back, one coroutine runs, sessions are not numbered ahead of the counter, and a free
  coroutine works for nobody. The last two make the first inductive: a new call takes a
  session that nobody waits for, a new message a coroutine that nobody counts.
- `Counted`: a service watches an address at least as often as it works for it, the launcher
  also for the launches it has not answered. This is what makes `skynet.exit` and an error reach
  everybody who waits.
- `BoxesOK`: what the messages in a queue may be. An error without a session comes only from a
  service that has exited, and `Buried`: whoever is taken for dead has exited. Otherwise a coroutine
  could be told of a failure and be answered as well.
- `Fresh`, `Owed`: a service that has not been launched has nothing but its start function, and an
  answer put off by the launcher is for a session of a service.
- `NobodyForgotten` itself. A request that is dispatched after the exit of its service is one more
  reason to wait (`Holds`), which ends with an answer, a report or, at the end of the batch, in the
  named case (`Abandoned`). Each action has a lemma that shows which of the reasons a waiting
  session had (request, work, answer put off, answer, queued failure) it replaces by which other.

**Client connections** (`SessionProofs`). `CountHolds` (`ClientsCounted`), `KeysHold`
(`KeysAgree`), `ResidueHolds` (`NoResidue`) and `ReleaseHolds` (`AgentReleased`), for any
sets of sockets and users, any limit of the gate, any number of requests, with or without
`closeSocket()`, from `SessionInv` (theorem `SessionHolds`). But for the count
(`CountInv`) and the loop of `closeSocket` (`LoopInv`: it runs once and has one kick under
way at a time), the invariant is about one socket at a time (`SocketInv`):

- `Unborn`, `Born`, `Opening`: on its way to its agent a connection is in one place: the
  message of the gate, that of the watchdog, the launch, the start of the agent, the
  forwarding, the news that it is open. Nothing that belongs to a later stage exists before.
- `Counted`: the tables of gateserver and gate agree, and an entry without a socket has a close
  coming.
- `Leaving`: an agent that runs is in the table of the watchdog, or being kicked, or told
  to go, or dropped by `closeSocket`, and in one of these only; one that leaves has exactly one
  of its notification and the answer under way. An agent in the table whose connection
  has gone has the close coming: this is where the close must not overtake the opening.
- `Hushed`: the disconnection stays behind the last data in the agent's queue, and
  the notification behind the last request in the watchdog's; so after the answer nothing of the
  socket can be entered again, unless a login was waiting. What the script told the broadcast last
  is then the disconnect, and the queue keeps the order, so that no entry outlives it
  (`Forgets`).
- `Keys`, `Shaking`: the states that both ends of the handshake can be in together, with what
  is under way between them. At most one message is, until both have the key. One state is
  unexpected: the first message can come before `AGENT.opened`; the agent then resets its
  object, the later `start` does not repeat the exchange, and the connection stays silent, with
  the keys still in agreement.

`ResidueHolds` needs one fact beside it, which ties the two tables of users together: a user in
`userToFdTab` is on that socket in `fdToUserIdTab`, or another login took the place there (`UsersInv`).

Queues are not described place by place: four predicates say what a queue holds of a
socket (`Has`, `Once`, `NotAfter`, `Carries`), and two lemmas how appending and taking a
message change them. Each action has a lemma that shows the effect on its own socket, and that
it leaves every other one alone.

Only model-checked:

- all liveness properties (fairness and ENABLED are out of the prover's reach);
- the monitor.

## 7. What the checks found

`handle_concurrent`. `skynet_handle_register` rehashes by the handle field of the contexts in
the table, and `skynet_context_new` stores that field after the registration has
returned. If another thread registers in between and the table doubles, the context
is taken for handle 0 and the assertion of `skynet_handle.c:60` can fail.

`socket_step4`. The assertion of step 4 of `send_buffer` (`socket_server.c:638`) fails when the
system has taken a whole number of packets of the low list, none included, and not all of
them: nothing is then uncomplete, and the list is not empty. Neither another thread nor a race
is needed: a packet of low priority waits on a socket that is still connecting, and a close
request flushes it.

What the other properties had to leave out, because the code does it:

1. `AssertsPinned`, and with it what holds only while `raced` is false. A slot that a worker has
   just reserved: `reserve_id` stores the id after it took the slot (line 259), so that a late
   command for the last id finds it, and `clear_closed_event` (line 1216) looks at the
   type again and misses an event of the socket just closed. And a failed open: `new_fd` frees the
   slot (line 386) and `_failed` frees it once more (line 475); a worker that reserved it in between
   loses its reservation, two can then have the slot, the assertion of `new_fd` (line 382) can
   fail, and a second failure can free a slot whose socket is connected, with its events not voided.
2. `BlamesDispatched`. The monitor thread reads `destination`, looks the context up and sets the flag in
   separate steps (`skynet_monitor.c:40-41`, `skynet_server.c:243-247`); the message may have ended
   in between, and the flag is set all the same. What is left is that the service was dispatched since
   the versions were compared, and that it is the one at work if the version has not changed.
3. `NobodyForgotten`, `CallSettles`. After `skynet.exit` the worker goes on calling the service's callback
   for the rest of its batch (`skynet_server.c:313-338`). A call dispatched there whose handler yields is neither
   answered nor reported: `skynet.exit` has told its callers already, and the queue that is
   dropped does not hold the call any more. Its caller waits for ever. (The comment of
   `skynet.lua:330`, that the fork queue is cleared because no more coroutines will run, is not
   true of forks made in the rest of the batch.)
4. `CallSettles`. A coroutine that is failed from the error queue and raises leaves the other
   failures in the queue (`skynet.lua:69-76`); their coroutines wait until the service
   handles another message.
5. `AgentReleased`. `closeSocket()` without a socket (`watchdog.lua:29-32`) yields inside its loop and
   then replaces the table; agents that were stored meanwhile are never told to go.
6. `NoResidue`. A login that waits for the database when its agent leaves enters its user
   for a socket that is gone (`user/init.lua:52-53`), and the broadcast too. A user whose place on a
   socket another login takes stays in `userToFdTab` for good: the logout of the socket
   takes out only the user in `fdToUserIdTab`. Entries of `m_userInfoTab` (line 68) are taken out only by
   a timer that is never set; nothing is claimed of them.
7. `MemorySafe`. The launching thread writes `ctx->init` after its release (section 6).

Smaller things: `in_global` is 0 while a queue is linked by `skynet_mq_mark_release`, against the
comment of `skynet_mq.c:15`, harmlessly, as nobody can push to such a queue (`FlagInv`);
with harbor 0 the handle index comes round to 0, which `skynet_handle.c:251` reserves
"for system"; timers set
while the timer thread is behind the clock count from the wheel's time.

## 8. What is not modelled

`PROJECT.json` lists every component with its status.

- Of the socket server: UDP, `bind`, socket options and the exit command.
- Of the Lua runtime: `timeout`, `sleep` and `wakeup`, `response`, addresses by name, the
  serialisation of arguments; of the launcher its lists and statistics.
- Of the scripts: registration, checked login, rooms and the cluster (skeletons in this commit), the
  script timers, which nothing modelled starts, what the broadcast sends, a second `closeSocket()`, and
  the database cache, whose periodic
  write-back and `destroy` pass an undefined key (`services/db/init.lua:45,70`); `ClientSession` takes the
  database as a service that answers after a while.
- The harbor: the configuration has `harbor = 0`, where no message is remote.
- The environment table, logging, daemon mode, the allocation hook and the module loader,
  which take no decision that other components depend on.
- Encodings: ciphers and layout of messages, `lua-gatepack.c`, `lua-msgpack.c`, protocol tables.
- Vendored code (jemalloc, Lua, lpeg, md5), which is most of the repository's lines, and
  libraries of the framework that this server never starts.
- Weak memory: the reads that the code makes without a lock return some value that was
  written, in the order of the writes.
