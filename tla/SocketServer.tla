---------------------------- MODULE SocketServer ----------------------------
(* The socket server: the slots, the command pipe that services write and    *)
(* the socket thread reads, the write buffers of a TCP socket and the loop   *)
(* that alternates between commands and network events.  Services run on     *)
(* worker threads and touch a slot without a lock when they reserve an id;   *)
(* everything else is done by the socket thread.  The network is external:   *)
(* what a system call returns is chosen freely.                              *)
EXTENDS Integers, Sequences, FiniteSetsExt

CONSTANTS
    Services,       \* the services; each runs on one thread at a time
    Openers,        \* bound: the services that open sockets of their own
    MAX_SOCKET,     \* number of slots
    WARNING_SIZE,   \* buffered units at which the owner is warned
    Size,           \* Size[p]: the length of the p-th packet, in units
    MaxId,          \* bound: ids that are ever allocated
    MaxReq          \* bound: requests the services make in all

SlotIx == 0 .. MAX_SOCKET - 1
Ids    == 1 .. MaxId
Packets == DOMAIN Size
NULL   == MAX_SOCKET        \* the slot of an event that has been voided

ASSUME SocketAssumption ==
    /\ IsFiniteSet(Services)
    /\ Openers \subseteq Services
    /\ MAX_SOCKET \in Nat \ {0}
    /\ MaxId \in Nat
    /\ MaxReq \in Nat
    /\ WARNING_SIZE \in Nat \ {0}
    /\ Size \in Seq(Nat \ {0})
    /\ {"none", "gone"} \cap Services = {}

VARIABLES
    slot,       \* the slots
    alloc_id,   \* the last id handed out
    rsv,        \* rsv[w]: where service w is in reserve_id
    pipe,       \* the commands on their way to the socket thread
    pc,         \* the socket thread: "top", "take", "failing" or "clear"
    checkctrl,  \* commands are to be looked at before the next event
    ev,         \* the events fetched and not yet handled
    result,     \* the message that the last step sent to a service, or struct
                \* socket_message while open_socket fails
    failed,     \* the assertion that has stopped the process, or "no"
    sent,       \* history: the packets sent so far, in the order of the pipe
    reqs,       \* history: number of requests, for the bound
    known,      \* history: the ids that services have been told
    wire,       \* history: the units that the socket of an id has sent
    heard,      \* history: who was last told that the id is open
    raced       \* history: the socket thread has met a slot that a worker had
                \* just reserved, or has freed it

vars == <<slot, alloc_id, rsv, pipe, pc, checkctrl, ev, result, failed, sent,
          reqs, known, wire, heard, raced>>

-----------------------------------------------------------------------------
(* Slots and write buffers.  A buffer list is the sequence of the units that *)
(* it has still to send: <<p, k>> is the k-th unit of packet p.              *)

Hash(id) == id % MAX_SOCKET

FreeSlot == [type |-> "INVALID", id |-> 0, opaque |-> "none", high |-> <<>>,
             low |-> <<>>, wb_size |-> 0, warn_size |-> 0, out |-> FALSE]

Types == {"INVALID", "RESERVE", "PLISTEN", "LISTEN", "CONNECTING", "CONNECTED",
          "HALFCLOSE", "PACCEPT"}

\* The units of packet p after the first n.
Rest(p, n) == [i \in 1 .. Size[p] - n |-> <<p, n + i>>]

send_buffer_empty(s) == s.high = <<>> /\ s.low = <<>>

\* The head of the list has been sent in part.
list_uncomplete(list) == list # <<>> /\ Head(list)[2] > 1

\* The slot after force_close, whose assertion the callers check.
Closed(s) == [s EXCEPT !.type = "INVALID", !.high = <<>>, !.low = <<>>, !.out = FALSE]

\* Variant of append_sendbuffer: counts the whole packet.
append_counts_whole(s, p, n) ==
    [s EXCEPT !.high = @ \o Rest(p, n), !.wb_size = @ + Size[p]]

\* Variant of append_sendbuffer: keeps the whole packet, the part sent included.
append_keeps_whole(s, p, n) ==
    [s EXCEPT !.high = @ \o Rest(p, 0), !.wb_size = @ + Size[p]]

append_sendbuffer(s, p, n) ==
    [s EXCEPT !.high = @ \o Rest(p, n), !.wb_size = @ + Size[p] - n]

append_sendbuffer_low(s, p) ==
    [s EXCEPT !.low = @ \o Rest(p, 0), !.wb_size = @ + Size[p]]

\* Variant of raise_uncomplete: the low list keeps its head.
raise_uncomplete_never(s) == s

\* Move the head of the low list, sent in part, to the empty high list.
raise_uncomplete(s) ==
    LET n == Max({j \in DOMAIN s.low : s.low[j][1] = Head(s.low)[1]})
    IN  [s EXCEPT !.high = SubSeq(s.low, 1, n), !.low = SubSeq(s.low, n + 1, Len(s.low))]

Outcome(s, type, fail, units) == [s |-> s, type |-> type, fail |-> fail, units |-> units]

\* Step 4 of send_buffer, both lists empty: no more output events; a socket that
\* was half closed goes, and one that had been warned about is reported as well again.
Drained(t, wrote) ==
    IF t.type = "HALFCLOSE" THEN Outcome(Closed(t), "CLOSE", "no", wrote)
    ELSE IF t.warn_size > 0
    THEN Outcome([t EXCEPT !.out = FALSE, !.warn_size = 0], "WARNING", "no", wrote)
    ELSE Outcome([t EXCEPT !.out = FALSE], "none", "no", wrote)

\* send_buffer when the system takes k units and then blocks, or reports an error.
SendOutcome(s, k, err) ==
    LET n     == Len(s.high)
        k2    == IF k > n THEN k - n ELSE 0
        wrote == SubSeq(s.high \o s.low, 1, k)
        t     == [s EXCEPT !.high = SubSeq(@, k + 1, n),
                           !.low  = SubSeq(@, k2 + 1, Len(@)),
                           !.wb_size = @ - k]
    IN  IF list_uncomplete(s.low) THEN Outcome(s, "none", "uncomplete", <<>>)
        ELSE IF err THEN
            IF s.type = "RESERVE" THEN Outcome(s, "none", "reserve", <<>>)
            ELSE Outcome(Closed(t), "CLOSE", "no", wrote)
        ELSE IF t.high # <<>> THEN Outcome(t, "none", "no", wrote)
        ELSE IF list_uncomplete(t.low) THEN Outcome(raise_uncomplete(t), "none", "no", wrote)
        ELSE IF t.low # <<>> \/ t.wb_size # 0 THEN Outcome(t, "none", "not_empty", wrote)
        ELSE Drained(t, wrote)

\* What the system may do with the lists: take some units, and fail before the end.
Writes(s) ==
    {w \in [k : 0 .. Len(s.high) + Len(s.low), err : BOOLEAN] :
        w.err => w.k < Len(s.high) + Len(s.low)}

send_buffer(s) == {SendOutcome(s, w.k, w.err) : w \in Writes(s)}

\* The slot that new_fd fills in for id.
NewFd(id, type, opaque) ==
    [FreeSlot EXCEPT !.type = type, !.id = id, !.opaque = opaque]

-----------------------------------------------------------------------------
Quiet == [type |-> "none", id |-> 0, opaque |-> "none"]

Idle == [pc |-> "idle", i |-> 0, id |-> 0, op |-> "none"]

Init ==
    /\ slot = [i \in SlotIx |-> FreeSlot]
    /\ alloc_id = 0
    /\ rsv = [w \in Services |-> Idle]
    /\ pipe = <<>>
    /\ pc = "top"
    /\ checkctrl = TRUE
    /\ ev = <<>>
    /\ result = Quiet
    /\ failed = "no"
    /\ sent = <<>>
    /\ reqs = 0
    /\ known = {}
    /\ wire = [id \in Ids |-> <<>>]
    /\ heard = [id \in Ids |-> "none"]
    /\ raced = FALSE

-----------------------------------------------------------------------------
(* Services.  Requests that need an id reserve a slot first: one try per     *)
(* step, then the store of the id and the write to the pipe, before which    *)
(* nobody else knows the id.                                                 *)

Request(r) == pipe' = Append(pipe, r)

ReserveBegin(w, op) ==
    /\ w \in Openers
    /\ rsv[w].pc = "idle"
    /\ reqs < MaxReq
    /\ reqs' = reqs + 1
    /\ rsv' = [rsv EXCEPT ![w] = [pc |-> "try", i |-> 0, id |-> 0, op |-> op]]
    /\ UNCHANGED <<slot, alloc_id, pipe, pc, checkctrl, ev, result, failed, sent, known, wire, heard, raced>>

\* One round of the loop of reserve_id: the test and the compare-and-swap.
reserve_id(w) ==
    LET id == alloc_id + 1
        i  == Hash(id)
    IN  /\ rsv[w].pc = "try"
        /\ id \in Ids
        /\ alloc_id' = id
        /\ \/ /\ slot[i].type = "INVALID"
              /\ slot' = [slot EXCEPT ![i].type = "RESERVE"]
              /\ rsv' = [rsv EXCEPT ![w].pc = "store", ![w].id = id]
           \/ /\ slot[i].type # "INVALID"
              /\ rsv' = [rsv EXCEPT ![w] = IF rsv[w].i + 1 < MAX_SOCKET
                                           THEN [rsv[w] EXCEPT !.i = @ + 1]
                                           ELSE Idle]
              /\ UNCHANGED slot
        /\ UNCHANGED <<pipe, pc, checkctrl, ev, result, failed, sent, reqs, known, wire, heard, raced>>

ReserveStore(w) ==
    LET id == rsv[w].id IN
    /\ rsv[w].pc = "store"
    /\ slot' = [slot EXCEPT ![Hash(id)].id = id]
    /\ Request([op |-> rsv[w].op, id |-> id, opaque |-> w, shutdown |-> FALSE, p |-> 0])
    /\ known' = known \cup {id}
    /\ rsv' = [rsv EXCEPT ![w] = Idle]
    /\ UNCHANGED <<alloc_id, pc, checkctrl, ev, result, failed, sent, reqs, wire, heard, raced>>

\* socket_server_start, socket_server_close and socket_server_shutdown.
Ask(w, id, op, shutdown) ==
    /\ rsv[w].pc = "idle"
    /\ reqs < MaxReq
    /\ id \in known
    /\ reqs' = reqs + 1
    /\ Request([op |-> op, id |-> id, opaque |-> w, shutdown |-> shutdown, p |-> 0])
    /\ UNCHANGED <<slot, alloc_id, rsv, pc, checkctrl, ev, result, failed, sent, known, wire, heard, raced>>

\* socket_server_send and socket_server_send_lowpriority look at the slot first.
SendRequest(w, id, low) ==
    LET p == Len(sent) + 1 IN
    /\ rsv[w].pc = "idle"
    /\ reqs < MaxReq
    /\ p \in Packets
    /\ id \in known
    /\ slot[Hash(id)].id = id
    /\ slot[Hash(id)].type # "INVALID"
    /\ reqs' = reqs + 1
    /\ sent' = Append(sent, [id |-> id, low |-> low])
    /\ Request([op |-> IF low THEN "P" ELSE "D", id |-> id, opaque |-> w,
                shutdown |-> FALSE, p |-> p])
    /\ UNCHANGED <<slot, alloc_id, rsv, pc, checkctrl, ev, result, failed, known, wire, heard, raced>>

Service(w) ==
    \/ \E op \in {"O", "L"} : ReserveBegin(w, op)
    \/ reserve_id(w)
    \/ ReserveStore(w)
    \/ \E id \in Ids :
          \/ Ask(w, id, "S", FALSE)
          \/ \E shutdown \in BOOLEAN : Ask(w, id, "K", shutdown)
          \/ \E low \in BOOLEAN : SendRequest(w, id, low)

-----------------------------------------------------------------------------
(* Commands.  Every handler takes the command from the pipe; a message other *)
(* than "none" is forwarded to a service.  After CLOSE and ERR the thread    *)
(* goes on to clear_closed_event.                                            *)

\* The message goes to its service, and the history of who was told follows.
Forward(type, id, opaque) ==
    /\ result' = [type |-> type, id |-> id, opaque |-> opaque]
    /\ heard' = [heard EXCEPT ![id] = CASE type = "OPEN" -> opaque
                                        [] type \in {"CLOSE", "ERR"} -> "gone"
                                        [] OTHER -> @]

Nothing ==
    /\ result' = Quiet
    /\ UNCHANGED heard

Command(op) ==
    /\ pc = "top"
    /\ checkctrl
    /\ pipe # <<>>
    /\ Head(pipe).op = op
    /\ pipe' = Tail(pipe)
    /\ UNCHANGED <<alloc_id, rsv, checkctrl, ev, sent, reqs, known>>

\* The handler has returned a type.
Return(type, id, opaque) ==
    /\ IF type = "none" THEN Nothing ELSE Forward(type, id, opaque)
    /\ pc' = IF type \in {"CLOSE", "ERR"} THEN "clear" ELSE pc

Fail(what) ==
    /\ failed' = what
    /\ Nothing
    /\ UNCHANGED <<slot, pc, wire>>

\* new_fd's assertions hold for the slot.
FdFree(s) == s.type = "RESERVE" /\ send_buffer_empty(s)

\* sp_add fails in new_fd, which frees the slot; open_socket has still to go to
\* its label _failed.
AddFails(r) ==
    /\ slot[Hash(r.id)].type = "RESERVE"
    /\ slot' = [slot EXCEPT ![Hash(r.id)].type = "INVALID"]
    /\ result' = [type |-> "none", id |-> r.id, opaque |-> r.opaque]
    /\ pc' = "failing"
    /\ UNCHANGED <<failed, wire, heard>>

open_socket ==
    LET r == Head(pipe)
        i == Hash(r.id)
    IN  /\ Command("O")
        /\ UNCHANGED raced
        /\ \/ /\ slot' = [slot EXCEPT ![i].type = "INVALID"]
              /\ Return("ERR", r.id, r.opaque)
              /\ UNCHANGED <<failed, wire>>
           \/ AddFails(r)
           \/ /\ FdFree(slot[i])
              /\ \/ /\ slot' = [slot EXCEPT ![i] = NewFd(r.id, "CONNECTED", r.opaque)]
                    /\ Return("OPEN", r.id, r.opaque)
                 \/ /\ slot' = [slot EXCEPT ![i] = [NewFd(r.id, "CONNECTING", r.opaque)
                                                    EXCEPT !.out = TRUE]]
                    /\ Return("none", r.id, r.opaque)
              /\ UNCHANGED <<failed, wire>>
           \/ ~FdFree(slot[i]) /\ Fail("new_fd")

\* The label _failed after new_fd has failed: the slot is freed once more, and a
\* worker may have reserved it since.
open_failed ==
    LET i == Hash(result.id) IN
    /\ pc = "failing"
    /\ raced' = (raced \/ slot[i].type = "RESERVE")
    /\ slot' = [slot EXCEPT ![i].type = "INVALID"]
    /\ Return("ERR", result.id, result.opaque)
    /\ UNCHANGED <<alloc_id, rsv, pipe, checkctrl, ev, failed, sent, reqs, known, wire>>

listen_socket ==
    LET r == Head(pipe)
        i == Hash(r.id)
    IN  /\ Command("L")
        /\ UNCHANGED raced
        /\ \/ /\ FdFree(slot[i])
              /\ slot' = [slot EXCEPT ![i] = NewFd(r.id, "PLISTEN", r.opaque)]
              /\ Return("none", r.id, r.opaque)
              /\ UNCHANGED <<failed, wire>>
           \/ ~FdFree(slot[i]) /\ Fail("new_fd")

\* The slot is not, or no longer, the one of the id.
Stale(s, id) == s.type = "INVALID" \/ s.id # id

\* Variant of Transfer: the new owner is answered and the old one kept.
TransferKeepsOwner(s, w) == s

\* A connected socket that is started again belongs to the service that asked.
Transfer(s, w) == [s EXCEPT !.opaque = w]

start_socket ==
    LET r == Head(pipe)
        i == Hash(r.id)
        s == slot[i]
    IN  /\ Command("S")
        /\ UNCHANGED <<failed, wire, raced>>
        /\ \/ /\ Stale(s, r.id)
              /\ UNCHANGED slot
              /\ Return("ERR", r.id, r.opaque)
           \/ /\ ~Stale(s, r.id)
              /\ s.type \in {"PACCEPT", "PLISTEN"}
              /\ \/ /\ slot' = [slot EXCEPT ![i] = Closed(s)]
                    /\ Return("ERR", r.id, s.opaque)
                 \/ /\ slot' = [slot EXCEPT
                                  ![i].type = IF s.type = "PACCEPT" THEN "CONNECTED" ELSE "LISTEN",
                                  ![i].opaque = r.opaque]
                    /\ Return("OPEN", r.id, r.opaque)
           \/ /\ ~Stale(s, r.id)
              /\ s.type = "CONNECTED"
              /\ slot' = [slot EXCEPT ![i] = Transfer(s, r.opaque)]
              /\ Return("OPEN", r.id, r.opaque)
           \/ /\ ~Stale(s, r.id)
              /\ s.type \notin {"PACCEPT", "PLISTEN", "CONNECTED"}
              /\ UNCHANGED slot
              /\ Return("none", r.id, r.opaque)

close_socket ==
    LET r == Head(pipe)
        i == Hash(r.id)
        s == slot[i]
    IN  /\ Command("K")
        /\ raced' = (raced \/ (s.id = r.id /\ s.type = "RESERVE"))
        /\ \/ /\ Stale(s, r.id)
              /\ Return("CLOSE", r.id, r.opaque)
              /\ UNCHANGED <<slot, failed, wire>>
           \/ /\ ~Stale(s, r.id)
              /\ \E o \in IF send_buffer_empty(s) THEN {Outcome(s, "none", "no", <<>>)}
                          ELSE send_buffer(s) :
                    LET closing == r.shutdown \/ send_buffer_empty(o.s)
                        done(t, type, opaque) ==
                            /\ slot' = [slot EXCEPT ![i] = t]
                            /\ wire' = [wire EXCEPT ![r.id] = @ \o o.units]
                            /\ Return(type, r.id, opaque)
                            /\ UNCHANGED failed
                    IN  \/ o.fail # "no" /\ Fail(o.fail)
                        \/ o.fail = "no" /\ o.type = "CLOSE" /\ done(o.s, "CLOSE", s.opaque)
                        \/ /\ o.fail = "no" /\ o.type # "CLOSE" /\ closing
                           /\ \/ s.type = "RESERVE" /\ Fail("reserve")
                              \/ s.type # "RESERVE" /\ done(Closed(o.s), "CLOSE", r.opaque)
                        \/ /\ o.fail = "no" /\ o.type # "CLOSE" /\ ~closing
                           /\ done([o.s EXCEPT !.type = "HALFCLOSE"], "none", r.opaque)

\* The owner is warned when the buffered size passes the threshold, which doubles.
Warn(s, i) ==
    /\ slot' = [slot EXCEPT ![i] =
                   IF s.wb_size >= WARNING_SIZE /\ s.wb_size >= s.warn_size
                   THEN [s EXCEPT !.warn_size = IF @ = 0 THEN WARNING_SIZE * 2 ELSE @ * 2]
                   ELSE s]
    /\ Return(IF s.wb_size >= WARNING_SIZE /\ s.wb_size >= s.warn_size THEN "WARNING" ELSE "none",
              s.id, s.opaque)

send_socket ==
    LET r == Head(pipe)
        i == Hash(r.id)
        s == slot[i]
    IN  /\ Command("D") \/ Command("P")
        /\ raced' = (raced \/ (s.id = r.id /\ s.type = "RESERVE"))
        /\ UNCHANGED failed
        /\ \/ /\ Stale(s, r.id) \/ s.type \in {"HALFCLOSE", "PACCEPT", "PLISTEN", "LISTEN"}
              /\ Return("none", r.id, r.opaque)
              /\ UNCHANGED <<slot, wire>>
           \/ /\ ~Stale(s, r.id)
              /\ s.type = "CONNECTED" /\ send_buffer_empty(s)
              /\ \/ /\ slot' = [slot EXCEPT ![i] = Closed(s)]
                    /\ Return("CLOSE", r.id, s.opaque)
                    /\ UNCHANGED wire
                 \/ \E n \in 0 .. Size[r.p] :
                       /\ wire' = [wire EXCEPT ![r.id] = @ \o SubSeq(Rest(r.p, 0), 1, n)]
                       /\ \/ /\ n = Size[r.p]
                             /\ Return("none", r.id, r.opaque)
                             /\ UNCHANGED slot
                          \/ /\ n < Size[r.p]
                             /\ Warn([append_sendbuffer(s, r.p, n) EXCEPT !.out = TRUE], i)
           \/ /\ ~Stale(s, r.id)
              /\ s.type \in {"CONNECTING", "RESERVE"} \/ (s.type = "CONNECTED" /\ ~send_buffer_empty(s))
              /\ Warn(IF r.op = "P" THEN append_sendbuffer_low(s, r.p)
                      ELSE append_sendbuffer(s, r.p, 0), i)
              /\ UNCHANGED wire

\* Variant of Voided: the events of a closed socket stay.
VoidedNever(i, id, e) == FALSE

\* The event is of the socket that a command has just closed.
Voided(i, id, e) == e.s = i /\ slot[i].type = "INVALID" /\ slot[i].id = id

\* clear_closed_event: a worker may have taken the slot since it was closed.
clear_closed_event ==
    LET id == result.id
        i  == Hash(id)
    IN  /\ pc = "clear"
        /\ pc' = "top"
        /\ ev' = [n \in DOMAIN ev |-> IF Voided(i, id, ev[n]) THEN [ev[n] EXCEPT !.s = NULL]
                                      ELSE ev[n]]
        /\ raced' = (raced \/ (slot[i].type = "RESERVE" /\ \E n \in DOMAIN ev : ev[n].s = i))
        /\ result' = Quiet
        /\ UNCHANGED <<slot, alloc_id, rsv, pipe, checkctrl, failed, sent, reqs, known, wire, heard>>
-----------------------------------------------------------------------------
(* Events.  Nothing closes the slot of an event before its turn except a     *)
(* command, since the events of one wait are of different slots.             *)

Polled(i) == slot[i].type \in {"LISTEN", "CONNECTING", "CONNECTED", "HALFCLOSE"}

\* What the system may report: output only where it has been asked for.
PollEvents ==
    {e \in [s : {i \in SlotIx : Polled(i)}, id : Ids, read : BOOLEAN, write : BOOLEAN] :
        /\ e.id = slot[e.s].id
        /\ e.read \/ e.write
        /\ e.write => slot[e.s].out}

\* sp_wait returns the events q.  The pipe has an event of its own: when it
\* comes first, commands are handled before the other events.
Wait(q) ==
    /\ pc = "top"
    /\ ev = <<>>
    /\ ~checkctrl \/ pipe = <<>>
    /\ q # <<>> \/ pipe # <<>>
    /\ \A m, n \in DOMAIN q : q[m].s = q[n].s => m = n
    /\ ev' = q
    /\ checkctrl' = TRUE
    /\ \/ q # <<>> /\ pc' = "take"
       \/ pipe # <<>> /\ pc' = "top"
    /\ Nothing
    /\ UNCHANGED <<slot, alloc_id, rsv, pipe, failed, sent, reqs, known, wire, raced>>

sp_wait == \E n \in 0 .. MAX_SOCKET : \E q \in [1 .. n -> PollEvents] : Wait(q)

\* The loop takes the next event: at once after the wait, otherwise when no
\* command is waiting or commands have been looked at.
Event ==
    /\ ev # <<>>
    /\ pc = "take" \/ (pc = "top" /\ (~checkctrl \/ pipe = <<>>))
    /\ pc' = "top"
    /\ checkctrl' = (pc = "take")
    /\ UNCHANGED <<rsv, pipe, sent, reqs>>

EventSlot == slot[Head(ev).s]

\* The event is of a slot that is in one of the states.
EventOf(types) == Event /\ Head(ev).s # NULL /\ EventSlot.type \in types

SkipEvent ==
    /\ Event
    /\ Head(ev).s # NULL => EventSlot.type = "INVALID"
    /\ ev' = Tail(ev)
    /\ Nothing
    /\ UNCHANGED <<slot, alloc_id, failed, known, wire, raced>>

report_connect ==
    LET i == Head(ev).s
        s == EventSlot
    IN  /\ EventOf({"CONNECTING"})
        /\ ev' = Tail(ev)
        /\ \/ /\ slot' = [slot EXCEPT ![i] = Closed(s)]
              /\ Forward("ERR", s.id, s.opaque)
           \/ /\ slot' = [slot EXCEPT ![i].type = "CONNECTED",
                                      ![i].out = s.out /\ ~send_buffer_empty(s)]
              /\ Forward("OPEN", s.id, s.opaque)
        /\ UNCHANGED <<alloc_id, failed, known, wire, raced>>

\* The tries of reserve_id by the socket thread, which alone frees slots.
Tries == {k \in 1 .. MAX_SOCKET : slot[Hash(alloc_id + k)].type = "INVALID"}

report_accept ==
    LET s == EventSlot IN
    /\ EventOf({"LISTEN"})
    /\ ev' = Tail(ev)
    /\ \/ /\ Nothing                                  \* accept fails
          /\ UNCHANGED <<slot, alloc_id, known>>
       \/ /\ Forward("ERR", s.id, s.opaque)           \* no more file descriptors
          /\ UNCHANGED <<slot, alloc_id, known>>
       \/ /\ Tries = {}                               \* no slot: the client is dropped
          /\ alloc_id + MAX_SOCKET <= MaxId
          /\ alloc_id' = alloc_id + MAX_SOCKET
          /\ Nothing
          /\ UNCHANGED <<slot, known>>
       \/ \E k \in Tries :
             LET id == alloc_id + k IN
             /\ \A j \in Tries : k <= j
             /\ id \in Ids
             /\ alloc_id' = id
             /\ slot' = [slot EXCEPT ![Hash(id)] = NewFd(id, "PACCEPT", s.opaque)]
             /\ known' = known \cup {id}
             /\ Forward("ACCEPT", s.id, s.opaque)
    /\ UNCHANGED <<failed, wire, raced>>

Streams == {"RESERVE", "PLISTEN", "PACCEPT", "CONNECTED", "HALFCLOSE"}

\* Input is handled first; when the event is of output too it stays for that.
forward_message_tcp ==
    LET i == Head(ev).s
        s == EventSlot
        goOn == IF Head(ev).write THEN <<[Head(ev) EXCEPT !.read = FALSE]>> \o Tail(ev)
                ELSE Tail(ev)
    IN  /\ EventOf(Streams)
        /\ Head(ev).read
        /\ raced' = (raced \/ s.type = "RESERVE")
        /\ \/ /\ s.type = "RESERVE"                   \* read fails, and force_close asserts
              /\ failed' = "reserve"
              /\ ev' = Tail(ev)
              /\ Nothing
              /\ UNCHANGED slot
           \/ /\ s.type # "RESERVE"
              /\ \E type \in {"ERR", "CLOSE"} : Forward(type, s.id, s.opaque)
              /\ slot' = [slot EXCEPT ![i] = Closed(s)]
              /\ ev' = Tail(ev)
              /\ UNCHANGED failed
           \/ /\ s.type \notin {"RESERVE", "HALFCLOSE", "PLISTEN"}
              /\ Forward("DATA", s.id, s.opaque)
              /\ ev' = goOn
              /\ UNCHANGED <<slot, failed>>
           \/ /\ s.type # "RESERVE"                   \* nothing to read, or discarded
              /\ Nothing
              /\ ev' = goOn
              /\ UNCHANGED <<slot, failed>>
        /\ UNCHANGED <<alloc_id, known, wire>>

\* Output.
Flush ==
    LET i == Head(ev).s
        s == EventSlot
    IN
    /\ EventOf(Streams)
    /\ ~Head(ev).read
    /\ ev' = Tail(ev)
    /\ raced' = (raced \/ s.type = "RESERVE")
    /\ \E o \in send_buffer(s) :
          \/ /\ o.fail # "no"
             /\ failed' = o.fail
             /\ Nothing
             /\ UNCHANGED <<slot, wire>>
          \/ /\ o.fail = "no"
             /\ slot' = [slot EXCEPT ![i] = o.s]
             /\ wire' = IF s.id \in Ids THEN [wire EXCEPT ![s.id] = @ \o o.units] ELSE wire
             /\ IF o.type = "none" THEN Nothing ELSE Forward(o.type, s.id, s.opaque)
             /\ UNCHANGED failed
    /\ UNCHANGED <<alloc_id, known>>

Poll ==
    \/ open_socket
    \/ open_failed
    \/ listen_socket
    \/ start_socket
    \/ close_socket
    \/ send_socket
    \/ clear_closed_event
    \/ sp_wait
    \/ SkipEvent
    \/ report_connect
    \/ report_accept
    \/ forward_message_tcp
    \/ Flush

\* A failed assertion ends the process.
Next == failed = "no" /\ (Poll \/ \E w \in Services : Service(w))

Spec == Init /\ [][Next]_vars

-----------------------------------------------------------------------------
Units == Packets \X Nat
Lists == Seq(Units)

SlotRecord ==
    [type : Types, id : 0 .. MaxId, opaque : Services \cup {"none"},
     high : Lists, low : Lists,
     wb_size : Nat, warn_size : Nat, out : BOOLEAN]

SocketTypeOK ==
    /\ slot \in [SlotIx -> SlotRecord]
    /\ alloc_id \in 0 .. MaxId
    /\ \A w \in Services : rsv[w].pc \in {"idle", "try", "store"} /\ rsv[w].id \in 0 .. MaxId
    /\ \A n \in DOMAIN pipe : pipe[n].id \in Ids /\ pipe[n].opaque \in Services
    /\ pc \in {"top", "take", "failing", "clear"}
    /\ checkctrl \in BOOLEAN
    /\ \A n \in DOMAIN ev : ev[n].s \in SlotIx \cup {NULL}
    /\ heard \in [Ids -> Services \cup {"none", "gone"}]

\* The reservations of slot i that are under way or on their way in the pipe.
Claims(i) ==
    {w \in Services : rsv[w].pc = "store" /\ Hash(rsv[w].id) = i}
    \cup {n \in DOMAIN pipe : pipe[n].op \in {"O", "L"} /\ Hash(pipe[n].id) = i}

(* Slots do not leak and output is not forgotten, as long as the socket       *)
(* thread has not met, or freed, a slot that a worker was just reserving.  A  *)
(* slot is reserved exactly while one reservation of it is under way or on    *)
(* its way in the pipe, no matter how reserve_id, failed opens and closes     *)
(* interleave; wb_size is what the two lists hold; and a socket that has      *)
(* something to send asks for output events (sp_write); only such a socket is *)
(* kept half closed.                                                          *)
SlotsSound ==
    /\ SocketTypeOK
    /\ ~raced => \A i \in SlotIx :
        LET s == slot[i] IN
        /\ failed = "no" =>
              IF s.type = "RESERVE" THEN Cardinality(Claims(i)) = 1 ELSE Claims(i) = {}
        /\ IF s.type \in {"INVALID", "RESERVE"} THEN send_buffer_empty(s)
           ELSE s.wb_size = Len(s.high) + Len(s.low)
        /\ /\ s.type \in {"CONNECTING", "CONNECTED", "HALFCLOSE"}
           /\ ~send_buffer_empty(s)
           => s.out
        /\ s.type = "HALFCLOSE" => ~send_buffer_empty(s)

(* The assertions of new_fd, force_close and the entry of send_buffer fail    *)
(* only if the socket thread and a worker have collided at a slot: the thread *)
(* met a slot that the worker was just reserving (reserve_id stores the id    *)
(* after it has taken the slot, and clear_closed_event tests the type again), *)
(* or freed it (open_socket frees the slot once more after new_fd has).  No   *)
(* other order of commands, events and partial writes breaks one.             *)
AssertsPinned == failed \in {"new_fd", "reserve", "uncomplete"} => raced

(* What the assertion of step 4 of send_buffer says: once neither list has a  *)
(* packet that was sent in part, both are empty.                              *)
EmptyAtStep4 == ~raced => failed # "not_empty"

(* An event that waits for its turn is of the socket that now has the slot:  *)
(* a command that closes the socket voids it (clear_closed_event) before the *)
(* slot is used again, unless a worker reserved the slot in between, or      *)
(* open_socket freed a slot that a worker had reserved.                      *)
EventCurrent ==
    \A n \in DOMAIN ev :
        LET e == ev[n] IN
        e.s # NULL => \/ slot[e.s].type # "INVALID" /\ slot[e.s].id = e.id
                      \/ pc = "clear" /\ result.id = e.id
                      \/ raced

(* What a socket sends is whole packets one after the other, never two       *)
(* interleaved, and packets of one priority leave in the order in which they *)
(* were sent, whatever part of a packet each write takes; as long as the     *)
(* socket thread has not met a slot that a worker was just reserving, which  *)
(* still has the id of the socket before, or freed one.                      *)
WireFramed ==
    ~raced => \A id \in Ids :
        LET u == wire[id] IN
        /\ u # <<>> => u[1][2] = 1
        /\ \A n \in 1 .. Len(u) - 1 :
              \/ u[n + 1] = <<u[n][1], u[n][2] + 1>>
              \/ u[n][2] = Size[u[n][1]] /\ u[n + 1][2] = 1
        /\ \A m, n \in DOMAIN u :
              m < n /\ sent[u[m][1]].low = sent[u[n][1]].low => u[m][1] <= u[n][1]

(* Data goes to the service that was last told that the socket is open, and  *)
(* to nobody after a service has been told that it is closed or has failed,  *)
(* nor is a socket reported as open after that; as long as the socket thread *)
(* has not met, or freed, a slot that a worker was just reserving.           *)
DataToOpener ==
    [][~raced' /\ result' # result =>
          /\ result'.type = "DATA" => heard[result'.id] = result'.opaque
          /\ result'.type = "OPEN" => heard[result'.id] # "gone"]_vars
=============================================================================
