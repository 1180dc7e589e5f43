------------------------------ MODULE SkynetMQ ------------------------------
(***************************************************************************)
(* The two levels of message queue of the skynet kernel                    *)
(* (skynet-src/skynet_mq.c).  Every service owns one private queue; the    *)
(* queues that have work are linked into one global queue, from which the  *)
(* worker threads take them.                                               *)
(*                                                                         *)
(* A service and its private queue are created together by                 *)
(* skynet_context_new and handles are not reused (skynet_handle.c only     *)
(* counts up), so one identifier, a member of Services, stands for the     *)
(* service, its handle and its queue.                                      *)
(*                                                                         *)
(* Each operator below is one critical section of the queue's spinlock.    *)
(* skynet_globalmq_push, which mq_push and mark_release call with the      *)
(* queue's lock held, is folded into them: the flags cannot be seen before *)
(* that lock is released, and a queue not yet linked looks to every other  *)
(* thread as it did before the section began.  The ring buffer behind a    *)
(* private queue is the subject of module MQRing; here it is a sequence.   *)
(***************************************************************************)
EXTENDS Integers, Sequences

CONSTANTS
  Services,    \* the services the node may ever launch
  Msgs,        \* identities of the ordinary messages: each is sent at most once
  NoService,   \* a null service pointer; also handle 0, the source of system messages
  NoMsg        \* the identity of messages that are not tracked one by one

ASSUME NullAssumption == NoService \notin Services /\ NoMsg \notin Msgs

VARIABLES
  globalq,     \* struct global_queue: the linked queues, head first
  queue,       \* queue[s]: the messages of s, oldest first
  in_global,   \* queue[s].in_global, 0 or 1
  release,     \* queue[s].release, 0 or 1
  qmem         \* the memory of queue s: "none", "live" or "freed"

mqVars == <<globalq, queue, in_global, release, qmem>>

(***************************************************************************)
(* Messages: an ordinary request, the PTYPE_ERROR report of drop_message   *)
(* (id then names the message that was dropped), and the notice that       *)
(* handle_exit sends to the monitor service.                               *)
(***************************************************************************)
Message == [typ : {"req", "err", "exit"}, id : Msgs \cup {NoMsg},
            src : Services \cup {NoService}]

NoMessage == [typ |-> "none", id |-> NoMsg, src |-> NoService]

MQTypeOK ==
  /\ globalq \in Seq(Services)
  /\ queue \in [Services -> Seq(Message)]
  /\ in_global \in [Services -> {0, 1}]
  /\ release \in [Services -> {0, 1}]
  /\ qmem \in [Services -> {"none", "live", "freed"}]

InGlobalQueue(s) == \E i \in 1..Len(globalq) : globalq[i] = s

-----------------------------------------------------------------------------

\* skynet_globalmq_push.
globalmq_push(s) == globalq' = Append(globalq, s)

\* skynet_globalmq_pop, when there is a queue to take: s is the one taken.
globalmq_pop(s) ==
  /\ globalq # <<>>
  /\ s = Head(globalq)
  /\ globalq' = Tail(globalq)

\* Variant of mq_create: the queue starts with in_global clear.
mq_create_flag0(s) ==
  /\ qmem' = [qmem EXCEPT ![s] = "live"]
  /\ queue' = [queue EXCEPT ![s] = <<>>]
  /\ in_global' = [in_global EXCEPT ![s] = 0]
  /\ release' = [release EXCEPT ![s] = 0]
  /\ UNCHANGED globalq

\* skynet_mq_create: the flag is set although nobody linked the queue yet.
mq_create(s) ==
  /\ qmem' = [qmem EXCEPT ![s] = "live"]
  /\ queue' = [queue EXCEPT ![s] = <<>>]
  /\ in_global' = [in_global EXCEPT ![s] = 1]
  /\ release' = [release EXCEPT ![s] = 0]
  /\ UNCHANGED globalq

\* Variants of mq_push: the link into the global queue is forgotten; the flag
\* is not looked at.
mq_push_nolink(s, m) ==
  /\ queue' = [queue EXCEPT ![s] = Append(@, m)]
  /\ UNCHANGED <<globalq, in_global, release, qmem>>

mq_push_relink(s, m) ==
  /\ queue' = [queue EXCEPT ![s] = Append(@, m)]
  /\ in_global' = [in_global EXCEPT ![s] = 1]
  /\ globalmq_push(s)
  /\ UNCHANGED <<release, qmem>>

\* skynet_mq_push.
mq_push(s, m) ==
  /\ queue' = [queue EXCEPT ![s] = Append(@, m)]
  /\ in_global' = [in_global EXCEPT ![s] = 1]
  /\ globalq' = IF in_global[s] = 0 THEN Append(globalq, s) ELSE globalq
  /\ UNCHANGED <<release, qmem>>

\* Variant of mq_pop: head is not advanced.
mq_pop_peek(s) ==
  /\ queue[s] # <<>>
  /\ UNCHANGED <<globalq, queue, in_global, release, qmem>>

\* skynet_mq_pop on a queue that holds a message.
mq_pop(s) ==
  /\ queue[s] # <<>>
  /\ queue' = [queue EXCEPT ![s] = Tail(@)]
  /\ UNCHANGED <<globalq, in_global, release, qmem>>

\* skynet_mq_pop on an empty queue: the caller loses the queue.
mq_pop_empty(s) ==
  /\ queue[s] = <<>>
  /\ in_global' = [in_global EXCEPT ![s] = 0]
  /\ UNCHANGED <<globalq, queue, release, qmem>>

\* Variant of mark_release: a queue that is nowhere is not pushed.
mark_release_nopush(s) ==
  /\ release' = [release EXCEPT ![s] = 1]
  /\ UNCHANGED <<globalq, queue, in_global, qmem>>

\* skynet_mq_mark_release: pushes without setting in_global.
mark_release(s) ==
  /\ release' = [release EXCEPT ![s] = 1]
  /\ globalq' = IF in_global[s] = 0 THEN Append(globalq, s) ELSE globalq
  /\ UNCHANGED <<queue, in_global, qmem>>

\* skynet_mq_release: the global queue afterwards.  A queue not marked yet is
\* pushed back, to be looked at again; a marked one is dropped by the caller.
mq_release(s) == IF release[s] = 1 THEN globalq ELSE Append(globalq, s)

\* The last iteration of _drop_queue: a pop that finds nothing, then _release.
drop_done(s) ==
  /\ queue[s] = <<>>
  /\ in_global' = [in_global EXCEPT ![s] = 0]
  /\ qmem' = [qmem EXCEPT ![s] = "freed"]
  /\ UNCHANGED <<globalq, queue, release>>
=============================================================================
