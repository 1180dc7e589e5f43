------------------------------- MODULE MQRing -------------------------------
(***************************************************************************)
(* The ring buffer behind a private message queue, and its overload        *)
(* warning (skynet_mq_push, skynet_mq_pop, expand_queue, skynet_mq_length  *)
(* and skynet_mq_overload of skynet-src/skynet_mq.c).  Senders push and    *)
(* the owner of the queue pops, each under the queue's spinlock; only the  *)
(* owner reads and clears the overload mark.                               *)
(***************************************************************************)
EXTENDS Integers, Sequences

CONSTANTS
  Payload,             \* the messages
  Garbage,             \* what a slot holds that was never written
  DEFAULT_QUEUE_SIZE,  \* initial capacity, 64 in the code
  MQ_OVERLOAD,         \* first length that is reported, 1024 in the code
  MaxPush              \* bound: messages pushed in a behaviour

ASSUME SizeAssumption == DEFAULT_QUEUE_SIZE \in Nat \ {0} /\ MQ_OVERLOAD \in Nat \ {0}
ASSUME PayloadAssumption == Garbage \notin Payload
ASSUME MaxPushAssumption == MaxPush \in Nat

VARIABLES
  cap, head, tail,     \* capacity and the two ends
  queue,               \* the array, indexed from 0
  overload,            \* length to be reported, 0 for none
  overload_threshold,
  popped,              \* history: the messages popped
  longest,             \* history: greatest length a pop has seen since the last empty pop
  pushes               \* messages pushed so far, for the bound

ringVars == <<cap, head, tail, queue, overload, overload_threshold, popped, longest, pushes>>

\* skynet_mq_length.
Length == IF head <= tail THEN tail - head ELSE tail + cap - head

RingTypeOK ==
  /\ cap \in Nat \ {0}
  /\ head \in 0..cap - 1 /\ tail \in 0..cap - 1
  /\ queue \in [0..cap - 1 -> Payload \cup {Garbage}]
  /\ overload \in Nat /\ overload_threshold \in Nat \ {0}
  /\ popped \in Seq(Payload)
  /\ longest \in Nat /\ pushes \in Nat

\* skynet_mq_create.
Init ==
  /\ cap = DEFAULT_QUEUE_SIZE /\ head = 0 /\ tail = 0
  /\ queue = [i \in 0..DEFAULT_QUEUE_SIZE - 1 |-> Garbage]
  /\ overload = 0 /\ overload_threshold = MQ_OVERLOAD
  /\ popped = <<>> /\ longest = 0 /\ pushes = 0

\* The index after i.
Wrap(i) == IF i + 1 >= cap THEN 0 ELSE i + 1

\* Variant of expand_queue: the array is copied as it lies.
expand_queue_plain(q) ==
  /\ queue' = [i \in 0..2 * cap - 1 |-> IF i < cap THEN q[i] ELSE Garbage]
  /\ head' = 0 /\ tail' = cap /\ cap' = 2 * cap

\* expand_queue: an array q twice as large, the oldest message first.
expand_queue(q) ==
  /\ queue' = [i \in 0..2 * cap - 1 |-> IF i < cap THEN q[(head + i) % cap] ELSE Garbage]
  /\ head' = 0 /\ tail' = cap /\ cap' = 2 * cap

\* Variant of Push: the array never grows.
PushNoGrowth(m) ==
  /\ pushes < MaxPush
  /\ pushes' = pushes + 1
  /\ queue' = [queue EXCEPT ![tail] = m] /\ tail' = Wrap(tail)
  /\ UNCHANGED <<head, cap, overload, overload_threshold, popped, longest>>

\* skynet_mq_push.
Push(m) ==
  /\ pushes < MaxPush
  /\ pushes' = pushes + 1
  /\ LET q == [queue EXCEPT ![tail] = m] IN
       IF head = Wrap(tail) THEN expand_queue(q)
       ELSE queue' = q /\ tail' = Wrap(tail) /\ UNCHANGED <<head, cap>>
  /\ UNCHANGED <<overload, overload_threshold, popped, longest>>

\* The threshold after while (length > threshold) threshold *= 2.
Doubled(th, len) ==
  LET loop[t \in Nat \ {0}] == IF len > t THEN loop[2 * t] ELSE t IN loop[th]

\* What is left after a pop that moved head to h.
Left(h) == IF tail - h < 0 THEN tail - h + cap ELSE tail - h

\* Variant of Pop: one doubling, however long the queue is.
PopDoubleOnce ==
  /\ head # tail
  /\ popped' = Append(popped, queue[head])
  /\ head' = Wrap(head)
  /\ LET len == Left(Wrap(head)) IN
       /\ overload' = IF len > overload_threshold THEN len ELSE overload
       /\ overload_threshold' = IF len > overload_threshold THEN overload_threshold * 2
                                ELSE overload_threshold
       /\ longest' = IF len > longest THEN len ELSE longest
  /\ UNCHANGED <<cap, tail, queue, pushes>>

\* skynet_mq_pop of a message.
Pop ==
  /\ head # tail
  /\ popped' = Append(popped, queue[head])
  /\ head' = Wrap(head)
  /\ LET len == Left(Wrap(head)) IN
       /\ overload' = IF len > overload_threshold THEN len ELSE overload
       /\ overload_threshold' = Doubled(overload_threshold, len)
       /\ longest' = IF len > longest THEN len ELSE longest
  /\ UNCHANGED <<cap, tail, queue, pushes>>

\* skynet_mq_pop of an empty queue.
PopEmpty ==
  /\ head = tail
  /\ overload_threshold' = MQ_OVERLOAD
  /\ longest' = 0
  /\ UNCHANGED <<cap, head, tail, queue, overload, popped, pushes>>

\* skynet_mq_overload, which the worker calls after each pop.
Overload ==
  /\ overload # 0
  /\ overload' = 0
  /\ UNCHANGED <<cap, head, tail, queue, overload_threshold, popped, longest, pushes>>

Next == (\E m \in Payload : Push(m)) \/ Pop \/ PopEmpty \/ Overload

Spec == Init /\ [][Next]_ringVars
-----------------------------------------------------------------------------

\* The message in the i-th place, counted from the head.
Place(i) == IF head + i - 1 < cap THEN head + i - 1 ELSE head + i - 1 - cap

\* The messages in the ring, oldest first.
Contents == [i \in 1..Length |-> queue[Place(i)]]

Fifo == INSTANCE MQFifo WITH contents <- Contents

\* The ring is a first-in first-out queue: no message is lost, duplicated,
\* reordered or read from a slot that was never written, however often the
\* ends wrap around and the array grows (skynet_mq_push, skynet_mq_pop).
RingIsFifo == Fifo!FifoSpec

\* head = tail only when the ring is empty: a push that fills the array grows
\* it at once, so the test of skynet_mq_pop cannot take a full ring for an
\* empty one; pushed and popped messages account for its length.
NeverFull == Length < cap /\ pushes = Len(popped) + Length

\* The overload warning keeps pace with the queue: the threshold covers every
\* length a pop has seen since the queue was last empty, and is less than
\* twice the greatest of them unless nothing was reported.
ThresholdTracks ==
  /\ RingTypeOK
  /\ longest <= overload_threshold
  /\ overload_threshold = MQ_OVERLOAD \/ overload_threshold < 2 * longest
  /\ overload # 0 => overload > MQ_OVERLOAD
=============================================================================
