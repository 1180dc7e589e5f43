------------------------------- MODULE MQFifo -------------------------------
(***************************************************************************)
(* What a private message queue promises the kernel: messages come out in  *)
(* the order they went in, each one once.  This is the queue that module   *)
(* SkynetMQ works with.                                                    *)
(***************************************************************************)
EXTENDS Sequences

CONSTANT Payload     \* the messages

VARIABLES
  contents,    \* the messages in the queue, oldest first
  popped       \* the messages taken out, oldest first

fifoVars == <<contents, popped>>

FifoInit == contents = <<>> /\ popped = <<>>

FifoPush(m) == contents' = Append(contents, m) /\ popped' = popped

FifoPop ==
  /\ contents # <<>>
  /\ contents' = Tail(contents)
  /\ popped' = Append(popped, Head(contents))

FifoNext == (\E m \in Payload : FifoPush(m)) \/ FifoPop

FifoSpec == FifoInit /\ [][FifoNext]_fifoVars
=============================================================================
