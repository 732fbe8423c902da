---------------------------- MODULE BoundedChannel ----------------------------
(***************************************************************************)
(* What the threads of Galapix rely on when they talk through a            *)
(* ThreadMessageQueue2: an atomic FIFO channel.  Messages are numbered in  *)
(* the order in which they enter the channel.  There are no locks, no      *)
(* condition variables and no waiting here; ThreadMessageQueue2 is shown   *)
(* to implement this module.                                               *)
(***************************************************************************)
EXTENDS Integers, Sequences

CONSTANT MaxSize    \* capacity; -1 (never equal to a length) is "unbounded"

VARIABLES
  queue,            \* messages in the channel, oldest first
  delivered         \* messages taken out, in the order they were taken

vars == <<queue, delivered>>

(* The number of messages that have ever entered the channel. *)
Sent == Len(delivered) + Len(queue)

Init ==
  /\ queue = <<>>
  /\ delivered = <<>>

Send ==
  /\ Len(queue) # MaxSize
  /\ queue' = Append(queue, Sent + 1)
  /\ UNCHANGED delivered

Receive ==
  /\ queue # <<>>
  /\ delivered' = Append(delivered, Head(queue))
  /\ queue' = Tail(queue)

Next == Send \/ Receive

Spec == Init /\ [][Next]_vars

(* The channel as its users want it: what has been sent is received. *)
LiveSpec == Spec /\ WF_vars(Receive)
===============================================================================
