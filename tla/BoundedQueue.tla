---------------------------- MODULE BoundedQueue ----------------------------
(***************************************************************************)
(* What a mailbox and a message queue promise about the messages in them:  *)
(* a queue of bounded length, first in, first out, to which an urgent      *)
(* message may be added at the head, and which a reset empties.            *)
(***************************************************************************)
EXTENDS Integers, Sequences

CONSTANTS Message, Bound
VARIABLE queue

Init == queue = <<>>

Put == Len(queue) < Bound /\ \E m \in Message : queue' = Append(queue, m)
PutUrgent == Len(queue) < Bound /\ \E m \in Message : queue' = <<m>> \o queue
Get == queue # <<>> /\ queue' = Tail(queue)
Clear == queue' = <<>>

FifoSpec == Init /\ [][Put \/ Get \/ Clear]_queue
UrgentSpec == Init /\ [][Put \/ PutUrgent \/ Get \/ Clear]_queue
=============================================================================
