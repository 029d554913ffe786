--------------------------- MODULE MCMessageQueue ---------------------------
(* Model of MessageQueue for TLC: two threads and an interrupt handler on  *)
(* a queue of three slots.                                                 *)
EXTENDS MessageQueue, TLC

CONSTANTS hi, lo, idle, s1, s2, s3

MCThread == {hi, lo, idle}
MCInitPrio == [t \in MCThread |-> CASE t = hi -> 0 [] t = lo -> 1 [] t = idle -> 2]
MCInitReady == [p \in 0 .. 2 |-> CASE p = 0 -> <<hi>> [] p = 1 -> <<lo>> [] p = 2 -> <<idle>>]
MCFlag == [q \in WaitList |-> "FIFO"]
MCInitFree == <<s3, s2, s1>>
\* A message queue only copies messages.
MessageSymmetry == Permutations(Message)
MCTimeout == {MaxDelay, Forever}
=============================================================================
