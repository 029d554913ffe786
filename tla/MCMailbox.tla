------------------------------ MODULE MCMailbox -----------------------------
(* Model of Mailbox for TLC: three threads of different priorities and an *)
(* interrupt handler; every wait has a timeout.                            *)
EXTENDS Mailbox, TLC

CONSTANTS hi, mid, lo, idle

MCThread == {hi, mid, lo, idle}
MCInitPrio == [t \in MCThread |-> CASE t = hi -> 0 [] t = mid -> 1 [] t = lo -> 2 [] t = idle -> 3]
MCInitReady == [p \in 0 .. 3 |-> CASE p = 0 -> <<hi>> [] p = 1 -> <<mid>> [] p = 2 -> <<lo>> [] p = 3 -> <<idle>>]
MCFlag == [q \in WaitList |-> "FIFO"]
\* A mailbox only copies mails.
MailSymmetry == Permutations(Mail)
MCTimeout == {MaxDelay}
=============================================================================
