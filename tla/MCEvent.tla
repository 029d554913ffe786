------------------------------- MODULE MCEvent ------------------------------
(* Model of Event for TLC: two threads, an interrupt handler and three     *)
(* event bits.                                                             *)
EXTENDS Event, TLC

CONSTANTS hi, lo, idle

MCThread == {hi, lo, idle}
MCInitPrio == [t \in MCThread |-> CASE t = hi -> 0 [] t = idle -> 2 [] OTHER -> 1]
MCInitReady == [p \in 0 .. 2 |-> CASE p = 0 -> <<hi>> [] p = 1 -> <<lo>> [] p = 2 -> <<idle>>]
MCFlag == [q \in WaitList |-> "PRIO"]
\* No bit is special.
BitSymmetry == Permutations(Bits)
MCTimeout == {MaxDelay, Forever}
=============================================================================
