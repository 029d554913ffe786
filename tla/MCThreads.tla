------------------------------ MODULE MCThreads -----------------------------
(* Model of Threads for TLC: the main thread, two others and the idle thread. *)
EXTENDS Threads

CONSTANTS main, a, b, idle

MCThread == {main, a, b, idle}
MCInitPrio == [t \in MCThread |-> CASE t = b -> 0 [] t = idle -> 2 [] OTHER -> 1]
MCInitReady == [p \in 0 .. 2 |-> CASE p = 0 -> <<>> [] p = 1 -> <<main>> [] p = 2 -> <<idle>>]
MCFlag == [q \in {} |-> "FIFO"]
=============================================================================
