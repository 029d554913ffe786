------------------------------- MODULE MCMutex ------------------------------
(* Model of Mutex for TLC: three threads of different priorities.          *)
EXTENDS Mutex

CONSTANTS hi, mid, lo, idle, m1, m2

MCThread == {hi, mid, lo, idle}
MCInitPrio == [t \in MCThread |-> CASE t = hi -> 0 [] t = mid -> 1 [] t = lo -> 2 [] t = idle -> 3]
MCInitReady == [p \in 0 .. 3 |-> CASE p = 0 -> <<hi>> [] p = 1 -> <<mid>> [] p = 2 -> <<lo>> [] p = 3 -> <<idle>>]
PrioFlag == [q \in WaitList |-> "PRIO"]
=============================================================================
