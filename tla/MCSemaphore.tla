----------------------------- MODULE MCSemaphore ----------------------------
(* Model of Semaphore for TLC: three threads and one semaphore.             *)
EXTENDS Semaphore

CONSTANTS hi, mid, lo, idle, sem

MCThread == {hi, mid, lo, idle}
MCInitPrio == [t \in MCThread |-> CASE t = hi -> 0 [] t = idle -> 2 [] OTHER -> 1]
MCInitReady == [p \in 0 .. 2 |-> CASE p = 0 -> <<hi>> [] p = 1 -> <<mid, lo>> [] p = 2 -> <<idle>>]
PrioFlag == [q \in {sem} |-> "PRIO"]
=============================================================================
