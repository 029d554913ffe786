-------------------------- MODULE CountdownTimers ---------------------------
(***************************************************************************)
(* What the timers promise: a running timer counts the ticks down and      *)
(* fires at the tick at which nothing remains, and no tick passes over a   *)
(* timer that is due.  Kernel.tla uses timers of this kind.                *)
(***************************************************************************)
EXTENDS Integers

CONSTANTS Timer, MaxInit
VARIABLE remaining    \* the ticks until each timer fires, or Off

Off == -1

Init == remaining = [t \in Timer |-> Off]

Start(t) == \E n \in 0 .. MaxInit : remaining' = [remaining EXCEPT ![t] = n]
Stop(t) == remaining' = [remaining EXCEPT ![t] = Off]
Fire(t) == remaining[t] = 0 /\ Stop(t)

Tick ==
    /\ \A t \in Timer : remaining[t] # 0
    /\ remaining' = [t \in Timer |-> IF remaining[t] = Off THEN Off ELSE remaining[t] - 1]

Next == Tick \/ \E t \in Timer : Start(t) \/ Stop(t) \/ Fire(t)

Spec == Init /\ [][Next]_remaining
=============================================================================
