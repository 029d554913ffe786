-------------------------- MODULE CountingSemaphore -------------------------
(***************************************************************************)
(* What a semaphore promises: a count of units that are granted one by one *)
(* to the threads that ask, never more than were put in.  How the threads  *)
(* wait, and who is granted a unit first, is not said here.                *)
(***************************************************************************)
EXTENDS Integers, FiniteSets

CONSTANTS Thread, Sem, InitCount, ResetValue

VARIABLES count,     \* count[s]: units put in and not yet taken out
          asking,    \* asking[t]: the semaphore t is in rt_sem_take of, or {}
          resetting  \* resetting[s]: the values s is being reset to

vars == <<count, asking, resetting>>

Init ==
    /\ count = [s \in Sem |-> InitCount]
    /\ asking = [t \in Thread |-> {}]
    /\ resetting = [s \in Sem |-> {}]

\* A release; a reset is atomic for it.
Put(s) ==
    /\ resetting[s] = {}
    /\ count' = [count EXCEPT ![s] = @ + 1]
    /\ UNCHANGED <<asking, resetting>>

\* A take that finds a unit, or that returns with one after having waited.
Grant(t, s) ==
    /\ count[s] > 0
    /\ asking[t] \in {{}, {s}}
    /\ count' = [count EXCEPT ![s] = @ - 1]
    /\ asking' = [asking EXCEPT ![t] = {}]
    /\ UNCHANGED resetting

Ask(t, s) ==
    /\ asking[t] = {}
    /\ asking' = [asking EXCEPT ![t] = {s}]
    /\ UNCHANGED <<count, resetting>>

\* A take that gives up takes nothing.
GiveUp(t) ==
    /\ asking[t] # {}
    /\ asking' = [asking EXCEPT ![t] = {}]
    /\ UNCHANGED <<count, resetting>>

\* RT_IPC_CMD_RESET to n: n units are left, and those promised before to
\* threads that are still asking.
ResetBegin(s, n) ==
    /\ resetting' = [resetting EXCEPT ![s] = {n}]
    /\ UNCHANGED <<count, asking>>

ResetEnd(s) ==
    /\ \E n \in resetting[s], promised \in 0 .. count[s] :
          /\ promised <= Cardinality({t \in Thread : s \in asking[t]})
          /\ count' = [count EXCEPT ![s] = n + promised]
    /\ resetting' = [resetting EXCEPT ![s] = {}]
    /\ UNCHANGED asking

Next ==
    \/ \E s \in Sem : Put(s) \/ ResetEnd(s) \/ \E n \in ResetValue : ResetBegin(s, n)
    \/ \E t \in Thread, s \in Sem : Grant(t, s) \/ Ask(t, s)
    \/ \E t \in Thread : GiveUp(t)

Spec == Init /\ [][Next]_vars
=============================================================================
