------------------------------ MODULE Drivers -------------------------------
(***************************************************************************)
(* The services that threads and drivers share, over the same waiting      *)
(* threads.  They have no state in common, so a behaviour uses one of them.*)
(***************************************************************************)
EXTENDS MemPool, Completion, DataQueue, WorkQueue, Pipe

CONSTANTS Services

VARIABLE service

others == <<poolVars, completed, queueVars, workVars, pipeVars>>
vars == <<waitVars, others, service>>

Init ==
    /\ WaitingInit /\ PoolInit /\ CompletionInit /\ QueueInit /\ WorkInit /\ PipeInit
    /\ service \in Services /\ (urgent => service = "workqueue")

Next ==
    /\ \/ /\ service = "pool" /\ PoolSystem
          /\ UNCHANGED <<completed, queueVars, workVars, pipeVars>>
       \/ /\ service = "completion" /\ CompletionSystem
          /\ UNCHANGED <<poolVars, queueVars, workVars, pipeVars>>
       \/ /\ service = "dataqueue" /\ QueueSystem
          /\ UNCHANGED <<poolVars, completed, workVars, pipeVars>>
       \/ /\ service = "workqueue" /\ WorkNext
          /\ UNCHANGED <<poolVars, completed, queueVars, pipeVars>>
       \/ /\ service = "pipe" /\ PipeNext
          /\ UNCHANGED <<poolVars, completed, queueVars, workVars>>
    /\ UNCHANGED service

Spec == Init /\ [][Next]_vars
=============================================================================
