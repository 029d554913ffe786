----------------------------- MODULE Completion -----------------------------
(* Completions: src/components/drivers/src/completion.c.                   *)
EXTENDS Waiting

VARIABLES completed    \* completion->flag = RT_COMPLETED

CompletionInit == completed = FALSE

\* rt_completion_wait of a completion that is done,
WaitDone(t) ==
    /\ call[t] = Idle /\ completed
    /\ completed' = FALSE
    /\ UNCHANGED waitVars

\* Mutant of WaitSuspend: the flag is not looked at.
WaitSuspendBlind(t, time) ==
    /\ call[t] = Idle /\ time # "no"
    /\ suspended["completion"] = <<>>
    /\ SuspendOn(t, "completion", <<t>>, time)
    /\ Enter(t, [op |-> "wait"])
    /\ UNCHANGED completed

\* ... of one that is not (and that no other thread waits for: RT_ASSERT);
\* with timeout 0 it returns -RT_ETIMEOUT and changes nothing.
WaitSuspend(t, time) ==
    /\ call[t] = Idle /\ ~completed /\ time # "no"
    /\ suspended["completion"] = <<>>
    /\ SuspendOn(t, "completion", <<t>>, time)
    /\ Enter(t, [op |-> "wait"])
    /\ UNCHANGED completed

\* It clears the flag when it wakes up, also after a time-out.
WaitReturn(t) ==
    /\ At(t, "wait")
    /\ completed' = FALSE
    /\ Finish(t)
    /\ UNCHANGED <<suspended, timer, error>>

\* rt_completion_done: the test with interrupts enabled,
DoneTest(t) ==
    /\ call[t] = Idle /\ ~completed
    /\ Enter(t, [op |-> "done"])
    /\ UNCHANGED <<suspended, timer, error, completed>>

\* ... and the section.
DoneSection(t) ==
    /\ At(t, "done")
    /\ completed' = TRUE
    /\ IF suspended["completion"] # <<>> THEN ResumeFirst("completion")
       ELSE UNCHANGED <<suspended, timer>>
    /\ Finish(t)
    /\ UNCHANGED error

CompletionNext ==
    \E t \in Thread :
        \/ WaitDone(t) \/ (\E time \in Time : WaitSuspend(t, time)) \/ WaitReturn(t)
        \/ DoneTest(t) \/ DoneSection(t)

\* A completion and the threads that use it.
CompletionSystem == CompletionNext \/ \E t \in Thread : Timeout(t) /\ UNCHANGED completed

CompletionSpec == WaitingInit /\ CompletionInit /\ [][CompletionSystem]_<<waitVars, completed>>

-----------------------------------------------------------------------------
\* No thread sleeps on a completion that is done, although the first test of
\* rt_completion_done is made with interrupts enabled.
NoWaiterWhileDone == completed => suspended["completion"] = <<>>
=============================================================================
