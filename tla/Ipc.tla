--------------------------------- MODULE Ipc --------------------------------
(***************************************************************************)
(* The steps the IPC objects share (src/src/ipc.c:73-197): to wait in a    *)
(* list with an optional timeout, to wake the first waiter, and to wake    *)
(* all of them with an error in a masked section.  Events, mailboxes and   *)
(* message queues EXTEND this module.                                      *)
(***************************************************************************)
EXTENDS Kernel

Forever == Off        \* RT_WAITING_FOREVER: no timer is started

VARIABLE pc           \* the IPC call each thread is in, a record

App == [op |-> "app"]

At(t, op) == Runs(t) /\ pc[t].op = op
Masked(t, op) == current = t /\ irq = "masked" /\ pc[t].op = op
Goto(t, c) == pc' = [pc EXCEPT ![t] = c]

\* The end of the masked section of a call that cannot proceed: t suspends in
\* q, with a timer unless it waits forever, and calls rt_schedule.
Wait(t, q, time, call) ==
    /\ lock_nest = 0
    /\ error' = [error EXCEPT ![t] = "EOK"]
    /\ SuspendOn(t, q)
    /\ delay' = [delay EXCEPT ![t] = time]
    /\ resched' = resched \cup {t}
    /\ Goto(t, call)
    /\ UNCHANGED <<current_priority, current, lock_nest, remaining_tick, irq>>

\* rt_ipc_list_resume, if anybody waits in q.
WakeFirst(q) ==
    IF list[q] # <<>>
    THEN /\ ResumeThread(Head(list[q]))
         /\ delay' = [delay EXCEPT ![Head(list[q])] = Off]
    ELSE UNCHANGED <<stat, list, group, delay>>

\* ... and the rt_schedule that follows: by the calling thread, after it has
\* unmasked interrupts, or in an interrupt handler.
ThreadWakes(t, q) ==
    /\ WakeFirst(q)
    /\ resched' = IF list[q] # <<>> THEN resched \cup {t} ELSE resched
    /\ UNCHANGED <<current_priority, current, lock_nest, error, remaining_tick, irq>>

HandlerWakes(q) ==
    /\ WakeFirst(q)
    /\ IF list[q] # <<>> THEN RtSchedule ELSE UNCHANGED current
    /\ UNCHANGED <<current_priority, lock_nest, error, remaining_tick, irq, resched>>

\* RT_IPC_CMD_RESET: interrupts are masked,
ResetBegin(t) ==
    /\ At(t, "app")
    /\ irq' = "masked"
    /\ Goto(t, [op |-> "reset"])
    /\ UNCHANGED <<stat, current_priority, list, group, current, lock_nest,
                   delay, error, remaining_tick, resched>>

\* ... rt_ipc_list_resume_all wakes the waiters one by one,
ResetResume(t, q) ==
    LET w == Head(list[q])
    IN  /\ Masked(t, "reset") /\ list[q] # <<>>
        /\ error' = [error EXCEPT ![w] = "ERROR"]
        /\ ResumeThread(w)
        /\ delay' = [delay EXCEPT ![w] = Off]
        /\ UNCHANGED <<current_priority, current, lock_nest, remaining_tick,
                       irq, resched, pc>>

\* ... and when the object is as new (what the caller of this operator adds)
\* interrupts are unmasked and rt_schedule is called.
ResetEnd(t) ==
    /\ Masked(t, "reset")
    /\ irq' = "on"
    /\ Goto(t, App)
    /\ resched' = resched \cup {t}
    /\ UNCHANGED <<stat, current_priority, list, group, current, lock_nest,
                   delay, error, remaining_tick>>

\* The threads that were woken to go on with the call op and have not done so.
Retrying(op) == {t \in Thread : pc[t].op = op /\ stat[t] = "READY" /\ error[t] = "EOK"}
=============================================================================
