----------------------------- MODULE WorkQueue ------------------------------
(* Work queues: src/components/drivers/src/workqueue.c.                    *)
EXTENDS Waiting

CONSTANTS Work

VARIABLES work_list, work_current,
          worker,            \* where the work thread is
          urgent,            \* it has a higher priority than the threads that submit
          wq_stray           \* the head of the empty list was taken for a work

workVars == <<work_list, work_current, worker, urgent, wq_stray>>

NoWork == "none"

ASSUME WorkAssumption == NoWork \notin Work

WorkInit ==
    /\ work_list = <<>> /\ work_current = NoWork
    /\ worker = "test" /\ urgent \in BOOLEAN
    /\ wq_stray = FALSE

\* _workqueue_thread_entry: the list is tested with interrupts enabled,
WorkerTest ==
    /\ worker = "test"
    /\ worker' = IF work_list = <<>> THEN "suspend" ELSE "take"
    /\ UNCHANGED <<waitVars, work_list, work_current, urgent, wq_stray>>

\* ... rt_thread_suspend(rt_thread_self()) and rt_schedule,
WorkerSuspend ==
    /\ worker = "suspend"
    /\ worker' = "asleep"
    /\ UNCHANGED <<waitVars, work_list, work_current, urgent, wq_stray>>

\* ... and the first work is taken, whether there is one or not,
WorkerTake ==
    /\ worker = "take"
    /\ \/ /\ work_list # <<>>
          /\ work_current' = Head(work_list) /\ work_list' = Tail(work_list)
          /\ worker' = "run"
          /\ UNCHANGED wq_stray
       \/ /\ work_list = <<>>
          /\ wq_stray' = TRUE
          /\ UNCHANGED <<work_list, work_current, worker>>
    /\ UNCHANGED <<waitVars, urgent>>

\* ... executed, and no longer current.
WorkerRun ==
    /\ worker = "run"
    /\ work_current' = NoWork
    /\ worker' = "ack"
    /\ UNCHANGED <<waitVars, work_list, urgent, wq_stray>>

\* Mutant of WorkerAck: only one of the waiting threads is resumed.
WorkerAckOne ==
    /\ worker = "ack"
    /\ suspended' = [suspended EXCEPT !["cancel"] = IF @ = <<>> THEN @ ELSE Tail(@)]
    /\ worker' = "test"
    /\ UNCHANGED <<timer, error, call, work_list, work_current, urgent, wq_stray>>

\* _workqueue_work_completion: release the semaphore until it can be taken,
\* which resumes all threads that wait for it and leaves its value 0.
WorkerAck ==
    /\ worker = "ack"
    /\ suspended' = [suspended EXCEPT !["cancel"] = <<>>]
    /\ worker' = "test"
    /\ UNCHANGED <<timer, error, call, work_list, work_current, urgent, wq_stray>>

Worker == WorkerTest \/ WorkerSuspend \/ WorkerTake \/ WorkerRun \/ WorkerAck

\* Threads of lower priority run while an urgent work thread sleeps, or waits
\* for something in a work function.
MayRun == urgent => worker \in {"asleep", "run"}

Unlinked(w) == NodeRemove(work_list, w)

\* rt_workqueue_dowork, rt_workqueue_critical_work (the same code); a work
\* that is current is refused with -RT_EBUSY.
DoWork(t, w) ==
    /\ MayRun /\ call[t] = Idle /\ work_current # w
    /\ work_list' = Append(Unlinked(w), w)
    /\ IF work_current = NoWork THEN Enter(t, [op |-> "resume"]) ELSE UNCHANGED call
    /\ UNCHANGED <<suspended, timer, error, work_current, worker, urgent, wq_stray>>

\* ... and rt_thread_resume, with interrupts enabled again, of a work thread
\* that may not be suspended.
DoWorkResume(t) ==
    /\ MayRun /\ At(t, "resume")
    /\ worker' = IF worker = "asleep" THEN "take" ELSE worker
    /\ Finish(t)
    /\ UNCHANGED <<suspended, timer, error, work_list, work_current, urgent, wq_stray>>

\* rt_workqueue_cancel_work, rt_workqueue_cancel_work_sync of a work that is
\* not current.
Cancel(t, w) ==
    /\ MayRun /\ call[t] = Idle /\ work_current # w
    /\ work_list' = Unlinked(w)
    /\ UNCHANGED <<waitVars, work_current, worker, urgent, wq_stray>>

\* rt_workqueue_cancel_work_sync of the current work waits for it,
CancelSync(t, w) ==
    /\ MayRun /\ call[t] = Idle /\ work_current = w
    /\ SuspendOn(t, "cancel", Append(suspended["cancel"], t), "forever")
    /\ Enter(t, [op |-> "cancel", work |-> w])
    /\ UNCHANGED workVars

CancelReturn(t) ==
    /\ MayRun /\ At(t, "cancel")
    /\ Finish(t)
    /\ UNCHANGED <<suspended, timer, error, workVars>>

\* rt_workqueue_cancel_all_work.
CancelAll(t) ==
    /\ MayRun /\ call[t] = Idle
    /\ work_list' = <<>>
    /\ UNCHANGED <<waitVars, work_current, worker, urgent, wq_stray>>

WorkNext ==
    /\ ~wq_stray
    /\ \/ Worker
       \/ \E t \in Thread :
            \/ \E w \in Work : DoWork(t, w) \/ Cancel(t, w) \/ CancelSync(t, w)
            \/ DoWorkResume(t) \/ CancelReturn(t) \/ CancelAll(t)

\* A work queue and the threads that use it.
WorkSpec == WaitingInit /\ WorkInit /\ [][WorkNext]_<<waitVars, workVars>>

-----------------------------------------------------------------------------
\* A work is in the list at most once, and not while it is executed: it can be
\* neither lost by a second submission nor executed twice at a time.
WorkOnce == IsInjective(work_list) /\ work_current \notin Range(work_list)

\* A thread waits in rt_workqueue_cancel_work_sync only while the work thread
\* executes a work or is about to acknowledge it.
NoCancelStranded == suspended["cancel"] # <<>> => worker \in {"run", "ack"}

\* An urgent work thread does not sleep while there is work, unless a thread is
\* about to resume it.
NoWorkStranded ==
    urgent /\ worker = "asleep" /\ work_list # <<>> => \E t \in Thread : At(t, "resume")

\* The three together: what submitters and cancellers may rely on.
WorkInv == WorkOnce /\ NoCancelStranded /\ NoWorkStranded
=============================================================================
