------------------------------ MODULE Threads -------------------------------
(***************************************************************************)
(* The thread API (src/src/thread.c), the scheduler lock                   *)
(* (scheduler.c:377-420) and the idle thread's clean-up (idle.c:134-234).  *)
(*                                                                         *)
(* rt_thread_resume, rt_thread_suspend, rt_thread_delete and               *)
(* rt_thread_detach read the thread's stat, or touch its lists and its     *)
(* timer, in several sections with interrupts enabled between them; each   *)
(* section is a step here, and `call' says where in it the caller is.     *)
(*                                                                         *)
(* The code relies on its callers for what those gaps leave open.          *)
(* ThreadNext has the callers that respect it (above ThreadCall).          *)
(***************************************************************************)
EXTENDS Kernel

CONSTANTS Static,    \* threads from rt_thread_init; the others are created
          MaxNest    \* bound: the nesting of rt_enter_critical

ASSUME StaticAssumption == Static \subseteq Thread /\ MaxNest \in Nat

VARIABLE call   \* call[t]: the call thread t is in, and the thread it is about

threadVars == <<kernelVars, call>>

Call == {"app", "sleep", "unlink", "insert", "suspend", "del_timer", "del_close"}

AtCall(t, op) == Runs(t) /\ call[t].op = op
GotoCall(t, op, u) == call' = [call EXCEPT ![t] = [op |-> op, arg |-> u]]
ThenSchedule(t) == resched' = resched \cup {t}

ThreadInit ==
    /\ KernelInit
    /\ call = [t \in Thread |-> [op |-> "app", arg |-> t]]

-----------------------------------------------------------------------------
\* rt_thread_create / rt_thread_init: a control block for u.
Create(t, u) ==
    /\ AtCall(t, "app") /\ stat[u] = "NONE"
    /\ stat' = [stat EXCEPT ![u] = "INIT"]
    /\ current_priority' = [current_priority EXCEPT ![u] = InitPrio[u]]
    /\ error' = [error EXCEPT ![u] = "EOK"]
    /\ remaining_tick' = [remaining_tick EXCEPT ![u] = Slice]
    /\ call' = [call EXCEPT ![u] = [op |-> "app", arg |-> u]]
    /\ resched' = resched \ {u}
    /\ UNCHANGED <<list, group, current, lock_nest, delay, irq>>

\* rt_thread_startup up to its call of rt_thread_resume, whose check passes.
Startup(t, u) ==
    /\ AtCall(t, "app") /\ stat[u] = "INIT"
    /\ current_priority' = [current_priority EXCEPT ![u] = InitPrio[u]]
    /\ stat' = [stat EXCEPT ![u] = "SUSPEND"]
    /\ GotoCall(t, "unlink", u)
    /\ UNCHANGED <<list, group, current, lock_nest, delay, error,
                   remaining_tick, irq, resched>>

\* rt_thread_resume: its stat check, made with interrupts enabled.
ResumeCheck(t, u) ==
    /\ AtCall(t, "app") /\ stat[u] = "SUSPEND"
    /\ GotoCall(t, "unlink", u)
    /\ UNCHANGED kernelVars

\* ... its masked section: the node leaves its list, the timer stops.
ResumeUnlink(t) ==
    LET u == call[t].arg
    IN  /\ AtCall(t, "unlink")
        /\ list' = ListRemove(list, u)
        /\ delay' = [delay EXCEPT ![u] = Off]
        /\ GotoCall(t, "insert", u)
        /\ UNCHANGED <<stat, current_priority, group, current, lock_nest,
                       error, remaining_tick, irq, resched>>

\* ... rt_schedule_insert_thread, after which the caller calls rt_schedule.
ResumeInsert(t) ==
    LET u == call[t].arg
    IN  /\ AtCall(t, "insert")
        /\ InsertThread(u)
        /\ GotoCall(t, "app", t)
        /\ ThenSchedule(t)
        /\ UNCHANGED <<current_priority, current, lock_nest, delay, error,
                       remaining_tick, irq>>

\* Mutant of Yield: the node is linked to the tail without being unlinked.
YieldLinked(t) ==
    /\ AtCall(t, "app") /\ stat[t] = "READY"
    /\ Len(list[current_priority[t]]) > 1
    /\ list' = ReadyInsert(list, t, current_priority[t])
    /\ ThenSchedule(t)
    /\ UNCHANGED <<stat, current_priority, group, current, lock_nest, delay,
                   error, remaining_tick, irq, call>>

\* rt_thread_yield.
Yield(t) ==
    /\ AtCall(t, "app") /\ stat[t] = "READY"
    /\ Len(list[current_priority[t]]) > 1
    /\ list' = ReadyInsert(ListRemove(list, t), t, current_priority[t])
    /\ ThenSchedule(t)
    /\ UNCHANGED <<stat, current_priority, group, current, lock_nest, delay,
                   error, remaining_tick, irq, call>>

\* rt_thread_sleep up to its call of rt_schedule, and after it.
Sleep(t, d) ==
    /\ AtCall(t, "app")
    /\ SleepThread(t, d)
    /\ GotoCall(t, "sleep", t)

SleepReturn(t) ==
    /\ AtCall(t, "sleep")
    /\ SleepDone(t)
    /\ GotoCall(t, "app", t)

\* rt_thread_suspend of the running thread, which then calls rt_schedule as
\* the note of that function demands.
SuspendSelf(t) ==
    /\ AtCall(t, "app") /\ lock_nest = 0
    /\ SuspendThread(t)
    /\ delay' = [delay EXCEPT ![t] = Off]
    /\ ThenSchedule(t)
    /\ UNCHANGED <<current_priority, current, lock_nest, error,
                   remaining_tick, irq, call>>

\* rt_thread_suspend of another thread: the stat check, made with interrupts
\* enabled, and the masked section.
SuspendCheck(t, u) ==
    /\ AtCall(t, "app") /\ u # t /\ stat[u] = "READY"
    /\ GotoCall(t, "suspend", u)
    /\ UNCHANGED kernelVars

SuspendOther(t) ==
    LET u == call[t].arg
    IN  /\ AtCall(t, "suspend")
        /\ SuspendThread(u)
        /\ delay' = [delay EXCEPT ![u] = Off]
        /\ GotoCall(t, "app", t)
        /\ UNCHANGED <<current_priority, current, lock_nest, error,
                       remaining_tick, irq, resched>>

\* rt_thread_control(CHANGE_PRIORITY); the caller then calls rt_schedule.
ChangePriority(t, u, p) ==
    /\ AtCall(t, "app") /\ stat[u] \in {"READY", "SUSPEND"}
    /\ SetPriority(u, p)
    /\ ThenSchedule(t)
    /\ UNCHANGED <<stat, current, lock_nest, delay, error, remaining_tick, irq, call>>

\* rt_enter_critical and rt_exit_critical, which also bears an unmatched call.
EnterCritical(t) ==
    /\ AtCall(t, "app") /\ lock_nest < MaxNest
    /\ lock_nest' = lock_nest + 1
    /\ UNCHANGED <<stat, current_priority, list, group, current, delay, error,
                   remaining_tick, irq, resched, call>>

\* Mutant of ExitCritical: the last unlock does not schedule.
ExitCriticalNoSchedule(t) ==
    /\ AtCall(t, "app")
    /\ lock_nest' = IF lock_nest - 1 <= 0 THEN 0 ELSE lock_nest - 1
    /\ UNCHANGED <<stat, current_priority, list, group, current, delay, error,
                   remaining_tick, irq, resched, call>>

ExitCritical(t) ==
    /\ AtCall(t, "app")
    /\ lock_nest' = IF lock_nest - 1 <= 0 THEN 0 ELSE lock_nest - 1
    /\ resched' = IF lock_nest - 1 <= 0 THEN resched \cup {t} ELSE resched
    /\ UNCHANGED <<stat, current_priority, list, group, current, delay, error,
                   remaining_tick, irq, call>>

-----------------------------------------------------------------------------
\* rt_thread_exit up to its call of rt_schedule: a static thread without
\* cleanup leaves no object, any other goes to the head of the defunct list.
Exit(t) ==
    /\ AtCall(t, "app") /\ lock_nest = 0 /\ t # Idle
    /\ stat' = [stat EXCEPT ![t] = IF t \in Static THEN "NONE" ELSE "CLOSE"]
    /\ LET removed == ListRemove(list, t)
       IN  /\ list' = IF t \in Static THEN removed
                      ELSE [removed EXCEPT ![Defunct] = <<t>> \o @]
           /\ group' = ClearBit(group, removed, current_priority[t])
    /\ delay' = [delay EXCEPT ![t] = Off]
    /\ ThenSchedule(t)
    /\ UNCHANGED <<current_priority, current, lock_nest, error,
                   remaining_tick, irq, call>>

\* rt_thread_delete and rt_thread_detach of another thread, in three steps:
\* out of the scheduler's lists (a thread that was never started has none);
DeleteRemove(t, u) ==
    /\ AtCall(t, "app") /\ u # t /\ stat[u] \in {"INIT", "READY", "SUSPEND"}
    /\ IF stat[u] = "INIT" THEN UNCHANGED <<list, group>> ELSE RemoveThread(u)
    /\ GotoCall(t, "del_timer", u)
    /\ UNCHANGED <<stat, current_priority, current, lock_nest, delay, error,
                   remaining_tick, irq, resched>>

\* ... the timer;
DeleteTimer(t) ==
    /\ AtCall(t, "del_timer")
    /\ delay' = [delay EXCEPT ![call[t].arg] = Off]
    /\ GotoCall(t, "del_close", call[t].arg)
    /\ UNCHANGED <<stat, current_priority, list, group, current, lock_nest,
                   error, remaining_tick, irq, resched>>

\* ... and CLOSE, with the link to the defunct list or the object's removal.
DeleteClose(t) ==
    LET u == call[t].arg
    IN  /\ AtCall(t, "del_close")
        /\ stat' = [stat EXCEPT ![u] = IF u \in Static THEN "NONE" ELSE "CLOSE"]
        /\ list' = IF u \in Static THEN list
                   ELSE [list EXCEPT ![Defunct] = <<u>> \o @]
        /\ GotoCall(t, "app", t)
        /\ UNCHANGED <<current_priority, group, current, lock_nest, delay,
                       error, remaining_tick, irq, resched>>

\* rt_thread_idle_excute: one round of the loop that frees defunct threads.
IdleExcute ==
    /\ AtCall(Idle, "app") /\ list[Defunct] # <<>>
    /\ list' = [list EXCEPT ![Defunct] = Tail(@)]
    /\ stat' = [stat EXCEPT ![Head(list[Defunct])] = "NONE"]
    /\ UNCHANGED <<current_priority, group, current, lock_nest, delay, error,
                   remaining_tick, irq, resched, call>>
-----------------------------------------------------------------------------
(* What the callers of ThreadNext respect, because the code does not       *)
(* protect it:                                                             *)
(*  - a thread is resumed by one caller at a time, and only a thread that  *)
(*    suspended itself, not one whose timer may also wake it;              *)
(*  - another thread is suspended or deleted with the scheduler locked,    *)
(*    and deleted only when its timer is not running;                      *)
(*  - the idle thread never blocks, is never suspended and keeps its       *)
(*    priority, and uses no other call of this module.                     *)

Busy(u) == \E t \in Thread \ {u} : call[t].op # "app" /\ call[t].arg = u

ThreadCall(t) ==
    \/ \E u \in Thread : Create(t, u)
    \/ \E u \in Thread : ~Busy(u) /\ Startup(t, u)
    \/ \E u \in Thread : delay[u] = Off /\ ~Busy(u) /\ ResumeCheck(t, u)
    \/ Yield(t)
    \/ \E d \in Delay : Sleep(t, d)
    \/ SuspendSelf(t)
    \/ \E u \in Thread \ {Idle} : lock_nest > 0 /\ ~Busy(u) /\ SuspendCheck(t, u)
    \/ \E u \in Thread \ {Idle}, p \in Prio : ChangePriority(t, u, p)
    \/ EnterCritical(t)
    \/ ExitCritical(t)
    \/ Exit(t)
    \/ \E u \in Thread \ {Idle} :
          lock_nest > 0 /\ delay[u] = Off /\ ~Busy(u) /\ DeleteRemove(t, u)

ThreadReturn(t) ==
    \/ ResumeUnlink(t)
    \/ ResumeInsert(t)
    \/ SleepReturn(t)
    \/ SuspendOther(t)
    \/ DeleteTimer(t)
    \/ DeleteClose(t)

ThreadNext ==
    \/ KernelStep /\ UNCHANGED call
    \/ \E t \in Thread \ {Idle} : ThreadCall(t) \/ ThreadReturn(t)
    \/ IdleExcute

ThreadSpec == ThreadInit /\ [][ThreadNext]_threadVars

-----------------------------------------------------------------------------
ThreadTypeOK ==
    /\ KernelTypeOK
    /\ call \in [Thread -> [op : Call, arg : Thread]]

\* A thread that is READY is in its ready queue, so that the scheduler can
\* find it, except while rt_thread_delete is taking it away.
ReadyIsQueued ==
    \A t \in Thread : stat[t] = "READY" =>
        \/ t \in Range(list[current_priority[t]])
        \/ \E u \in Thread : call[u].op \in {"del_timer", "del_close"} /\ call[u].arg = t

\* Threads that start, end, are deleted, sleep, suspend and resume one another
\* and change priorities keep every node in the one list that stat and
\* priority demand, the bitmap exact, the timers to suspended threads and every
\* ready thread in its queue, between any two sections of these operations.
Consistent == ThreadTypeOK /\ KernelInv /\ ReadyIsQueued

\* A time-out of another thread takes the CPU away from the running thread
\* only in favour of a strictly higher priority: a thread woken at the same
\* priority waits behind it until its slice is used up or it yields.
EqualPriorityNeverPreempts ==
    [][\A t \in Thread :
          TimerExpire(t) /\ current \notin resched /\ current' # current
            => current_priority[current'] < current_priority[current]]_threadVars
=============================================================================
