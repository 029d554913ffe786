------------------------------ MODULE Semaphore -----------------------------
(***************************************************************************)
(* Semaphores (src/src/ipc.c:211-526): rt_sem_take with and without a      *)
(* timeout, rt_sem_release from threads and from interrupt handlers, and   *)
(* rt_sem_control(RT_IPC_CMD_RESET).  A unit is handed to the first waiter *)
(* directly, without passing through `value'; between that moment and the  *)
(* return of its rt_sem_take, the waiter's timer, a reset and other        *)
(* releases may intervene.                                                 *)
(*                                                                         *)
(* The wait list of a semaphore stands for the semaphore.  rt_sem_trytake, *)
(* and a take with time 0, of a semaphore of value 0 changes nothing and   *)
(* has no action.                                                          *)
(***************************************************************************)
EXTENDS Kernel

CONSTANTS InitValue,  \* the value given to rt_sem_init
          MaxValue    \* bound: the largest value (65535 in the code)

ASSUME ValueAssumption == MaxValue \in Nat /\ InitValue \in 0 .. MaxValue

Sem == WaitList
Forever == Off        \* RT_WAITING_FOREVER: no timer is started

VARIABLES value,      \* sem->value
          pc          \* the call a thread is in, its semaphore and argument

semVars == <<value, pc>>
vars == <<kernelVars, value, pc>>

App == [op |-> "app"]
Calls == {App} \cup [op : {"take"}, sem : Sem]
               \cup [op : {"reset"}, sem : Sem, val : 0 .. MaxValue]

At(t, op) == current = t /\ t \notin resched /\ pc[t].op = op
Goto(t, c) == pc' = [pc EXCEPT ![t] = c]

Init ==
    /\ KernelInit
    /\ value = [s \in Sem |-> InitValue]
    /\ pc = [t \in Thread |-> App]

\* rt_sem_take of an available semaphore.
TakeAvailable(t, s) ==
    /\ At(t, "app") /\ irq = "on"
    /\ value[s] > 0
    /\ value' = [value EXCEPT ![s] = @ - 1]
    /\ UNCHANGED <<kernelVars, pc>>

\* rt_sem_take of an unavailable one, up to its call of rt_schedule.
TakeWait(t, s, time) ==
    /\ At(t, "app") /\ irq = "on" /\ lock_nest = 0
    /\ value[s] = 0
    /\ error' = [error EXCEPT ![t] = "EOK"]
    /\ SuspendOn(t, s)
    /\ delay' = [delay EXCEPT ![t] = time]
    /\ Goto(t, [op |-> "take", sem |-> s])
    /\ resched' = resched \cup {t}
    /\ UNCHANGED <<current_priority, current, lock_nest, remaining_tick, irq, value>>

\* ... and after it: it returns error[t], RT_EOK when a unit was handed over.
TakeReturn(t) ==
    /\ At(t, "take") /\ irq = "on"
    /\ Goto(t, App)
    /\ UNCHANGED <<kernelVars, value>>

\* Mutant of ReleaseSection: the value is increased even when a thread is woken.
ReleaseSectionTwice(s) ==
    /\ value[s] < MaxValue
    /\ value' = [value EXCEPT ![s] = @ + 1]
    /\ IF list[s] # <<>>
       THEN /\ ResumeThread(Head(list[s]))
            /\ delay' = [delay EXCEPT ![Head(list[s])] = Off]
       ELSE UNCHANGED <<stat, list, group, delay>>

\* The masked section of rt_sem_release.
ReleaseSection(s) ==
    IF list[s] # <<>>
    THEN /\ ResumeThread(Head(list[s]))
         /\ delay' = [delay EXCEPT ![Head(list[s])] = Off]
         /\ UNCHANGED value
    ELSE /\ value[s] < MaxValue
         /\ value' = [value EXCEPT ![s] = @ + 1]
         /\ UNCHANGED <<stat, list, group, delay>>

\* rt_sem_release by a thread, up to its call of rt_schedule.
Release(t, s) ==
    /\ At(t, "app") /\ irq = "on"
    /\ ReleaseSection(s)
    /\ resched' = IF list[s] # <<>> THEN resched \cup {t} ELSE resched
    /\ UNCHANGED <<current_priority, current, lock_nest, error,
                   remaining_tick, irq, pc>>

\* rt_sem_release by an interrupt handler, its rt_schedule included.
ReleaseFromISR(s) ==
    /\ irq = "on"
    /\ ReleaseSection(s)
    /\ IF list[s] # <<>> THEN RtSchedule ELSE UNCHANGED current
    /\ UNCHANGED <<current_priority, lock_nest, error, remaining_tick, irq,
                   resched, pc>>

\* rt_sem_control(RT_IPC_CMD_RESET): interrupts are masked,
ResetBegin(t, s, n) ==
    /\ At(t, "app") /\ irq = "on"
    /\ irq' = "masked"
    /\ Goto(t, [op |-> "reset", sem |-> s, val |-> n])
    /\ UNCHANGED <<stat, current_priority, list, group, current, lock_nest,
                   delay, error, remaining_tick, resched, value>>

\* Mutant of ResetResume: thread->error is not set.
ResetResumeNoError(t) ==
    LET w == Head(list[pc[t].sem])
    IN  /\ At(t, "reset") /\ irq = "masked"
        /\ list[pc[t].sem] # <<>>
        /\ ResumeThread(w)
        /\ delay' = [delay EXCEPT ![w] = Off]
        /\ UNCHANGED <<current_priority, current, lock_nest, error,
                       remaining_tick, irq, resched, value, pc>>

\* ... rt_ipc_list_resume_all wakes the waiters one by one with an error,
ResetResume(t) ==
    LET w == Head(list[pc[t].sem])
    IN  /\ At(t, "reset") /\ irq = "masked"
        /\ list[pc[t].sem] # <<>>
        /\ error' = [error EXCEPT ![w] = "ERROR"]
        /\ ResumeThread(w)
        /\ delay' = [delay EXCEPT ![w] = Off]
        /\ UNCHANGED <<current_priority, current, lock_nest, remaining_tick,
                       irq, resched, value, pc>>

\* ... the value is set, interrupts are unmasked, rt_schedule follows.
ResetEnd(t) ==
    /\ At(t, "reset") /\ irq = "masked"
    /\ list[pc[t].sem] = <<>>
    /\ value' = [value EXCEPT ![pc[t].sem] = pc[t].val]
    /\ irq' = "on"
    /\ Goto(t, App)
    /\ resched' = resched \cup {t}
    /\ UNCHANGED <<stat, current_priority, list, group, current, lock_nest,
                   delay, error, remaining_tick>>

SemCall(t) ==
    \/ \E s \in Sem : TakeAvailable(t, s)
    \/ \E s \in Sem, time \in Delay \cup {Forever} : TakeWait(t, s, time)
    \/ TakeReturn(t)
    \/ \E s \in Sem : Release(t, s)
    \/ \E s \in Sem, n \in 0 .. MaxValue : ResetBegin(t, s, n)
    \/ ResetResume(t)
    \/ ResetEnd(t)

Next ==
    \/ KernelStep /\ UNCHANGED semVars
    \/ \E t \in Thread \ {Idle} : SemCall(t)
    \/ \E s \in Sem : ReleaseFromISR(s)

Spec == Init /\ [][Next]_vars

\* The tick interrupt keeps coming: one that is masked stays pending and is
\* taken when interrupts are unmasked, hence strong fairness.  Its handler runs
\* to the end, and so does a masked section.  A thread that has yet to call
\* rt_schedule does so between two ticks, whose handler disables its step.
FairSpec ==
    /\ Spec
    /\ SF_vars(Tick /\ UNCHANGED semVars)
    /\ WF_vars(TimerCheckDone /\ UNCHANGED semVars)
    /\ \A t \in Thread :
          /\ WF_vars(TimerExpire(t) /\ UNCHANGED semVars)
          /\ SF_vars(Schedule(t) /\ UNCHANGED semVars)
          /\ WF_vars(ResetResume(t) \/ ResetEnd(t))

-----------------------------------------------------------------------------
TypeOK ==
    /\ KernelTypeOK
    /\ value \in [Sem -> 0 .. MaxValue]
    /\ pc \in [Thread -> Calls]

\* Units are never left in the semaphore while a thread waits for one:
\* neither a release that races a take, nor a reset, nor a time-out does that.
NoUnitWhileWaiting == \A s \in Sem : value[s] > 0 => list[s] = <<>>

\* A thread in rt_sem_take whose unit has been handed over, and that has not
\* returned yet.
Granted(s) ==
    {t \in Thread : pc[t].op = "take" /\ pc[t].sem = s /\ error[t] = "EOK"
                    /\ stat[t] = "READY"}

\* Only a thread inside rt_sem_take of s is linked to s, with its error still
\* RT_EOK; one that is suspended inside rt_sem_take is linked.  So a waiter
\* is reached by exactly one of release, reset and time-out.
WaitersAreTaking ==
    \A t \in Thread, s \in Sem :
        t \in Range(list[s]) <=> /\ pc[t].op = "take" /\ pc[t].sem = s
                                 /\ stat[t] = "SUSPEND"

\* A waiter's error is RT_EOK until a reset or its timer sets it, so that a
\* thread that is handed a unit does not report an error of an earlier call.
WaiterErrorClear == \A t \in Thread, s \in Sem : t \in Range(list[s]) => error[t] = "EOK"

\* The semaphore implements a counting semaphore: no unit is lost or granted
\* twice when a release, a reset and a time-out meet.
Counting ==
    INSTANCE CountingSemaphore
        WITH InitCount <- InitValue,
             ResetValue <- 0 .. MaxValue,
             count <- [s \in Sem |-> value[s] + Cardinality(Granted(s))],
             asking <- [t \in Thread |-> IF pc[t].op = "take" THEN {pc[t].sem} ELSE {}],
             resetting <- [s \in Sem |->
                             {c.val : c \in {d \in Range(pc) : d.op = "reset" /\ d.sem = s}}]

ImplementsCounting == Counting!Spec

\* A take with a timeout comes back, whatever releases, resets and other takes
\* go on: the thread is ready again.
TimedTakeEnds ==
    \A t \in Thread : delay[t] # Off ~> stat[t] = "READY"
=============================================================================
