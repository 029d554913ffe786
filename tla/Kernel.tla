------------------------------- MODULE Kernel -------------------------------
(***************************************************************************)
(* The state the RT-Thread kernel shares between all its services, and the *)
(* primitives those services are built from: the ready queues and their    *)
(* bitmap, the wait lists, the per-thread timers, the scheduler and the    *)
(* tick interrupt (src/src/scheduler.c, thread.c, ipc.c:73-197, clock.c).  *)
(*                                                                         *)
(* The kernel runs on one CPU.  A section between                          *)
(* rt_hw_interrupt_disable and rt_hw_interrupt_enable is one step, only    *)
(* `current' executes thread code, and an interrupt may come between any   *)
(* two steps.  Most services change the lists with interrupts masked,      *)
(* unmask, and only then call rt_schedule: `resched' holds the threads     *)
(* that are between the two, the window in which the tick interrupt finds  *)
(* a running thread that is already suspended.                             *)
(*                                                                         *)
(* The services (Threads, Semaphore, Mutex, Ipc) EXTEND this module and    *)
(* build their actions from its primitives.                                *)
(***************************************************************************)
EXTENDS Integers, FiniteSets, Sequences, NodeList

CONSTANTS Thread,      \* the thread control blocks
          Idle,        \* the idle thread
          MaxPrio,     \* RT_THREAD_PRIORITY_MAX - 1, the lowest priority
          InitPrio,    \* init_priority of every thread
          WaitList,    \* the heads of the wait lists of the IPC objects
          Flag,        \* the order in which a wait list is kept
          Defunct,     \* the head of rt_thread_defunct
          InitReady,   \* the ready queues when the model starts
          MaxDelay,    \* bound: the longest timeout, in ticks
          Slice        \* init_tick of every thread

Prio == 0 .. MaxPrio
ListHead == Prio \cup WaitList \cup {Defunct}
Delay == 1 .. MaxDelay
Off == -1              \* a thread timer that is not running
Stat == {"NONE", "INIT", "READY", "SUSPEND", "CLOSE"}
Error == {"EOK", "ETIMEOUT", "ERROR"}

ASSUME PrioAssumption ==
    /\ MaxPrio \in Nat
    /\ InitPrio \in [Thread -> Prio]
    /\ Idle \in Thread
    /\ InitPrio[Idle] = MaxPrio

ASSUME ThreadAssumption == IsFiniteSet(Thread)

ASSUME HeadAssumption ==
    /\ Prio \cap WaitList = {}
    /\ Defunct \notin Prio \cup WaitList
    /\ Flag \in [WaitList -> {"FIFO", "PRIO", "LIFO"}]

ASSUME ReadyAssumption ==
    /\ InitReady \in [Prio -> Seq(Thread)]
    /\ \A p \in Prio : /\ IsInjective(InitReady[p])
                       /\ \A t \in Range(InitReady[p]) : InitPrio[t] = p
    /\ Idle \in Range(InitReady[MaxPrio])

ASSUME TimeAssumption == MaxDelay \in Nat /\ Slice \in Nat \ {0}

VARIABLES stat,              \* thread->stat; "NONE": no such object
          current_priority,  \* thread->current_priority
          list,              \* the threads linked to each list head by tlist
          group,             \* rt_thread_ready_priority_group, as a set
          current,           \* rt_current_thread
          lock_nest,         \* rt_scheduler_lock_nest
          delay,             \* ticks until the thread timer fires, or Off
          error,             \* thread->error
          remaining_tick,    \* thread->remaining_tick
          irq,               \* "on"; "timer": in rt_timer_check; "masked"
          resched            \* threads that have yet to call rt_schedule

kernelVars == <<stat, current_priority, list, group, current, lock_nest,
                delay, error, remaining_tick, irq, resched>>

-----------------------------------------------------------------------------
(* Lists.                                                                  *)

\* rt_list_remove(&thread->tlist): out of whatever list the node is in.
ListRemove(L, t) == [h \in ListHead |-> NodeRemove(L[h], t)]

\* The bitmap after rt_schedule_remove_thread: the bit of the thread's own
\* priority is cleared when that queue is empty.
ClearBit(g, L, p) == IF L[p] = <<>> THEN g \ {p} ELSE g

\* Mutant of ReadyInsert: rt_list_insert_after, at the head.
ReadyInsertHead(L, t, p) == [L EXCEPT ![p] = <<t>> \o @]

\* rt_list_insert_before(&rt_thread_priority_table[p], ...): at the tail.
ReadyInsert(L, t, p) == [L EXCEPT ![p] = Append(@, t)]

\* Where rt_ipc_list_suspend links t: at the tail, or before the first waiter
\* of strictly lower priority; the memory pool links at the head.
WaitPos(s, t, flag) ==
    CASE flag = "FIFO" -> Len(s) + 1
      [] flag = "LIFO" -> 1
      [] flag = "PRIO" ->
            Min({i \in DOMAIN s : current_priority[t] < current_priority[s[i]]}
                  \cup {Len(s) + 1})

WaitInsert(L, t, q) == [L EXCEPT ![q] = NodeInsert(@, WaitPos(@, t, Flag[q]), t)]

-----------------------------------------------------------------------------
(* The scheduler.                                                          *)

\* The head of the highest-priority queue the bitmap shows.
Highest(L, g) == Head(L[Min(g)])

\* The body of rt_schedule, at the end of a step that has changed the lists.
RtSchedule ==
    current' = IF lock_nest = 0 THEN Highest(list', group') ELSE current

\* t may execute its own code.
Runs(t) == current = t /\ irq = "on" /\ t \notin resched

\* A thread that has unmasked interrupts calls rt_schedule.
Schedule(t) ==
    /\ current = t /\ irq = "on" /\ t \in resched
    /\ resched' = resched \ {t}
    /\ current' = IF lock_nest = 0 THEN Highest(list, group) ELSE current
    /\ UNCHANGED <<stat, current_priority, list, group, lock_nest,
                   delay, error, remaining_tick, irq>>

-----------------------------------------------------------------------------
(* Primitives on the ready queues: each gives stat, list and group their   *)
(* next values.                                                            *)

\* rt_schedule_remove_thread.
RemoveThread(t) ==
    /\ list' = ListRemove(list, t)
    /\ group' = ClearBit(group, list', current_priority[t])

\* rt_thread_suspend with interrupts masked.
SuspendThread(t) ==
    /\ stat' = [stat EXCEPT ![t] = "SUSPEND"]
    /\ RemoveThread(t)

\* Mutant of SuspendOn: t is not linked to the wait list.
SuspendOnUnlinked(t, q) == SuspendThread(t)

\* rt_ipc_list_suspend: suspend t and link it to the wait list q.
SuspendOn(t, q) ==
    /\ stat' = [stat EXCEPT ![t] = "SUSPEND"]
    /\ list' = WaitInsert(ListRemove(list, t), t, q)
    /\ group' = ClearBit(group, list', current_priority[t])

\* rt_schedule_insert_thread.
InsertThread(t) ==
    /\ stat' = [stat EXCEPT ![t] = "READY"]
    /\ list' = ReadyInsert(list, t, current_priority[t])
    /\ group' = group \cup {current_priority[t]}

\* Mutant of ResumeThread: the node is not unlinked first.
ResumeThreadLinked(t) == InsertThread(t)

\* rt_thread_resume with interrupts masked, and the part of
\* rt_thread_timeout it shares: unlink, then insert.
ResumeThread(t) ==
    /\ stat' = [stat EXCEPT ![t] = "READY"]
    /\ list' = ReadyInsert(ListRemove(list, t), t, current_priority[t])
    /\ group' = group \cup {current_priority[t]}

\* rt_thread_control(t, RT_THREAD_CTRL_CHANGE_PRIORITY, &p).
SetPriority(t, p) ==
    /\ current_priority' = [current_priority EXCEPT ![t] = p]
    /\ IF stat[t] = "READY"
       THEN LET removed == ListRemove(list, t)
            IN  /\ list' = ReadyInsert(removed, t, p)
                /\ group' = ClearBit(group, removed, current_priority[t]) \cup {p}
       ELSE UNCHANGED <<list, group>>

\* rt_thread_sleep of the running thread, up to its call of rt_schedule, and
\* after it.
SleepThread(t, d) ==
    /\ lock_nest = 0
    /\ SuspendThread(t)
    /\ delay' = [delay EXCEPT ![t] = d]
    /\ resched' = resched \cup {t}
    /\ UNCHANGED <<current_priority, current, lock_nest, error, remaining_tick, irq>>

SleepDone(t) ==
    /\ error' = [error EXCEPT ![t] = IF @ = "ETIMEOUT" THEN "EOK" ELSE @]
    /\ UNCHANGED <<stat, current_priority, list, group, current, lock_nest,
                   delay, remaining_tick, irq, resched>>

-----------------------------------------------------------------------------
(* The tick interrupt.                                                     *)

\* One tick of the thread timers.
Pass(d) == [t \in Thread |-> IF d[t] = Off THEN Off ELSE d[t] - 1]

\* rt_thread_yield of the running thread by the tick handler.
SliceEnd ==
    LET p == current_priority[current]
    IN  IF /\ remaining_tick[current] = 1
           /\ stat[current] = "READY"
           /\ Len(list[p]) > 1
        THEN /\ list' = ReadyInsert(ListRemove(list, current), current, p)
             /\ group' = group
             /\ RtSchedule
        ELSE UNCHANGED <<list, group, current>>

TickBegin ==
    /\ irq = "on"
    /\ irq' = "timer"
    /\ remaining_tick' = [remaining_tick EXCEPT ![current] = IF @ = 1 THEN Slice ELSE @ - 1]
    /\ UNCHANGED <<stat, current_priority, lock_nest, error, resched>>

\* Mutants of Tick: no time passes while the idle thread runs; the slice ends
\* without a rt_thread_yield.
TickNotInIdle ==
    /\ TickBegin /\ SliceEnd
    /\ delay' = IF current = Idle THEN delay ELSE Pass(delay)

TickNoYield ==
    /\ TickBegin
    /\ delay' = Pass(delay)
    /\ UNCHANGED <<list, group, current>>

\* rt_tick_increase up to rt_timer_check: the running thread's slice, the
\* rt_thread_yield when it is used up, and the passing of one tick.
Tick ==
    /\ TickBegin /\ SliceEnd
    /\ delay' = Pass(delay)

\* One iteration of rt_timer_check for a thread timer: rt_thread_timeout.
TimerExpire(t) ==
    /\ irq = "timer"
    /\ delay[t] = 0
    /\ delay' = [delay EXCEPT ![t] = Off]
    /\ error' = [error EXCEPT ![t] = "ETIMEOUT"]
    /\ ResumeThread(t)
    /\ RtSchedule
    /\ UNCHANGED <<current_priority, lock_nest, remaining_tick, irq, resched>>

\* No expired timer is left.
TimerCheckDone ==
    /\ irq = "timer"
    /\ \A t \in Thread : delay[t] # 0
    /\ irq' = "on"
    /\ UNCHANGED <<stat, current_priority, list, group, current, lock_nest,
                   delay, error, remaining_tick, resched>>

KernelInit ==
    /\ stat = [t \in Thread |->
                 IF t \in Range(InitReady[InitPrio[t]]) THEN "READY" ELSE "NONE"]
    /\ current_priority = InitPrio
    /\ list = [h \in ListHead |-> IF h \in Prio THEN InitReady[h] ELSE <<>>]
    /\ group = {p \in Prio : InitReady[p] # <<>>}
    /\ current = Highest(list, group)
    /\ lock_nest = 0
    /\ delay = [t \in Thread |-> Off]
    /\ error = [t \in Thread |-> "EOK"]
    /\ remaining_tick = [t \in Thread |-> Slice]
    /\ irq = "on"
    /\ resched = {}

\* What the kernel does whatever service is being used.
KernelStep ==
    \/ Tick
    \/ \E t \in Thread : TimerExpire(t) \/ Schedule(t)
    \/ TimerCheckDone

-----------------------------------------------------------------------------
(* Invariants every service keeps.                                         *)

KernelTypeOK ==
    /\ stat \in [Thread -> Stat]
    /\ current_priority \in [Thread -> Prio]
    /\ list \in [ListHead -> Seq(Thread)]
    /\ group \in SUBSET Prio
    /\ current \in Thread
    /\ lock_nest \in Nat
    /\ delay \in [Thread -> {Off} \cup 0 .. MaxDelay]
    /\ error \in [Thread -> Error]
    /\ remaining_tick \in [Thread -> 1 .. Slice]
    /\ irq \in {"on", "timer", "masked"}
    /\ resched \in SUBSET Thread

\* A thread's one tlist node is linked at most once, to at most one head: no
\* path through the IPC calls, the timeouts and the deletion of a thread
\* links a node that is still linked (a doubly linked list would be corrupted).
NodeLinkedOnce ==
    /\ \A h \in ListHead : IsInjective(list[h])
    /\ \A g, h \in ListHead : g # h => Range(list[g]) \cap Range(list[h]) = {}

\* Which list a node is in agrees with the thread's stat and priority: the
\* ready queue of its current priority when READY, a wait list only when
\* SUSPEND, the defunct list only when CLOSE.
ListMatchesStat ==
    /\ \A p \in Prio : \A t \in Range(list[p]) : stat[t] = "READY" /\ current_priority[t] = p
    /\ \A q \in WaitList : \A t \in Range(list[q]) : stat[t] = "SUSPEND"
    /\ \A t \in Range(list[Defunct]) : stat[t] = "CLOSE"

\* The bitmap rt_schedule searches shows exactly the non-empty queues, so
\* that the head it takes is a thread (scheduler.c:207-224).
BitmapMatchesQueues == group = {p \in Prio : list[p] # <<>>}

\* The idle thread never leaves its ready queue: rt_schedule always finds a
\* thread.
IdleIsReady ==
    /\ stat[Idle] = "READY" /\ current_priority[Idle] = MaxPrio
    /\ Idle \in Range(list[MaxPrio])

\* Only a suspended thread has a running timer, which rt_thread_timeout
\* asserts when the timer fires (thread.c:748).
TimerImpliesSuspended ==
    \A t \in Thread : /\ delay[t] # Off => stat[t] = "SUSPEND"
                      /\ delay[t] = 0 => irq = "timer"

\* A thread that executes, and does not owe a call of rt_schedule, is READY;
\* so is one that has locked the scheduler.  A READY thread that executes is
\* in its ready queue, where rt_thread_yield moves it to the tail.
RunningIsReady ==
    /\ current \notin resched \/ lock_nest > 0 => stat[current] = "READY"
    /\ stat[current] = "READY" => current \in Range(list[current_priority[current]])

KernelInv ==
    /\ KernelTypeOK
    /\ NodeLinkedOnce
    /\ ListMatchesStat
    /\ BitmapMatchesQueues
    /\ IdleIsReady
    /\ TimerImpliesSuspended
    /\ RunningIsReady

\* Unless the scheduler is locked, or the running thread has yet to call
\* rt_schedule or to unmask interrupts, the CPU belongs to the first thread of
\* the highest-priority non-empty ready queue.
HighestRuns ==
    lock_nest = 0 /\ current \notin resched /\ irq # "masked"
        => current = Highest(list, group)

\* Time slices share the CPU (documentation/doxygen/kernel.h:31-32): a thread
\* that stays in the highest-priority queue while the scheduler is not locked
\* runs again and again.
RoundRobin ==
    \A t \in Thread :
        <>[](t \in Range(list[Min(group)]) /\ lock_nest = 0) => []<>(current = t)
=============================================================================
