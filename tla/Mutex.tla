-------------------------------- MODULE Mutex -------------------------------
(***************************************************************************)
(* Mutexes (src/src/ipc.c:541-912): recursive locks with an owner, handed  *)
(* over directly to the first waiter, whose owner inherits the priority of *)
(* a more urgent thread that waits.  Threads may also sleep while they     *)
(* hold a mutex (thread.c:502-531).                                        *)
(***************************************************************************)
EXTENDS Kernel

CONSTANTS Null,      \* RT_NULL: no owner
          MaxHold    \* bound: the nesting of rt_mutex_take (255 in the code)

ASSUME MutexAssumption == Null \notin Thread /\ MaxHold \in Nat \ {0}

Mtx == WaitList
Forever == Off
NoPrio == 255        \* 0xFF in original_priority

VARIABLES value, owner, original_priority, hold,   \* the fields of rt_mutex
          pc                                       \* the call a thread is in

mutexVars == <<value, owner, original_priority, hold, pc>>
vars == <<kernelVars, value, owner, original_priority, hold, pc>>

App == [op |-> "app"]
Calls == {App, [op |-> "sleep"]} \cup [op : {"take"}, mutex : Mtx]

At(t, op) == Runs(t) /\ pc[t].op = op
Goto(t, c) == pc' = [pc EXCEPT ![t] = c]

Init ==
    /\ KernelInit
    /\ value = [m \in Mtx |-> 1]
    /\ owner = [m \in Mtx |-> Null]
    /\ original_priority = [m \in Mtx |-> NoPrio]
    /\ hold = [m \in Mtx |-> 0]
    /\ pc = [t \in Thread |-> App]

-----------------------------------------------------------------------------
\* rt_mutex_take by the owner.
TakeAgain(t, m) ==
    /\ At(t, "app") /\ owner[m] = t /\ hold[m] < MaxHold
    /\ error' = [error EXCEPT ![t] = "EOK"]
    /\ hold' = [hold EXCEPT ![m] = @ + 1]
    /\ UNCHANGED <<stat, current_priority, list, group, current, lock_nest,
                   delay, remaining_tick, irq, resched,
                   value, owner, original_priority, pc>>

\* rt_mutex_take of a free mutex.
TakeFree(t, m) ==
    /\ At(t, "app") /\ owner[m] # t /\ value[m] > 0
    /\ error' = [error EXCEPT ![t] = "EOK"]
    /\ value' = [value EXCEPT ![m] = @ - 1]
    /\ owner' = [owner EXCEPT ![m] = t]
    /\ original_priority' = [original_priority EXCEPT ![m] = current_priority[t]]
    /\ hold' = [hold EXCEPT ![m] = @ + 1]
    /\ UNCHANGED <<stat, current_priority, list, group, current, lock_nest,
                   delay, remaining_tick, irq, resched, pc>>

\* rt_mutex_take with time 0 of a mutex another thread owns.
TakeFail(t, m) ==
    /\ At(t, "app") /\ owner[m] # t /\ value[m] = 0
    /\ error' = [error EXCEPT ![t] = "ETIMEOUT"]
    /\ UNCHANGED <<stat, current_priority, list, group, current, lock_nest,
                   delay, remaining_tick, irq, resched, mutexVars>>

\* rt_mutex_take of a mutex another thread owns, up to its call of
\* rt_schedule: the owner inherits the priority of t if that is higher
\* (the Inherit... operators), then t suspends on m (Block).
MustWait(t, m) == At(t, "app") /\ lock_nest = 0 /\ owner[m] # t /\ value[m] = 0

Inherits(t, o) == current_priority[t] < current_priority[o]

InheritLists(t, o) ==
    IF Inherits(t, o) /\ stat[o] = "READY"
    THEN ReadyInsert(ListRemove(list, o), o, current_priority[t])
    ELSE list

InheritBits(t, o) ==
    IF Inherits(t, o) /\ stat[o] = "READY"
    THEN ClearBit(group, InheritLists(t, o), current_priority[o]) \cup {current_priority[t]}
    ELSE group

InheritPriority(t, o) ==
    current_priority' = IF Inherits(t, o)
                        THEN [current_priority EXCEPT ![o] = current_priority[t]]
                        ELSE current_priority

Block(t, m, time, lists, bits) ==
    /\ stat' = [stat EXCEPT ![t] = "SUSPEND"]
    /\ list' = WaitInsert(ListRemove(lists, t), t, m)
    /\ group' = ClearBit(bits, list', current_priority[t])
    /\ delay' = [delay EXCEPT ![t] = time]
    /\ Goto(t, [op |-> "take", mutex |-> m])
    /\ resched' = resched \cup {t}
    /\ UNCHANGED <<current, lock_nest, remaining_tick, irq,
                   value, owner, original_priority, hold>>

\* Mutants of TakeWait: the owner does not inherit; thread->error is not reset.
TakeWaitNoInherit(t, m, time) ==
    /\ MustWait(t, m)
    /\ error' = [error EXCEPT ![t] = "EOK"]
    /\ UNCHANGED current_priority
    /\ Block(t, m, time, list, group)

TakeWaitStaleError(t, m, time) ==
    /\ MustWait(t, m)
    /\ UNCHANGED error
    /\ InheritPriority(t, owner[m])
    /\ Block(t, m, time, InheritLists(t, owner[m]), InheritBits(t, owner[m]))

TakeWait(t, m, time) ==
    /\ MustWait(t, m)
    /\ error' = [error EXCEPT ![t] = "EOK"]
    /\ InheritPriority(t, owner[m])
    /\ Block(t, m, time, InheritLists(t, owner[m]), InheritBits(t, owner[m]))

\* ... and after it: RT_EOK, with the mutex, or the error it was woken with.
TakeReturn(t) ==
    /\ At(t, "take")
    /\ Goto(t, App)
    /\ UNCHANGED <<kernelVars, value, owner, original_priority, hold>>

-----------------------------------------------------------------------------
\* rt_mutex_release by a thread that is not the owner.
ReleaseFail(t, m) ==
    /\ At(t, "app") /\ owner[m] # t
    /\ error' = [error EXCEPT ![t] = "ERROR"]
    /\ UNCHANGED <<stat, current_priority, list, group, current, lock_nest,
                   delay, remaining_tick, irq, resched, mutexVars>>

\* rt_mutex_release of a mutex taken more than once.
ReleaseInner(t, m) ==
    /\ At(t, "app") /\ owner[m] = t /\ hold[m] > 1
    /\ hold' = [hold EXCEPT ![m] = @ - 1]
    /\ UNCHANGED <<kernelVars, value, owner, original_priority, pc>>

\* The last rt_mutex_release, nobody waiting: the owner goes back to the
\* priority it had when it took m.  There is no rt_schedule.
RestorePriority(t, m) ==
    IF original_priority[m] # current_priority[t]
    THEN SetPriority(t, original_priority[m])
    ELSE UNCHANGED <<current_priority, list, group>>

LastRelease(t, m) ==
    /\ At(t, "app") /\ owner[m] = t /\ hold[m] = 1 /\ list[m] = <<>>
    /\ hold' = [hold EXCEPT ![m] = 0]
    /\ value' = [value EXCEPT ![m] = @ + 1]
    /\ UNCHANGED <<stat, current, lock_nest, delay, error, remaining_tick,
                   irq, resched, pc>>

\* Mutant of ReleaseFree: the owner keeps its priority.
ReleaseFreeKeepsPriority(t, m) ==
    /\ LastRelease(t, m)
    /\ owner' = [owner EXCEPT ![m] = Null]
    /\ original_priority' = [original_priority EXCEPT ![m] = NoPrio]
    /\ UNCHANGED <<current_priority, list, group>>

ReleaseFree(t, m) ==
    /\ LastRelease(t, m) /\ RestorePriority(t, m)
    /\ owner' = [owner EXCEPT ![m] = Null]
    /\ original_priority' = [original_priority EXCEPT ![m] = NoPrio]

\* The last rt_mutex_release with waiters, up to its call of rt_schedule: as
\* above, and the first waiter becomes the owner and is resumed.
ReleaseHandOver(t, m) ==
    LET w == Head(list[m])
        p == original_priority[m]
        restore == p # current_priority[t]
        moved == IF restore THEN ReadyInsert(ListRemove(list, t), t, p) ELSE list
        bits == IF restore THEN ClearBit(group, moved, current_priority[t]) \cup {p} ELSE group
    IN  /\ At(t, "app") /\ owner[m] = t /\ hold[m] = 1 /\ list[m] # <<>>
        /\ current_priority' = [current_priority EXCEPT ![t] = p]
        /\ owner' = [owner EXCEPT ![m] = w]
        /\ original_priority' = [original_priority EXCEPT ![m] = current_priority[w]]
        /\ stat' = [stat EXCEPT ![w] = "READY"]
        /\ list' = ReadyInsert(ListRemove(moved, w), w, current_priority[w])
        /\ group' = bits \cup {current_priority[w]}
        /\ delay' = [delay EXCEPT ![w] = Off]
        /\ resched' = resched \cup {t}
        /\ UNCHANGED <<current, lock_nest, error, remaining_tick, irq, value, hold, pc>>

-----------------------------------------------------------------------------
\* rt_thread_sleep.
Sleep(t, d) ==
    /\ At(t, "app")
    /\ SleepThread(t, d)
    /\ Goto(t, [op |-> "sleep"])
    /\ UNCHANGED <<value, owner, original_priority, hold>>

SleepReturn(t) ==
    /\ At(t, "sleep")
    /\ SleepDone(t)
    /\ Goto(t, App)
    /\ UNCHANGED <<value, owner, original_priority, hold>>

MutexCall(t) ==
    \/ \E m \in Mtx : \/ TakeAgain(t, m) \/ TakeFree(t, m) \/ TakeFail(t, m)
                      \/ \E time \in Delay \cup {Forever} : TakeWait(t, m, time)
                      \/ ReleaseFail(t, m) \/ ReleaseInner(t, m)
                      \/ ReleaseFree(t, m) \/ ReleaseHandOver(t, m)
    \/ \E d \in Delay : Sleep(t, d)

MutexReturn(t) == TakeReturn(t) \/ SleepReturn(t)

Next ==
    \/ KernelStep /\ UNCHANGED mutexVars
    \/ \E t \in Thread \ {Idle} : MutexCall(t) \/ MutexReturn(t)

Spec == Init /\ [][Next]_vars

-----------------------------------------------------------------------------
TypeOK ==
    /\ KernelTypeOK
    /\ value \in [Mtx -> {0, 1}]
    /\ owner \in [Mtx -> Thread \cup {Null}]
    /\ original_priority \in [Mtx -> Prio \cup {NoPrio}]
    /\ hold \in [Mtx -> 0 .. MaxHold]
    /\ pc \in [Thread -> Calls]

\* value, owner, hold and original_priority agree, and nobody waits for a
\* free mutex: a release that races a take or a waiter's time-out leaves no
\* thread stranded and no mutex locked without an owner.
FreeOrOwned ==
    \A m \in Mtx :
        \/ /\ value[m] = 1 /\ owner[m] = Null /\ hold[m] = 0
           /\ original_priority[m] = NoPrio /\ list[m] = <<>>
        \/ /\ value[m] = 0 /\ owner[m] \in Thread /\ hold[m] > 0
           /\ original_priority[m] \in Prio

\* Mutual exclusion as the callers see it: a thread inside rt_mutex_take(m)
\* either waits in m's list; or was handed the mutex, is its only holder and
\* will return RT_EOK; or timed out and does not own it.
TakerOwnsIffGranted ==
    \A t \in Thread, m \in Mtx :
        /\ pc[t] = [op |-> "take", mutex |-> m] =>
              \/ stat[t] = "SUSPEND" /\ t \in Range(list[m]) /\ owner[m] # t /\ error[t] = "EOK"
              \/ stat[t] = "READY" /\ owner[m] = t /\ hold[m] = 1 /\ error[t] = "EOK"
              \/ stat[t] = "READY" /\ owner[m] # t /\ error[t] = "ETIMEOUT"
        /\ t \in Range(list[m]) => pc[t] = [op |-> "take", mutex |-> m]

\* Both, and the lists: when an owner that is ready or asleep inherits a
\* priority or gets its own back, its ready queue and the bitmap follow; waits,
\* time-outs and hand-overs leave no node in two lists and no timer with a
\* ready thread.
Ownership == TypeOK /\ KernelInv /\ FreeOrOwned /\ TakerOwnsIffGranted

\* The owner of a mutex runs at least at the priority of every thread that
\* waits for it (ipc.c:732-739, "change the owner thread priority of mutex").
PriorityInherited ==
    \A m \in Mtx : \A i \in DOMAIN list[m] :
        current_priority[owner[m]] <= current_priority[list[m][i]]

\* A thread that holds no mutex is back at its own priority, even when the
\* waiter it inherited from has timed out (ipc.c:844-850).
PriorityRestored ==
    \A t \in Thread :
        (\A m \in Mtx : owner[m] # t) => current_priority[t] = InitPrio[t]
=============================================================================
