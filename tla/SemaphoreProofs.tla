--------------------------- MODULE SemaphoreProofs --------------------------
(***************************************************************************)
(* Proofs about semaphores, for any number of threads, priorities and      *)
(* semaphores.  IInv is inductive: the kernel's own invariant, which the   *)
(* steps of KernelProofs keep, and the agreement between the wait lists,   *)
(* the calls the threads are in and the value.                             *)
(***************************************************************************)
EXTENDS Semaphore, KernelProofs

SemInv ==
    /\ value \in [Sem -> 0 .. MaxValue]
    /\ pc \in [Thread -> Calls]
    /\ NoUnitWhileWaiting
    /\ WaitersAreTaking
    /\ WaiterErrorClear

IInv == KernelInv /\ HighestRuns /\ SemInv

\* The calls a thread can be in.
LEMMA CallFacts ==
    ASSUME NEW c \in Calls
    PROVE  /\ c.op \in {"app", "take", "reset"}
           /\ c.op = "take" => c.sem \in Sem
           /\ c.op = "reset" => c.sem \in Sem /\ c.val \in 0 .. MaxValue
BY DEF Calls, App

\* The thread that runs is ready and waits for nothing.
LEMMA RunnerFacts ==
    ASSUME KernelInv, NEW t \in Thread, NEW op, At(t, op)
    PROVE  /\ current = t /\ t \notin resched /\ pc[t].op = op
           /\ stat[t] = "READY" /\ t \in Range(list[current_priority[t]])
           /\ \A s \in Sem : t \notin Range(list[s])
<1>1. QueuesOK /\ Rest
  BY InvParts
<1> QED
  BY <1>1 DEF At, Rest, RunningIsReady, QueuesOK, Queues, Sem

\* A step that keeps or wakes every waiter keeps SemInv.
LEMMA KeepsSemInv ==
    ASSUME SemInv, \A u \in Thread : Kept(u) \/ Woken(u),
           list \in Lists, list' \in Lists, UNCHANGED semVars
    PROVE  SemInv'
<1>1. UNCHANGED <<value, pc>>
  BY DEF semVars
<1>2. \A u \in Thread, s \in Sem : u \in Range(list'[s]) => u \in Range(list[s])
  BY DEF Kept, Woken, Sem
<1>3. \A s \in Sem : list[s] = <<>> => list'[s] = <<>>
  <2>1. \A s \in Sem : /\ list[s] = <<>> <=> Range(list[s]) = {}
                       /\ list'[s] = <<>> <=> Range(list'[s]) = {}
                       /\ Range(list'[s]) \subseteq Thread
    BY ListFacts, Heads, ZenonT(60) DEF Sem
  <2> QED
    BY <1>2, <2>1
<1>4. NoUnitWhileWaiting'
  BY <1>1, <1>3 DEF SemInv, NoUnitWhileWaiting
<1>5. WaitersAreTaking'
  BY <1>1 DEF SemInv, WaitersAreTaking, Kept, Woken, Sem
<1>6. WaiterErrorClear'
  BY DEF SemInv, WaiterErrorClear, Kept, Woken, Sem
<1> QED
  BY <1>1, <1>4, <1>5, <1>6 DEF SemInv

\* rt_sem_take of an available unit keeps the invariant,
LEMMA TakeAvailableInv ==
    ASSUME IInv, NEW t \in Thread, NEW s \in Sem, TakeAvailable(t, s)
    PROVE  IInv'
<1>1. /\ value' = [value EXCEPT ![s] = @ - 1] /\ value[s] > 0
      /\ UNCHANGED <<stat, current_priority, list, group, current, lock_nest, delay,
                      error, remaining_tick, irq, resched, pc>>
  BY DEF TakeAvailable, kernelVars
<1>2. KernelInv' /\ HighestRuns'
  BY <1>1 DEF IInv, KernelInv, KernelTypeOK, NodeLinkedOnce, ListMatchesStat,
              BitmapMatchesQueues, IdleIsReady, TimerImpliesSuspended,
              RunningIsReady, HighestRuns
<1>3. SemInv'
  BY <1>1, ValueAssumption DEF IInv, SemInv, NoUnitWhileWaiting, WaitersAreTaking, WaiterErrorClear
<1> QED
  BY <1>2, <1>3 DEF IInv

\* ... so does its return after a wait,
LEMMA TakeReturnInv ==
    ASSUME IInv, NEW t \in Thread, TakeReturn(t)
    PROVE  IInv'
<1>1. /\ pc' = [pc EXCEPT ![t] = App] /\ At(t, "take")
      /\ UNCHANGED <<stat, current_priority, list, group, current, lock_nest, delay,
                      error, remaining_tick, irq, resched, value>>
  BY DEF TakeReturn, kernelVars, Goto
<1>2. KernelInv' /\ HighestRuns'
  BY <1>1 DEF IInv, KernelInv, KernelTypeOK, NodeLinkedOnce, ListMatchesStat,
              BitmapMatchesQueues, IdleIsReady, TimerImpliesSuspended,
              RunningIsReady, HighestRuns
<1>3. stat[t] = "READY" /\ \A r \in Sem : t \notin Range(list[r])
  BY <1>1, RunnerFacts DEF IInv
<1>4. pc' \in [Thread -> Calls]
  BY <1>1 DEF IInv, SemInv, Calls
<1>5. SemInv'
  BY <1>1, <1>3, <1>4 DEF IInv, SemInv, NoUnitWhileWaiting, WaitersAreTaking, WaiterErrorClear
<1> QED
  BY <1>2, <1>5 DEF IInv

\* ... its suspension,
LEMMA TakeWaitInv ==
    ASSUME IInv, NEW t \in Thread, t # Idle, NEW s \in Sem,
           NEW time \in Delay \cup {Forever}, TakeWait(t, s, time)
    PROVE  IInv'
<1>1. /\ At(t, "app") /\ irq = "on" /\ lock_nest = 0 /\ value[s] = 0
      /\ error' = [error EXCEPT ![t] = "EOK"]
      /\ SuspendOn(t, s)
      /\ delay' = [delay EXCEPT ![t] = time]
      /\ pc' = [pc EXCEPT ![t] = [op |-> "take", sem |-> s]]
      /\ resched' = resched \cup {t}
      /\ UNCHANGED <<current_priority, current, lock_nest, remaining_tick, irq, value>>
  BY DEF TakeWait, Goto
<1>2. QueuesOK /\ Rest /\ SemInv
  BY InvParts DEF IInv
<1>3. current = t /\ stat[t] = "READY" /\ \A r \in Sem : t \notin Range(list[r])
  BY <1>1, RunnerFacts DEF IInv
<1>4. QueuesOK' /\ Moved(list, list', t, {s})
  BY <1>1, <1>2, <1>3, SuspendOnStep DEF Sem
<1>5. stat'[t] = "SUSPEND" /\ \A u \in Thread \ {t} : stat'[u] = stat[u]
  BY <1>1, <1>2 DEF SuspendOn, QueuesOK, Queues
<1>6. Rest' /\ HighestRuns'
  <2>1. delay' \in [Thread -> {Off} \cup 0 .. MaxDelay] /\ error' \in [Thread -> Error]
    BY <1>1, <1>2 DEF Rest, Error, Delay, Forever
  <2>2. TimerImpliesSuspended'
    BY <1>1, <1>2, <1>5, TimeAssumption DEF Rest, TimerImpliesSuspended, Delay, Forever, Off
  <2>3. RunningIsReady' /\ HighestRuns'
    BY <1>1, <1>3, <1>5 DEF RunningIsReady, HighestRuns
  <2> QED
    BY <1>1, <1>2, <2>1, <2>2, <2>3 DEF Rest
<1>7. \A u \in Thread, r \in Sem :
          u \in Range(list'[r]) <=> IF u = t THEN r = s ELSE u \in Range(list[r])
  BY <1>4, Heads DEF Moved, Sem
<1>8. NoUnitWhileWaiting'
  <2>1. list \in Lists /\ list' \in Lists
    BY <1>2, <1>4 DEF QueuesOK, Queues
  <2>2. \A r \in Sem : /\ list[r] = <<>> <=> Range(list[r]) = {}
                       /\ list'[r] = <<>> <=> Range(list'[r]) = {}
                       /\ Range(list'[r]) \subseteq Thread
    BY <2>1, ListFacts, Heads, ZenonT(60) DEF Sem
  <2> SUFFICES ASSUME NEW r \in Sem, value'[r] > 0 PROVE list'[r] = <<>>
    BY DEF NoUnitWhileWaiting
  <2>3. r # s /\ list[r] = <<>>
    BY <1>1, <1>2 DEF SemInv, NoUnitWhileWaiting
  <2> QED
    BY <1>7, <2>2, <2>3, ZenonT(60)
<1>9. pc' \in [Thread -> Calls]
  BY <1>1, <1>2 DEF SemInv, Calls
<1>10. WaitersAreTaking'
  BY <1>1, <1>2, <1>5, <1>7 DEF SemInv, WaitersAreTaking
<1>11. WaiterErrorClear'
  BY <1>1, <1>2, <1>7 DEF SemInv, WaiterErrorClear, Rest
<1> QED
  BY <1>1, <1>2, <1>4, <1>6, <1>8, <1>9, <1>10, <1>11, InvPartsNext DEF IInv, SemInv

\* What the masked section of rt_sem_release does.
LEMMA ReleaseStep ==
    ASSUME IInv, NEW s \in Sem, ReleaseSection(s),
           UNCHANGED <<current_priority, error, irq, pc>>
    PROVE  /\ QueuesOK' /\ SemInv'
           /\ delay' \in [Thread -> {Off} \cup 0 .. MaxDelay] /\ TimerImpliesSuspended'
           /\ stat[current] = "READY" => stat'[current] = "READY"
           /\ stat'[current] = "READY" =>
                 current \in Range(list'[current_priority'[current]])
<1>1. QueuesOK /\ Rest /\ SemInv
  BY InvParts DEF IInv
<1>2. CASE list[s] # <<>>
  <2>1. /\ ResumeThread(Head(list[s])) /\ UNCHANGED value
        /\ delay' = [delay EXCEPT ![Head(list[s])] = Off]
    BY <1>2 DEF ReleaseSection
  <2>2. /\ QueuesOK'
        /\ \A u \in Thread : Kept(u) \/ Woken(u)
        /\ delay' \in [Thread -> {Off} \cup 0 .. MaxDelay] /\ TimerImpliesSuspended'
        /\ stat[current] = "READY" => stat'[current] = "READY"
        /\ stat'[current] = "READY" => current \in Range(list'[current_priority'[current]])
    BY <1>2, <2>1, WakeStep, ZenonT(60) DEF IInv, Sem
  <2>3. list \in Lists /\ list' \in Lists
    BY <1>1, <2>2 DEF QueuesOK, Queues
  <2>4. SemInv'
    BY <1>1, <2>1, <2>2, <2>3, KeepsSemInv DEF semVars
  <2> QED
    BY <2>2, <2>4
<1>3. CASE list[s] = <<>>
  <2>1. /\ value[s] < MaxValue /\ value' = [value EXCEPT ![s] = @ + 1]
        /\ UNCHANGED <<stat, list, group, delay>>
    BY <1>3 DEF ReleaseSection
  <2>2. SemInv'
    BY <1>1, <1>3, <2>1, ValueAssumption
    DEF SemInv, NoUnitWhileWaiting, WaitersAreTaking, WaiterErrorClear
  <2>3. QueuesOK'
    BY <1>1, <2>1 DEF QueuesOK
  <2> QED
    BY <1>1, <2>1, <2>2, <2>3 DEF Rest, TimerImpliesSuspended, RunningIsReady
<1> QED
  BY <1>2, <1>3

\* ... rt_sem_release by a thread,
LEMMA ReleaseInv ==
    ASSUME IInv, NEW t \in Thread, NEW s \in Sem, Release(t, s)
    PROVE  IInv'
<1>1. /\ At(t, "app") /\ ReleaseSection(s)
      /\ resched' = IF list[s] # <<>> THEN resched \cup {t} ELSE resched
      /\ UNCHANGED <<current_priority, current, lock_nest, error, remaining_tick, irq, pc>>
  BY DEF Release
<1>2. QueuesOK /\ Rest
  BY InvParts DEF IInv
<1>3. current = t /\ stat[t] = "READY"
  BY <1>1, RunnerFacts DEF IInv
<1>4. /\ QueuesOK' /\ SemInv'
      /\ delay' \in [Thread -> {Off} \cup 0 .. MaxDelay] /\ TimerImpliesSuspended'
      /\ stat'[t] = "READY" /\ t \in Range(list'[current_priority'[t]])
  BY <1>1, <1>3, ReleaseStep
<1>5. RunningIsReady'
  BY <1>1, <1>3, <1>4 DEF RunningIsReady
<1>6. HighestRuns'
  BY <1>1, <1>3 DEF IInv, HighestRuns, ReleaseSection
<1>7. Rest'
  BY <1>1, <1>2, <1>4, <1>5 DEF Rest
<1> QED
  BY <1>4, <1>6, <1>7, InvPartsNext DEF IInv

\* ... and by an interrupt handler,
LEMMA ReleaseFromISRInv ==
    ASSUME IInv, NEW s \in Sem, ReleaseFromISR(s)
    PROVE  IInv'
<1>1. /\ ReleaseSection(s)
      /\ IF list[s] # <<>> THEN RtSchedule ELSE UNCHANGED current
      /\ UNCHANGED <<current_priority, lock_nest, error, remaining_tick, irq, resched, pc>>
  BY DEF ReleaseFromISR
<1>2. QueuesOK /\ Rest
  BY InvParts DEF IInv
<1>3. /\ QueuesOK' /\ SemInv'
      /\ delay' \in [Thread -> {Off} \cup 0 .. MaxDelay] /\ TimerImpliesSuspended'
      /\ stat[current] = "READY" => stat'[current] = "READY"
      /\ stat'[current] = "READY" => current \in Range(list'[current_priority'[current]])
  BY <1>1, ReleaseStep
<1>4. current' \in Thread /\ RunningIsReady' /\ HighestRuns'
  <2>1. CASE list[s] # <<>>
    <3>1. lock_nest > 0 => /\ stat'[current] = "READY"
                           /\ current \in Range(list'[current_priority'[current]])
      BY <1>2, <1>3 DEF Rest, RunningIsReady
    <3> QED
      BY <1>1, <1>2, <1>3, <2>1, <3>1, RescheduleStep DEF Rest
  <2>2. CASE list[s] = <<>>
    BY <1>1, <1>2, <2>2 DEF Rest, RunningIsReady, HighestRuns, IInv, ReleaseSection
  <2> QED
    BY <2>1, <2>2
<1>5. Rest'
  BY <1>1, <1>2, <1>3, <1>4 DEF Rest
<1> QED
  BY <1>3, <1>4, <1>5, InvPartsNext DEF IInv

\* ... the start of a reset,
LEMMA ResetBeginInv ==
    ASSUME IInv, NEW t \in Thread, NEW s \in Sem, NEW n \in 0 .. MaxValue,
           ResetBegin(t, s, n)
    PROVE  IInv'
<1>1. /\ At(t, "app") /\ irq = "on" /\ irq' = "masked"
      /\ pc' = [pc EXCEPT ![t] = [op |-> "reset", sem |-> s, val |-> n]]
      /\ UNCHANGED <<stat, current_priority, list, group, current, lock_nest,
                      delay, error, remaining_tick, resched, value>>
  BY DEF ResetBegin, Goto
<1>2. QueuesOK /\ Rest /\ SemInv
  BY InvParts DEF IInv
<1>3. stat[t] = "READY" /\ \A r \in Sem : t \notin Range(list[r])
  BY <1>1, RunnerFacts DEF IInv
<1>4. QueuesOK' /\ HighestRuns'
  BY <1>1, <1>2 DEF QueuesOK, HighestRuns
<1>5. Rest'
  BY <1>1, <1>2 DEF Rest, TimerImpliesSuspended, RunningIsReady
<1>6. pc' \in [Thread -> Calls]
  BY <1>1, <1>2 DEF SemInv, Calls
<1>7. SemInv'
  BY <1>1, <1>2, <1>3, <1>6 DEF SemInv, NoUnitWhileWaiting, WaitersAreTaking, WaiterErrorClear
<1> QED
  BY <1>4, <1>5, <1>7, InvPartsNext DEF IInv

\* ... each wake-up it makes,
LEMMA ResetResumeInv ==
    ASSUME IInv, NEW t \in Thread, ResetResume(t)
    PROVE  IInv'
<1> DEFINE s == pc[t].sem
           w == Head(list[s])
<1>1. /\ At(t, "reset") /\ irq = "masked" /\ list[s] # <<>>
      /\ error' = [error EXCEPT ![w] = "ERROR"]
      /\ ResumeThread(w) /\ delay' = [delay EXCEPT ![w] = Off]
      /\ UNCHANGED <<current_priority, current, lock_nest, remaining_tick,
                      irq, resched, value, pc>>
  BY DEF ResetResume
<1>2. QueuesOK /\ Rest /\ SemInv
  BY InvParts DEF IInv
<1>3. current = t /\ stat[t] = "READY"
  BY <1>1, RunnerFacts DEF IInv
<1>4. s \in Sem
  BY <1>1, <1>2, CallFacts DEF SemInv, At
<1>5. error' \in [Thread -> Error] /\ \A u \in Thread \ {w} : error'[u] = error[u]
  BY <1>1, <1>2, ZenonT(60) DEF Rest, Error
<1> HIDE DEF s, w
<1>6. /\ QueuesOK'
      /\ \A u \in Thread : Kept(u) \/ Woken(u)
      /\ delay' \in [Thread -> {Off} \cup 0 .. MaxDelay] /\ TimerImpliesSuspended'
      /\ stat'[t] = "READY" /\ t \in Range(list'[current_priority'[t]])
  <2>1. w = Head(list[s])
    BY DEF w
  <2> QED
    BY <1>1, <1>3, <1>4, <1>5, <2>1, WakeStep, ZenonT(60) DEF IInv, Sem
<1>7. list \in Lists /\ list' \in Lists
  BY <1>2, <1>6, ZenonT(60) DEF QueuesOK, Queues
<1>8. SemInv'
  BY <1>1, <1>2, <1>6, <1>7, KeepsSemInv DEF semVars
<1>9. RunningIsReady' /\ HighestRuns'
  BY <1>1, <1>3, <1>6 DEF RunningIsReady, HighestRuns
<1>10. Rest'
  BY <1>1, <1>2, <1>5, <1>6, <1>9 DEF Rest
<1> QED
  BY <1>6, <1>8, <1>9, <1>10, InvPartsNext DEF IInv

\* ... and its end.
LEMMA ResetEndInv ==
    ASSUME IInv, NEW t \in Thread, ResetEnd(t)
    PROVE  IInv'
<1>1. /\ At(t, "reset") /\ irq = "masked" /\ irq' = "on" /\ list[pc[t].sem] = <<>>
      /\ value' = [value EXCEPT ![pc[t].sem] = pc[t].val]
      /\ pc' = [pc EXCEPT ![t] = App] /\ resched' = resched \cup {t}
      /\ UNCHANGED <<stat, current_priority, list, group, current, lock_nest,
                      delay, error, remaining_tick>>
  BY DEF ResetEnd, Goto
<1>2. QueuesOK /\ Rest /\ SemInv
  BY InvParts DEF IInv
<1>3. /\ current = t /\ stat[t] = "READY" /\ pc[t].op = "reset"
      /\ \A r \in Sem : t \notin Range(list[r])
  BY <1>1, RunnerFacts DEF IInv
<1>4. pc[t].sem \in Sem /\ pc[t].val \in 0 .. MaxValue
  BY <1>2, <1>3, CallFacts DEF SemInv
<1>5. QueuesOK' /\ HighestRuns'
  BY <1>1, <1>2, <1>3 DEF QueuesOK, HighestRuns
<1>6. Rest'
  BY <1>1, <1>2, <1>3 DEF Rest, TimerImpliesSuspended, RunningIsReady
<1>7. value' \in [Sem -> 0 .. MaxValue] /\ pc' \in [Thread -> Calls]
  BY <1>1, <1>2, <1>4 DEF SemInv, Calls
<1>8. NoUnitWhileWaiting'
  BY <1>1, <1>2 DEF SemInv, NoUnitWhileWaiting
<1>9. WaitersAreTaking' /\ WaiterErrorClear'
  BY <1>1, <1>2, <1>3 DEF SemInv, WaitersAreTaking, WaiterErrorClear
<1> QED
  BY <1>5, <1>6, <1>7, <1>8, <1>9, InvPartsNext DEF IInv, SemInv

-----------------------------------------------------------------------------
\* The invariant holds initially,
LEMMA InitIInv == Init => IInv
<1> SUFFICES ASSUME Init PROVE IInv
  OBVIOUS
<1>1. KernelInv /\ HighestRuns
  BY KernelInitInv DEF Init
<1>2. \A s \in Sem : list[s] = <<>> /\ Range(list[s]) = {}
  <2>1. list = [h \in ListHead |-> IF h \in Prio THEN InitReady[h] ELSE <<>>]
    BY DEF Init, KernelInit
  <2>2. \A s \in Sem : s \in ListHead /\ s \notin Prio
    BY Heads DEF Sem
  <2>3. \A s \in Sem : list[s] = <<>>
    BY <2>1, <2>2
  <2>4. list \in Lists
    BY <1>1, InvParts DEF QueuesOK, Queues
  <2> QED
    BY <2>2, <2>3, <2>4, ListFacts
<1>3. \A t \in Thread : pc[t].op = "app"
  BY DEF Init, App
<1>4. value \in [Sem -> 0 .. MaxValue] /\ pc \in [Thread -> Calls]
  BY ValueAssumption DEF Init, Calls
<1> QED
  BY <1>1, <1>2, <1>3, <1>4, ZenonT(60) DEF IInv, SemInv, NoUnitWhileWaiting, WaitersAreTaking, WaiterErrorClear

\* ... every step keeps it,
LEMMA NextIInv == IInv /\ [Next]_vars => IInv'
<1> SUFFICES ASSUME IInv, [Next]_vars PROVE IInv'
  OBVIOUS
<1>1. CASE KernelStep /\ UNCHANGED semVars
  <2>1. KernelInv' /\ HighestRuns' /\ \A u \in Thread : Kept(u) \/ Woken(u)
    BY <1>1, KernelStepInv, KernelStepWaiters DEF IInv, TimedOut
  <2>2. list \in Lists /\ list' \in Lists
    BY <2>1, InvParts, InvPartsNext DEF IInv, QueuesOK, Queues
  <2>3. SemInv'
    BY <1>1, <2>1, <2>2, KeepsSemInv DEF IInv
  <2> QED
    BY <2>1, <2>3 DEF IInv
<1>2. ASSUME NEW t \in Thread \ {Idle}, SemCall(t) PROVE IInv'
  BY <1>2, TakeAvailableInv, TakeWaitInv, TakeReturnInv, ReleaseInv, ResetBeginInv,
     ResetResumeInv, ResetEndInv DEF SemCall
<1>3. ASSUME NEW s \in Sem, ReleaseFromISR(s) PROVE IInv'
  BY <1>3, ReleaseFromISRInv
<1>4. CASE UNCHANGED vars
  <2>1. UNCHANGED <<stat, current_priority, list, group, current, lock_nest, delay, error,
                    remaining_tick, irq, resched, value, pc>>
    BY <1>4, ZenonT(60) DEF vars, kernelVars
  <2>2. KernelInv' /\ HighestRuns'
    BY <2>1 DEF IInv, KernelInv, KernelTypeOK, NodeLinkedOnce, ListMatchesStat,
                BitmapMatchesQueues, IdleIsReady, TimerImpliesSuspended,
                RunningIsReady, HighestRuns
  <2>3. SemInv'
    BY <2>1 DEF IInv, SemInv, NoUnitWhileWaiting, WaitersAreTaking, WaiterErrorClear
  <2> QED
    BY <2>2, <2>3 DEF IInv
<1> QED
  BY <1>1, <1>2, <1>3, <1>4 DEF Next

\* ... so it always holds.
LEMMA Inductive == Spec => []IInv
BY InitIInv, NextIInv, PTL DEF Spec

\* Every variable of the kernel and of the semaphores keeps its type: the value
\* stays within its bound and every thread is in a call the code has.
THEOREM SemaphoreTypes == Spec => []TypeOK
<1>1. IInv => TypeOK
  BY DEF IInv, KernelInv, SemInv, TypeOK
<1> QED
  BY <1>1, Inductive, PTL

\* However takes, releases from threads and interrupts, resets and time-outs
\* interleave, no unit lies in a semaphore that has waiters.
THEOREM NoUnitStranded == Spec => []NoUnitWhileWaiting
<1>1. IInv => NoUnitWhileWaiting
  BY DEF IInv, SemInv
<1> QED
  BY <1>1, Inductive, PTL

\* A thread is linked to a semaphore exactly while it is suspended inside
\* rt_sem_take of it.
THEOREM OnlyTakersWait == Spec => []WaitersAreTaking
<1>1. IInv => WaitersAreTaking
  BY DEF IInv, SemInv
<1> QED
  BY <1>1, Inductive, PTL

\* The lists, the bitmap, the stat of every thread and the thread timers agree:
\* no node is linked twice, the bitmap shows exactly the non-empty queues, the
\* idle thread is always ready and only suspended threads have timers.
THEOREM KernelSafe == Spec => []KernelInv
<1>1. IInv => KernelInv
  BY DEF IInv
<1> QED
  BY <1>1, Inductive, PTL

\* The scheduling of a system of threads and semaphores is preemptive by
\* priority: whoever executes its own code is the first of the highest queue.
THEOREM PreemptiveScheduling == Spec => []HighestRuns
<1>1. IInv => HighestRuns
  BY DEF IInv
<1> QED
  BY <1>1, Inductive, PTL

-----------------------------------------------------------------------------
(* The refinement.  Count, Asking and Resetting are what Counting puts for  *)
(* the variables of CountingSemaphore.  A unit that has been handed over    *)
(* still counts until the thread's rt_sem_take returns, so that a release   *)
(* to a waiter is a Put and the return of the waiter a Grant.               *)

INSTANCE FiniteSetTheorems

Count == [s \in Sem |-> value[s] + Cardinality(Granted(s))]
Asking == [t \in Thread |-> IF pc[t].op = "take" THEN {pc[t].sem} ELSE {}]
Resetting == [s \in Sem |-> {c.val : c \in {d \in Range(pc) : d.op = "reset" /\ d.sem = s}}]

\* A reset runs with interrupts masked from its begin to its end, so nobody
\* releases, takes or resets meanwhile.
ResetInv ==
    \A t \in Thread : pc[t].op = "reset" => irq = "masked" /\ current = t

\* The threads that have been handed a unit can be counted.
LEMMA GrantedFinite ==
    ASSUME NEW s \in Sem
    PROVE  /\ IsFiniteSet(Granted(s)) /\ Cardinality(Granted(s)) \in Nat
           /\ Granted(s) \subseteq Thread
           /\ Cardinality(Granted(s)) <= Cardinality({t \in Thread : s \in Asking[t]})
<1>1. Granted(s) \subseteq {t \in Thread : s \in Asking[t]}
  BY DEF Granted, Asking
<1>2. IsFiniteSet({t \in Thread : s \in Asking[t]})
  BY ThreadAssumption, FS_Subset
<1> QED
  BY <1>1, <1>2, FS_Subset, FS_CardinalityType, ZenonT(60)

\* When interrupts are not masked nothing is being reset,
LEMMA NothingReset ==
    ASSUME SemInv, ResetInv, irq # "masked"
    PROVE  Resetting = [s \in Sem |-> {}]
<1>1. \A d \in Range(pc) : d.op # "reset"
  BY DEF SemInv, ResetInv, Range
<1> QED
  BY <1>1 DEF Resetting

\* ... and the thread that resets is the only one to do so.
LEMMA OneReset ==
    ASSUME SemInv, ResetInv, NEW t \in Thread, pc[t].op = "reset"
    PROVE  Resetting = [s \in Sem |-> IF s = pc[t].sem THEN {pc[t].val} ELSE {}]
<1>1. \A d \in Range(pc) : d.op = "reset" => d = pc[t]
  BY DEF SemInv, ResetInv, Range
<1>2. pc[t] \in Range(pc)
  BY DEF SemInv, Range
<1>3. ASSUME NEW s \in Sem
      PROVE  {c.val : c \in {d \in Range(pc) : d.op = "reset" /\ d.sem = s}}
                = IF s = pc[t].sem THEN {pc[t].val} ELSE {}
  BY <1>1, <1>2
<1> QED
  BY <1>3 DEF Resetting

\* How a change of one semaphore's value, or of the threads it has granted a
\* unit, shows in Count.
LEMMA CountChange ==
    ASSUME NEW s \in Sem, NEW n,
           \A r \in Sem \ {s} : value'[r] = value[r] /\ Granted(r)' = Granted(r),
           value'[s] + Cardinality(Granted(s)') = n
    PROVE  Count' = [Count EXCEPT ![s] = n]
BY ZenonT(60) DEF Count

LEMMA CountSame ==
    ASSUME UNCHANGED value, \A r \in Sem : Granted(r)' = Granted(r)
    PROVE  UNCHANGED Count
BY DEF Count

\* Only the thread that resets leaves or enters a reset, and it masks and
\* unmasks interrupts as it does.
LEMMA ResetInvStep == IInv /\ ResetInv /\ [Next]_vars => ResetInv'
<1> SUFFICES ASSUME IInv, ResetInv, [Next]_vars PROVE ResetInv'
  OBVIOUS
<1>1. pc \in [Thread -> Calls]
  BY DEF IInv, SemInv
<1>2. CASE KernelStep /\ UNCHANGED semVars
  <2>1. irq # "masked" /\ UNCHANGED pc
    BY <1>2 DEF KernelStep, Tick, TickBegin, TimerExpire, Schedule, TimerCheckDone, semVars
  <2> QED
    BY <2>1 DEF ResetInv
<1>3. ASSUME NEW t \in Thread \ {Idle}, SemCall(t) PROVE ResetInv'
  <2>1. CASE \/ \E s \in Sem : TakeAvailable(t, s) \/ Release(t, s)
             \/ \E s \in Sem, time \in Delay \cup {Forever} : TakeWait(t, s, time)
             \/ TakeReturn(t)
    <3>1. irq # "masked" /\ \/ UNCHANGED pc
                            \/ \E s \in Sem : Goto(t, [op |-> "take", sem |-> s])
                            \/ Goto(t, App)
      BY <2>1, ZenonT(60) DEF TakeAvailable, Release, TakeWait, TakeReturn
    <3> QED
      BY <1>1, <3>1 DEF ResetInv, Goto, App
  <2>2. ASSUME NEW s \in Sem, NEW n \in 0 .. MaxValue, ResetBegin(t, s, n) PROVE ResetInv'
    BY <1>1, <2>2 DEF ResetBegin, ResetInv, Goto, At
  <2>3. CASE ResetResume(t)
    BY <2>3 DEF ResetResume, ResetInv
  <2>4. CASE ResetEnd(t)
    BY <1>1, <2>4 DEF ResetEnd, ResetInv, Goto, App, At
  <2> QED
    BY <1>3, <2>1, <2>2, <2>3, <2>4, ZenonT(60) DEF SemCall
<1>4. ASSUME NEW s \in Sem, ReleaseFromISR(s) PROVE ResetInv'
  BY <1>4 DEF ReleaseFromISR, ResetInv
<1>5. CASE UNCHANGED vars
  BY <1>5 DEF vars, kernelVars, ResetInv
<1> QED
  BY <1>2, <1>3, <1>4, <1>5, ZenonT(60) DEF Next

\* The steps of the kernel, its time-outs included, grant nothing and take
\* nothing back.
LEMMA KernelStutters ==
    ASSUME IInv, KernelStep, UNCHANGED semVars
    PROVE  UNCHANGED <<Count, Asking, Resetting>>
<1>1. UNCHANGED <<value, pc>>
  BY DEF semVars
<1>2. \A u \in Thread : Kept(u) \/ TimedOut(u)
  BY KernelStepWaiters DEF IInv
<1>3. \A s \in Sem : Granted(s)' = Granted(s)
  BY <1>1, <1>2 DEF Granted, Kept, TimedOut, Woken
<1>4. UNCHANGED Count
  BY <1>1, <1>3, CountSame
<1> QED
  BY <1>1, <1>4 DEF Asking, Resetting

\* A take of an available unit is a Grant,
LEMMA TakeAvailableGrants ==
    ASSUME IInv, NEW t \in Thread, NEW s \in Sem, TakeAvailable(t, s)
    PROVE  Counting!Grant(t, s)
<1>1. /\ value[s] > 0 /\ value' = [value EXCEPT ![s] = @ - 1]
      /\ pc[t].op = "app" /\ UNCHANGED <<pc, error, stat>>
  BY DEF TakeAvailable, At, kernelVars
<1>2. value \in [Sem -> 0 .. MaxValue] /\ pc \in [Thread -> Calls]
  BY DEF IInv, SemInv
<1>3. \A r \in Sem : Granted(r)' = Granted(r)
  BY <1>1 DEF Granted
<1>4. Cardinality(Granted(s)) \in Nat
  BY GrantedFinite, ZenonT(60)
<1>5. value'[s] + Cardinality(Granted(s)') = Count[s] - 1 /\ Count[s] > 0
  BY <1>1, <1>2, <1>3, <1>4, ValueAssumption DEF Count
<1>6. Count' = [Count EXCEPT ![s] = @ - 1]
  BY <1>1, <1>2, <1>3, <1>5, CountChange, ZenonT(60)
<1>7. Asking[t] = {} /\ Asking' = [Asking EXCEPT ![t] = {}]
  BY <1>1, ZenonT(60) DEF Asking
<1>8. UNCHANGED Resetting
  BY <1>1 DEF Resetting
<1> QED
  BY <1>5, <1>6, <1>7, <1>8, ZenonT(60) DEF Counting!Grant, Count, Asking, Resetting

\* ... a take that has to wait is an Ask,
LEMMA TakeWaitAsks ==
    ASSUME IInv, ResetInv, NEW t \in Thread, NEW s \in Sem, NEW time, TakeWait(t, s, time)
    PROVE  Counting!Ask(t, s)
<1>1. /\ pc[t].op = "app" /\ irq = "on" /\ UNCHANGED value
      /\ pc' = [pc EXCEPT ![t] = [op |-> "take", sem |-> s]]
      /\ error' = [error EXCEPT ![t] = "EOK"] /\ stat' = [stat EXCEPT ![t] = "SUSPEND"]
  BY ZenonT(60) DEF TakeWait, At, Goto, SuspendOn
<1>2. /\ pc \in [Thread -> Calls] /\ SemInv
      /\ error \in [Thread -> Error] /\ stat \in [Thread -> Stat]
  BY DEF IInv, SemInv, KernelInv, KernelTypeOK
<1>3. \A r \in Sem : Granted(r)' = Granted(r)
  BY <1>1, <1>2 DEF Granted
<1>4. UNCHANGED Count
  BY <1>1, <1>3, CountSame
<1>5. Asking[t] = {} /\ Asking' = [Asking EXCEPT ![t] = {s}]
  BY <1>1, <1>2, ZenonT(60) DEF Asking
<1>6. UNCHANGED Resetting
  <2>1. \A d \in Range(pc) \cup Range(pc') : d.op # "reset"
    BY <1>1, <1>2 DEF ResetInv, Range
  <2> QED
    BY <2>1 DEF Resetting
<1> QED
  BY <1>4, <1>5, <1>6, ZenonT(60) DEF Counting!Ask, Count, Asking, Resetting

\* ... and its return is a Grant when a unit was handed over, and gives up
\* when it was woken by its timer or by a reset.
LEMMA TakeReturnEnds ==
    ASSUME IInv, ResetInv, NEW t \in Thread, TakeReturn(t)
    PROVE  Counting!GiveUp(t) \/ \E s \in Sem : Counting!Grant(t, s)
<1>1. /\ pc[t].op = "take" /\ At(t, "take") /\ irq = "on" /\ pc' = [pc EXCEPT ![t] = App]
      /\ UNCHANGED <<value, error, stat>>
  BY DEF TakeReturn, At, Goto, kernelVars
<1>2. pc \in [Thread -> Calls] /\ SemInv /\ value \in [Sem -> 0 .. MaxValue]
  BY DEF IInv, SemInv
<1>3. PICK s \in Sem : s = pc[t].sem
  BY <1>1, <1>2, CallFacts
<1>4. Asking[t] = {s} /\ Asking' = [Asking EXCEPT ![t] = {}]
  BY <1>1, <1>2, <1>3, ZenonT(60) DEF Asking, App
<1>5. UNCHANGED Resetting
  <2>1. \A d \in Range(pc) \cup Range(pc') : d.op # "reset"
    BY <1>1, <1>2 DEF ResetInv, Range, App
  <2> QED
    BY <2>1 DEF Resetting
<1>6. \A r \in Sem \ {s} : Granted(r)' = Granted(r)
  BY <1>1, <1>2, <1>3 DEF Granted, App
<1>7. CASE error[t] = "EOK"
  <2>1. t \in Granted(s) /\ Granted(s)' = Granted(s) \ {t}
    <3>1. stat[t] = "READY"
      BY <1>1, RunnerFacts DEF IInv
    <3> QED
      BY <1>1, <1>2, <1>3, <1>7, <3>1, ZenonT(60) DEF Granted, App
  <2>2. IsFiniteSet(Granted(s)) /\ Cardinality(Granted(s)) \in Nat
    BY <1>3, GrantedFinite, ZenonT(60)
  <2>3. Cardinality(Granted(s)') = Cardinality(Granted(s)) - 1 /\ Cardinality(Granted(s)') \in Nat
    <3>1. Cardinality(Granted(s) \ {t}) = Cardinality(Granted(s)) - 1
      BY <2>1, <2>2, FS_RemoveElement, ZenonT(60)
    <3>2. IsFiniteSet(Granted(s) \ {t})
      BY <2>2, FS_RemoveElement
    <3>3. Cardinality(Granted(s) \ {t}) \in Nat
      BY <3>2, FS_CardinalityType
    <3> QED
      BY <2>1, <3>1, <3>3
  <2>4. Count[s] > 0 /\ value'[s] + Cardinality(Granted(s)') = Count[s] - 1
    BY <1>1, <1>2, <1>3, <2>2, <2>3, ValueAssumption DEF Count
  <2>5. Count' = [Count EXCEPT ![s] = @ - 1]
    BY <1>1, <1>3, <1>6, <2>4, CountChange, ZenonT(60)
  <2>6. Counting!Grant(t, s)
    BY <1>4, <1>5, <2>4, <2>5, ZenonT(60) DEF Counting!Grant, Count, Asking, Resetting
  <2> QED
    BY <1>3, <2>6, ZenonT(60)
<1>8. CASE error[t] # "EOK"
  <2>1. \A r \in Sem : Granted(r)' = Granted(r)
    BY <1>1, <1>2, <1>8 DEF Granted, App
  <2>2. UNCHANGED Count
    BY <1>1, <2>1, CountSame
  <2> QED
    BY <1>4, <1>5, <2>2, ZenonT(60) DEF Counting!GiveUp, Count, Asking, Resetting
<1> QED
  BY <1>7, <1>8

\* A release is a Put, whether it raises the value or wakes the first waiter.
LEMMA ReleasePuts ==
    ASSUME IInv, ResetInv, NEW s \in Sem, ReleaseSection(s), irq = "on",
           UNCHANGED <<current_priority, error, irq, pc>>
    PROVE  Counting!Put(s)
<1>1. SemInv /\ value \in [Sem -> 0 .. MaxValue] /\ pc \in [Thread -> Calls]
  BY DEF IInv, SemInv
<1>2. Resetting[s] = {} /\ UNCHANGED <<Asking, Resetting>>
  BY <1>1, NothingReset DEF Asking, Resetting
<1>3. IsFiniteSet(Granted(s)) /\ Cardinality(Granted(s)) \in Nat
  BY GrantedFinite, ZenonT(60)
<1>4. Count' = [Count EXCEPT ![s] = @ + 1]
  <2>1. CASE list[s] # <<>>
    <3> DEFINE w == Head(list[s])
    <3>1. /\ ResumeThread(w) /\ UNCHANGED value
          /\ delay' = [delay EXCEPT ![w] = Off]
      BY <2>1 DEF ReleaseSection
    <3>2. w \in Thread /\ w \in Range(list[s]) /\ stat[w] = "SUSPEND"
      <4>1. QueuesOK
        BY InvParts DEF IInv
      <4>2. w \in Thread /\ w \in Range(list[s])
        BY <2>1, <4>1, ListFacts, HeadInRange, Heads, ZenonT(60) DEF QueuesOK, Queues, Sem
      <4> QED
        BY <4>1, <4>2 DEF QueuesOK, Queues, Sem
    <3>3. error[w] = "EOK" /\ pc[w].op = "take" /\ pc[w].sem = s
      BY <1>1, <3>2 DEF SemInv, WaitersAreTaking, WaiterErrorClear
    <3>4. stat' = [stat EXCEPT ![w] = "READY"] /\ stat \in [Thread -> Stat]
      BY <3>1, ZenonT(60) DEF ResumeThread, IInv, KernelInv, KernelTypeOK
    <3> HIDE DEF w
    <3>5. /\ w \notin Granted(s) /\ Granted(s)' = Granted(s) \cup {w}
          /\ \A r \in Sem \ {s} : Granted(r)' = Granted(r)
      BY <3>2, <3>3, <3>4 DEF Granted
    <3>6. Cardinality(Granted(s)') = Cardinality(Granted(s)) + 1
      BY <1>3, <3>5, FS_AddElement, ZenonT(60)
    <3>7. value'[s] + Cardinality(Granted(s)') = Count[s] + 1
      BY <1>1, <1>3, <3>1, <3>6, ValueAssumption DEF Count
    <3> QED
      BY <3>1, <3>5, <3>7, CountChange, ZenonT(60)
  <2>2. CASE list[s] = <<>>
    <3>1. value' = [value EXCEPT ![s] = @ + 1] /\ UNCHANGED stat
      BY <2>2 DEF ReleaseSection
    <3>2. \A r \in Sem : Granted(r)' = Granted(r)
      BY <3>1 DEF Granted
    <3>3. value'[s] + Cardinality(Granted(s)') = Count[s] + 1
      BY <1>1, <1>3, <3>1, <3>2, ValueAssumption DEF Count
    <3> QED
      BY <1>1, <3>1, <3>2, <3>3, CountChange, ZenonT(60)
  <2> QED
    BY <2>1, <2>2
<1> QED
  BY <1>2, <1>4, ZenonT(60) DEF Counting!Put, Count, Asking, Resetting

\* A reset begins,
LEMMA ResetBeginBegins ==
    ASSUME IInv, ResetInv, NEW t \in Thread, NEW s \in Sem, NEW n \in 0 .. MaxValue,
           ResetBegin(t, s, n)
    PROVE  Counting!ResetBegin(s, n)
<1>1. /\ pc[t].op = "app" /\ irq = "on" /\ UNCHANGED <<value, error, stat>>
      /\ pc' = [pc EXCEPT ![t] = [op |-> "reset", sem |-> s, val |-> n]]
  BY DEF ResetBegin, At, Goto
<1>2. pc \in [Thread -> Calls] /\ SemInv
  BY DEF IInv, SemInv
<1>3. \A r \in Sem : Granted(r)' = Granted(r)
  BY <1>1, <1>2 DEF Granted
<1>4. UNCHANGED Count
  BY <1>1, <1>3, CountSame
<1>5. UNCHANGED Asking
  BY <1>1, <1>2 DEF Asking
<1>6. Resetting' = [Resetting EXCEPT ![s] = {n}]
  <2>1. Range(pc') \subseteq Range(pc) \cup {[op |-> "reset", sem |-> s, val |-> n]}
    BY <1>1, <1>2 DEF Range
  <2>2. [op |-> "reset", sem |-> s, val |-> n] \in Range(pc')
    BY <1>1, <1>2 DEF Range
  <2>3. Resetting' = [r \in Sem |-> IF r = s THEN {n} ELSE {}]
    <3>1. \A d \in Range(pc) : d.op # "reset"
      BY <1>1, <1>2 DEF ResetInv, Range
    <3>2. ASSUME NEW r \in Sem
          PROVE  {c.val : c \in {d \in Range(pc') : d.op = "reset" /\ d.sem = r}}
                    = IF r = s THEN {n} ELSE {}
      BY <2>1, <2>2, <3>1
    <3> QED
      BY <3>2 DEF Resetting
  <2>4. Resetting = [r \in Sem |-> {}]
    BY <1>1, <1>2, NothingReset
  <2> QED
    BY <2>3, <2>4, ZenonT(60)
<1> QED
  BY <1>4, <1>5, <1>6, ZenonT(60) DEF Counting!ResetBegin, Count, Asking, Resetting

\* ... the threads it wakes have no unit,
LEMMA ResetResumeStutters ==
    ASSUME IInv, NEW t \in Thread, ResetResume(t)
    PROVE  UNCHANGED <<Count, Asking, Resetting>>
<1> DEFINE w == Head(list[pc[t].sem])
<1>1. /\ pc[t].op = "reset" /\ list[pc[t].sem] # <<>> /\ UNCHANGED <<value, pc>>
      /\ error' = [error EXCEPT ![w] = "ERROR"] /\ stat' = [stat EXCEPT ![w] = "READY"]
  BY ZenonT(60) DEF ResetResume, At, ResumeThread
<1>2. QueuesOK /\ SemInv /\ error \in [Thread -> Error] /\ stat \in [Thread -> Stat]
  BY InvParts DEF IInv, KernelInv, KernelTypeOK
<1>3. pc[t].sem \in Sem
  BY <1>1, <1>2, CallFacts, ZenonT(60) DEF SemInv
<1>4. w \in Thread /\ w \in Range(list[pc[t].sem])
  BY <1>1, <1>2, <1>3, ListFacts, HeadInRange, Heads, ZenonT(60) DEF QueuesOK, Queues, Sem
<1>5. stat[w] = "SUSPEND"
  BY <1>2, <1>3, <1>4 DEF QueuesOK, Queues, Sem
<1> HIDE DEF w
<1>6. \A s \in Sem : Granted(s)' = Granted(s)
  BY <1>1, <1>2, <1>4, <1>5 DEF Granted
<1>7. UNCHANGED Count
  BY <1>1, <1>6, CountSame
<1> QED
  BY <1>1, <1>7 DEF Asking, Resetting

\* ... and when it ends, what is left beside its value are the units handed
\* over before it.
LEMMA ResetEndEnds ==
    ASSUME IInv, ResetInv, NEW t \in Thread, ResetEnd(t)
    PROVE  \E s \in Sem : Counting!ResetEnd(s)
<1>1. /\ pc[t].op = "reset" /\ value' = [value EXCEPT ![pc[t].sem] = pc[t].val]
      /\ pc' = [pc EXCEPT ![t] = App] /\ UNCHANGED <<error, stat>>
  BY DEF ResetEnd, At, Goto
<1>2. pc \in [Thread -> Calls] /\ SemInv /\ value \in [Sem -> 0 .. MaxValue]
  BY DEF IInv, SemInv
<1>3. PICK s \in Sem : s = pc[t].sem
  BY <1>1, <1>2, CallFacts
<1>4. PICK n \in 0 .. MaxValue : n = pc[t].val
  BY <1>1, <1>2, CallFacts, ZenonT(60)
<1>5. \A r \in Sem : Granted(r)' = Granted(r)
  BY <1>1, <1>2, ZenonT(60) DEF Granted, App
<1>6. /\ Cardinality(Granted(s)) \in Nat
      /\ Cardinality(Granted(s)) <= Cardinality({u \in Thread : s \in Asking[u]})
  BY GrantedFinite
<1>7. Count' = [Count EXCEPT ![s] = n + Cardinality(Granted(s))]
  <2>1. value'[s] + Cardinality(Granted(s)') = n + Cardinality(Granted(s))
    BY <1>1, <1>2, <1>3, <1>4, <1>5, ZenonT(60)
  <2> QED
    BY <1>1, <1>2, <1>3, <1>5, <2>1, CountChange, ZenonT(60)
<1>8. Cardinality(Granted(s)) \in 0 .. Count[s]
  <2>1. Count[s] = value[s] + Cardinality(Granted(s)) /\ value[s] \in Nat
    BY <1>2, ValueAssumption DEF Count
  <2> QED
    BY <1>6, <2>1
<1>9. UNCHANGED Asking
  BY <1>1, <1>2, ZenonT(60) DEF Asking, App
<1>10. Resetting = [r \in Sem |-> IF r = s THEN {n} ELSE {}]
  BY <1>1, <1>2, <1>3, <1>4, OneReset, ZenonT(60)
<1>11. Resetting' = [r \in Sem |-> {}]
  <2>1. \A d \in Range(pc') : d.op # "reset"
    BY <1>1, <1>2 DEF ResetInv, Range, App
  <2> QED
    BY <2>1 DEF Resetting
<1>12. n \in Resetting[s] /\ Resetting' = [Resetting EXCEPT ![s] = {}]
  BY <1>10, <1>11
<1>13. Counting!ResetEnd(s)
  <2>1. \E m \in Resetting[s], promised \in 0 .. Count[s] :
            /\ promised <= Cardinality({u \in Thread : s \in Asking[u]})
            /\ Count' = [Count EXCEPT ![s] = m + promised]
    BY <1>6, <1>7, <1>8, <1>12, Zenon
  <2>2. \A S : Cardinality(S) = Counting!Cardinality(S)
    BY Zenon DEF Cardinality, Counting!Cardinality
  <2> QED
    BY <1>9, <1>12, <2>1, <2>2, Zenon DEF Counting!ResetEnd, Count, Asking, Resetting
<1> QED
  BY <1>13

\* Every step of the semaphores is a step of the counting semaphore or leaves
\* its state as it is.
LEMMA StepRefines ==
    ASSUME IInv, ResetInv, [Next]_vars
    PROVE  [Counting!Next]_(Counting!vars)
<1>1. CASE KernelStep /\ UNCHANGED semVars
  BY <1>1, KernelStutters DEF Counting!vars, Count, Asking, Resetting
<1>2. ASSUME NEW t \in Thread \ {Idle}, SemCall(t) PROVE [Counting!Next]_(Counting!vars)
  <2>1. ASSUME NEW s \in Sem, TakeAvailable(t, s) PROVE Counting!Next
    BY <2>1, TakeAvailableGrants DEF Counting!Next
  <2>2. ASSUME NEW s \in Sem, NEW time, TakeWait(t, s, time) PROVE Counting!Next
    BY <2>2, TakeWaitAsks DEF Counting!Next
  <2>3. CASE TakeReturn(t)
    BY <2>3, TakeReturnEnds DEF Counting!Next
  <2>4. ASSUME NEW s \in Sem, Release(t, s) PROVE Counting!Next
    <3>1. Counting!Put(s)
      BY <2>4, ReleasePuts DEF Release
    <3> QED
      BY <3>1 DEF Counting!Next
  <2>5. ASSUME NEW s \in Sem, NEW n \in 0 .. MaxValue, ResetBegin(t, s, n) PROVE Counting!Next
    BY <2>5, ResetBeginBegins, ZenonT(60) DEF Counting!Next
  <2>6. CASE ResetResume(t)
    BY <2>6, ResetResumeStutters, ZenonT(60) DEF Counting!vars, Count, Asking, Resetting
  <2>7. CASE ResetEnd(t)
    BY <2>7, ResetEndEnds DEF Counting!Next
  <2> QED
    BY <1>2, <2>1, <2>2, <2>3, <2>4, <2>5, <2>6, <2>7, ZenonT(60) DEF SemCall
<1>3. ASSUME NEW s \in Sem, ReleaseFromISR(s) PROVE Counting!Next
  <2>1. Counting!Put(s)
    BY <1>3, ReleasePuts DEF ReleaseFromISR
  <2> QED
    BY <2>1 DEF Counting!Next
<1>4. CASE UNCHANGED vars
  <2>1. UNCHANGED <<stat, error, value, pc>>
    BY <1>4 DEF vars, kernelVars
  <2>2. \A s \in Sem : Granted(s)' = Granted(s)
    BY <2>1, ZenonT(60) DEF Granted
  <2>3. UNCHANGED <<Count, Asking, Resetting>>
    BY <2>1, <2>2, CountSame DEF Asking, Resetting
  <2> QED
    BY <2>3, ZenonT(60) DEF Counting!vars, Count, Asking, Resetting
<1> QED
  BY <1>1, <1>2, <1>3, <1>4, ZenonT(60) DEF Next

\* The semaphore implements the counting semaphore: for any number of threads
\* and semaphores, however releases, resets, takes and time-outs meet, no unit
\* is lost and none is granted twice.
THEOREM SemaphoreCounts == Spec => ImplementsCounting
<1>1. Init => Counting!Init /\ ResetInv
  <2> SUFFICES ASSUME Init PROVE Counting!Init /\ ResetInv
    OBVIOUS
  <2>1. \A t \in Thread : pc[t].op = "app"
    BY DEF Init, App
  <2>2. pc \in [Thread -> Calls] /\ value = [s \in Sem |-> InitValue]
    BY DEF Init, Calls
  <2>3. \A s \in Sem : Granted(s) = {}
    BY <2>1 DEF Granted
  <2>4. Count = [s \in Sem |-> InitValue]
    BY <2>2, <2>3, FS_EmptySet, ValueAssumption DEF Count
  <2>5. Asking = [t \in Thread |-> {}]
    BY <2>1 DEF Asking
  <2>6. Resetting = [s \in Sem |-> {}]
    <3>1. \A d \in Range(pc) : d.op # "reset"
      BY <2>1, <2>2 DEF Range
    <3> QED
      BY <3>1 DEF Resetting
  <2> QED
    BY <2>1, <2>4, <2>5, <2>6 DEF Counting!Init, Count, Asking, Resetting, ResetInv
<1>2. IInv /\ ResetInv /\ [Next]_vars => [Counting!Next]_(Counting!vars)
  BY StepRefines
<1> QED
  BY <1>1, <1>2, Inductive, ResetInvStep, PTL DEF Spec, ImplementsCounting, Counting!Spec
=============================================================================
