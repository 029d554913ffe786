---------------------------- MODULE ThreadProofs ----------------------------
(***************************************************************************)
(* The thread API, for any number of threads and priorities.  ThreadIndInv *)
(* is inductive: the kernel's own invariant, which the steps of            *)
(* KernelProofs keep, and what holds between the sections of a call.  The  *)
(* other threads run there, and the thread that the call is about must     *)
(* still be where the call left it.                                        *)
(***************************************************************************)
EXTENDS Threads, KernelProofs

\* Where thread t is in its call.
Resuming(t) == call[t].op \in {"unlink", "insert"}
Deleting(t) == call[t].op \in {"del_timer", "del_close"}
Acting(t) == Resuming(t) \/ call[t].op = "suspend" \/ Deleting(t)

Unlinked(u) == \A h \in ListHead : u \notin Range(list[h])

\* What holds between the sections of the call t is in: a thread about to be
\* resumed still waits, without a timer, and is in no list before it is
\* inserted; a caller that suspends or deletes another thread holds the
\* scheduler lock, and the thread it deletes is in no list.
SectionInv(t) ==
    LET u == call[t].arg
    IN  /\ Acting(t) => u # t
        /\ Resuming(t) => stat[u] = "SUSPEND" /\ delay[u] = Off
        /\ call[t].op = "insert" => Unlinked(u)
        /\ call[t].op = "suspend" => stat[u] = "READY"
        /\ Acting(t) /\ ~Resuming(t) => current = t /\ lock_nest > 0 /\ u # Idle
        /\ Deleting(t) => /\ Unlinked(u) /\ delay[u] = Off
                          /\ stat[u] \in {"INIT", "READY", "SUSPEND"}

\* No two threads act on the same thread.
OneActor ==
    \A t, u \in Thread :
        Acting(t) /\ Acting(u) /\ call[t].arg = call[u].arg => t = u

ThreadIndInv ==
    /\ KernelInv /\ HighestRuns
    /\ call \in [Thread -> [op : Call, arg : Thread]]
    /\ \A t \in Thread : SectionInv(t)
    /\ OneActor
    /\ ReadyIsQueued

-----------------------------------------------------------------------------
(* The moves of a node that only the thread API makes.                     *)

\* A thread in no list is not affected by rt_list_remove.
LEMMA RemoveUnlinked ==
    ASSUME QueuesOK, NEW u \in Thread, Unlinked(u)
    PROVE  ListRemove(list, u) = list
<1>1. list \in Lists /\ (\A h \in ListHead : IsInjective(list[h]))
  BY DEF QueuesOK, Queues
<1>2. ListRemove(list, u) \in Lists /\ \A h \in ListHead : ListRemove(list, u)[h] = list[h]
  BY <1>1, ListRemoveLemma DEF Unlinked
<1> QED
  BY <1>1, <1>2 DEF Lists

\* A thread's node leaves its list and the thread keeps its stat.
LEMMA UnlinkStep ==
    ASSUME QueuesOK, NEW u \in Thread, u # Idle, list' = ListRemove(list, u),
           UNCHANGED <<stat, current_priority>>,
           group' = Bits(ListRemove(list, u))
    PROVE  QueuesOK' /\ Moved(list, list', u, {})
<1>1. stat \in [Thread -> Stat] /\ current_priority \in [Thread -> Prio]
  BY DEF QueuesOK, Queues
<1>2. Moved(list, list', u, {})
  BY RemoveMoves DEF QueuesOK
<1>3. Agrees(stat, current_priority, stat', current_priority', u, {})
  BY <1>1 DEF Agrees
<1>4. Queues(stat', current_priority', list', Bits(list'))
  BY <1>2, <1>3, MoveLemma DEF QueuesOK
<1> QED
  BY <1>2, <1>4 DEF QueuesOK

\* A suspended thread's node leaves its wait list; no ready queue changes.
LEMMA UnlinkWaiter ==
    ASSUME QueuesOK, NEW u \in Thread, stat[u] = "SUSPEND", list' = ListRemove(list, u),
           UNCHANGED <<stat, current_priority, group>>
    PROVE  /\ QueuesOK' /\ Moved(list, list', u, {})
           /\ \A p \in Prio : list'[p] = list[p]
<1>1. u # Idle /\ group = Bits(ListRemove(list, u))
  BY RemoveMoves DEF QueuesOK, Queues
<1>2. QueuesOK' /\ Moved(list, list', u, {})
  BY <1>1, UnlinkStep
<1>3. ASSUME NEW p \in Prio
      PROVE  list'[p] = list[p]
  <2>1. u \notin Range(list[p]) /\ p \in ListHead
    BY Heads DEF QueuesOK, Queues
  <2>2. list \in Lists /\ (\A h \in ListHead : IsInjective(list[h]))
    BY DEF QueuesOK, Queues
  <2> QED
    BY <2>1, <2>2, ListRemoveLemma
<1> QED
  BY <1>2, <1>3

\* Where a thread goes that ends.
Grave(u) == IF u \in Static THEN {} ELSE {Defunct}
EndStat(u) == IF u \in Static THEN "NONE" ELSE "CLOSE"

\* A thread leaves its list for the head of the defunct list, or for none.
LEMMA EndStep ==
    ASSUME QueuesOK, NEW u \in Thread, u # Idle,
           stat' = [stat EXCEPT ![u] = EndStat(u)], UNCHANGED current_priority,
           list' = IF u \in Static THEN ListRemove(list, u)
                   ELSE [ListRemove(list, u) EXCEPT ![Defunct] = <<u>> \o @],
           group' = Bits(ListRemove(list, u))
    PROVE  QueuesOK' /\ Moved(list, list', u, Grave(u))
<1> DEFINE M == ListRemove(list, u)
<1>1. stat \in [Thread -> Stat] /\ current_priority \in [Thread -> Prio]
  BY DEF QueuesOK, Queues
<1>2. Moved(list, M, u, {})
  BY RemoveMoves DEF QueuesOK
<1>3. Agrees(stat, current_priority, stat', current_priority', u, Grave(u))
  BY <1>1, Heads DEF Agrees, EndStat, Grave, Stat
<1>4. list' = IF u \in Static THEN M ELSE [M EXCEPT ![Defunct] = <<u>> \o @]
  OBVIOUS
<1>5. group' = Bits(M)
  OBVIOUS
<1> HIDE DEF M
<1>6. M \in Lists /\ Defunct \in ListHead /\ (\A h \in ListHead : IsInjective(M[h]))
      /\ u \notin Range(M[Defunct]) /\ M[Defunct] \in Seq(Thread)
  BY <1>2, Heads, ListFacts DEF Moved
<1>7. CASE u \in Static
  BY <1>2, <1>3, <1>4, <1>5, <1>7, MoveLemma DEF QueuesOK, Grave
<1>8. CASE u \notin Static
  <2> DEFINE s == <<u>> \o M[Defunct]
  <2>1. s \in Seq(Thread) /\ Range(s) = Range(M[Defunct]) \cup {u} /\ IsInjective(s)
    BY <1>6, ConsLemma
  <2>2. list' = [M EXCEPT ![Defunct] = s]
    BY <1>4, <1>8, ZenonT(60)
  <2> HIDE DEF s
  <2>3. /\ list' \in Lists /\ list'[Defunct] = s
        /\ \A h \in ListHead \ {Defunct} : list'[h] = M[h]
    BY <1>6, <2>1, <2>2, ZenonT(60) DEF Lists
  <2>4. Moved(list, list', u, {Defunct})
    BY <1>2, <1>6, <2>1, <2>3, ZenonT(60) DEF Moved
  <2>5. Bits(list') = Bits(M)
    BY <2>3, Heads DEF Bits
  <2>6. Grave(u) = {Defunct}
    BY <1>8 DEF Grave
  <2>7. Queues(stat', current_priority', list', Bits(list'))
    BY <1>3, <2>4, <2>6, MoveLemma DEF QueuesOK
  <2> QED
    BY <1>5, <2>4, <2>5, <2>6, <2>7 DEF QueuesOK
<1> QED
  BY <1>7, <1>8

\* The idle thread frees the first defunct thread.
LEMMA FreeStep ==
    ASSUME QueuesOK, list[Defunct] # <<>>, NEW u, u = Head(list[Defunct]),
           list' = [list EXCEPT ![Defunct] = Tail(@)],
           stat' = [stat EXCEPT ![u] = "NONE"],
           UNCHANGED <<current_priority, group>>
    PROVE  /\ QueuesOK' /\ Moved(list, list', u, {}) /\ u \in Thread /\ stat[u] = "CLOSE"
           /\ \A p \in Prio : list'[p] = list[p]
<1>1. /\ stat \in [Thread -> Stat] /\ current_priority \in [Thread -> Prio]
      /\ list \in Lists /\ group = Bits(list) /\ Defunct \in ListHead
      /\ \A h \in ListHead : IsInjective(list[h])
  BY Heads DEF QueuesOK, Queues
<1>2. list[Defunct] \in Seq(Thread)
  BY <1>1, ListFacts
<1>3. u \in Thread /\ u \in Range(list[Defunct])
  BY <1>2, HeadInRange
<1>4. stat[u] = "CLOSE" /\ u # Idle /\ \A h \in ListHead \ {Defunct} : u \notin Range(list[h])
  BY <1>1, <1>3, ZenonT(60) DEF QueuesOK, Queues
<1>5. /\ Tail(list[Defunct]) \in Seq(Thread) /\ IsInjective(Tail(list[Defunct]))
      /\ Range(Tail(list[Defunct])) = Range(list[Defunct]) \ {u}
  BY <1>1, <1>2, TailLemma
<1>6. /\ list' \in Lists /\ list'[Defunct] = Tail(list[Defunct])
      /\ \A h \in ListHead \ {Defunct} : list'[h] = list[h]
  BY <1>1, <1>5 DEF Lists
<1>7. Moved(list, list', u, {})
  BY <1>1, <1>3, <1>4, <1>5, <1>6 DEF Moved
<1>8. (\A p \in Prio : list'[p] = list[p]) /\ Bits(list') = Bits(list)
  BY <1>6, Heads DEF Bits
<1>9. Agrees(stat, current_priority, stat', current_priority', u, {})
  BY <1>1, <1>3, <1>4 DEF Agrees, Stat
<1>10. Queues(stat', current_priority', list', Bits(list'))
  BY <1>3, <1>7, <1>9, MoveLemma DEF QueuesOK
<1> QED
  BY <1>1, <1>3, <1>4, <1>7, <1>8, <1>10 DEF QueuesOK

\* rt_schedule finds the same thread when no ready queue changes.
LEMMA SameHighest ==
    ASSUME QueuesOK, UNCHANGED group, \A p \in Prio : list'[p] = list[p]
    PROVE  Highest(list', group') = Highest(list, group)
<1>1. group \in SUBSET Nat /\ group \subseteq Prio /\ group # {}
  BY ListFacts, Heads, ZenonT(60) DEF QueuesOK, Queues, Bits
<1>2. Min(group) \in Prio
  BY <1>1, MinOfNats, ZenonT(60)
<1> QED
  BY <1>2 DEF Highest

-----------------------------------------------------------------------------
(* What a step of one thread means for the calls of the others.            *)

Queued(u) == u \in Range(list[current_priority[u]])

\* A step that leaves what other calls rely on about u.
Steady(u) ==
    /\ stat'[u] = stat[u]
    /\ delay[u] = Off => delay'[u] = Off
    /\ Unlinked(u) => Unlinked(u)'

\* The call of t is not disturbed by a step that leaves its thread alone.
LEMMA SectionKept ==
    ASSUME NEW t \in Thread, SectionInv(t), call'[t] = call[t],
           Acting(t) => Steady(call[t].arg),
           Acting(t) /\ ~Resuming(t) => current' = current /\ lock_nest' > 0
    PROVE  SectionInv(t)'
BY DEF SectionInv, Acting, Resuming, Deleting, Steady

\* The types, and what a thread that runs may rely on.
LEMMA RunFacts ==
    ASSUME ThreadIndInv, NEW t \in Thread, Runs(t)
    PROVE  /\ QueuesOK /\ Rest /\ HighestRuns /\ current = t /\ irq = "on" /\ t \notin resched
           /\ stat[t] = "READY" /\ Queued(t) /\ delay[t] = Off
           /\ stat \in [Thread -> Stat] /\ current_priority \in [Thread -> Prio]
           /\ call \in [Thread -> [op : Call, arg : Thread]]
           /\ call[t].arg \in Thread
           /\ \A x \in Thread \ {t} : Acting(x) => Resuming(x)
<1>1. QueuesOK /\ Rest
  BY InvParts DEF ThreadIndInv
<1>2. /\ stat \in [Thread -> Stat] /\ current_priority \in [Thread -> Prio]
      /\ call \in [Thread -> [op : Call, arg : Thread]]
  BY <1>1 DEF QueuesOK, Queues, ThreadIndInv
<1>3. current = t /\ irq = "on" /\ t \notin resched /\ HighestRuns
  BY DEF Runs, ThreadIndInv
<1>4. stat[t] = "READY" /\ Queued(t) /\ delay[t] = Off
  BY <1>1, <1>3 DEF Rest, RunningIsReady, TimerImpliesSuspended, Queued
<1>5. \A x \in Thread \ {t} : Acting(x) => Resuming(x)
  BY <1>3 DEF ThreadIndInv, SectionInv
<1>6. call[t].arg \in Thread
  BY <1>2
<1> QED
  BY <1>1, <1>2, <1>3, <1>4, <1>5, <1>6

\* Only w's stat, priority, timer and place change.
Touched(w) ==
    \A u \in Thread \ {w} :
        /\ stat'[u] = stat[u] /\ current_priority'[u] = current_priority[u]
        /\ delay'[u] = delay[u]
        /\ \A h \in ListHead : u \in Range(list'[h]) <=> u \in Range(list[h])

LEMMA MovedTouched ==
    ASSUME NEW w \in Thread, NEW to, Moved(list, list', w, to),
           \A u \in Thread \ {w} : /\ stat'[u] = stat[u]
                                   /\ current_priority'[u] = current_priority[u]
                                   /\ delay'[u] = delay[u]
    PROVE  Touched(w)
BY DEF Touched, Moved

LEMMA TouchedSteady ==
    ASSUME NEW w \in Thread, Touched(w), current_priority \in [Thread -> Prio]
    PROVE  \A u \in Thread \ {w} : Steady(u) /\ (Queued(u) => Queued(u)')
<1>1. \A u \in Thread : current_priority[u] \in ListHead
  BY Heads, ZenonT(60)
<1> QED
  BY <1>1 DEF Touched, Steady, Queued, Unlinked

\* What the step does to w agrees with w's timer and, when w runs, with that.
FitsTimer(w) ==
    /\ delay'[w] # Off => stat'[w] = "SUSPEND"
    /\ delay'[w] # 0

FitsRunner(w) ==
    \/ w # current
    \/ stat'[w] # "READY" /\ w \in resched' /\ lock_nest' = 0
    \/ stat'[w] = "READY" /\ Queued(w)'

Types ==
    /\ lock_nest' \in Nat
    /\ delay' \in [Thread -> {Off} \cup 0 .. MaxDelay]
    /\ error' \in [Thread -> Error]
    /\ remaining_tick' \in [Thread -> 1 .. Slice]
    /\ resched' \in SUBSET Thread

\* A step of a running thread keeps the kernel's invariant.
LEMMA RunnerKernel ==
    ASSUME ThreadIndInv, NEW t \in Thread, Runs(t), NEW w \in Thread,
           QueuesOK', Touched(w), FitsTimer(w), FitsRunner(w), Types,
           UNCHANGED <<current, irq>>
    PROVE  KernelInv'
<1>1. /\ QueuesOK /\ Rest /\ current = t /\ irq = "on"
      /\ stat[t] = "READY" /\ Queued(t) /\ current_priority \in [Thread -> Prio]
  BY RunFacts
<1>2. TimerImpliesSuspended'
  BY <1>1 DEF Rest, TimerImpliesSuspended, FitsTimer, Touched
<1>3. RunningIsReady'
  <2>1. CASE w # current
    <3>1. stat'[current] = "READY" /\ Queued(current)'
      BY <1>1, <2>1, TouchedSteady DEF Steady
    <3> QED
      BY <3>1 DEF RunningIsReady, Queued
  <2>2. CASE w = current
    BY <2>2 DEF FitsRunner, RunningIsReady, Queued
  <2> QED
    BY <2>1, <2>2
<1>4. Rest'
  BY <1>1, <1>2, <1>3 DEF Rest, Types
<1> QED
  BY <1>4, InvPartsNext

\* A thread whose timer is not running fits any state.
LEMMA OffTimer ==
    ASSUME NEW w, delay'[w] = Off
    PROVE  FitsTimer(w)
BY DEF FitsTimer, Off

\* While the scheduler is locked nobody is promised to run.
LEMMA LockedRuns ==
    ASSUME lock_nest > 0, lock_nest' = lock_nest
    PROVE  HighestRuns'
BY DEF HighestRuns

\* A step in which c's call goes on and w is the thread touched.
LEMMA RunnerStep ==
    ASSUME ThreadIndInv, NEW t \in Thread, Runs(t), NEW c \in Thread, NEW w \in Thread,
           c = t \/ ~Acting(t),
           KernelInv', HighestRuns', Touched(w),
           call' \in [Thread -> [op : Call, arg : Thread]],
           \A x \in Thread \ {c} : call'[x] = call[x],
           \A x \in Thread \ {c} : Acting(x) /\ call[x].arg = w => Steady(w),
           SectionInv(c)',
           Acting(c)' => \A x \in Thread \ {c} : Acting(x) => call[x].arg # call'[c].arg,
           Deleting(c) => \/ call[c].arg = w
                          \/ Deleting(c)' /\ call'[c].arg = call[c].arg,
           stat'[w] = "READY" => Queued(w)' \/ (Deleting(c)' /\ call'[c].arg = w)
    PROVE  ThreadIndInv'
<1>1. /\ current_priority \in [Thread -> Prio]
      /\ call \in [Thread -> [op : Call, arg : Thread]]
      /\ \A x \in Thread \ {c} : Acting(x) => Resuming(x)
  BY RunFacts DEF Acting
<1>2. \A u \in Thread \ {w} : Steady(u) /\ (Queued(u) => Queued(u)')
  BY <1>1, TouchedSteady
<1>3. ASSUME NEW x \in Thread
      PROVE  SectionInv(x)'
  <2>1. CASE x = c
    BY <2>1
  <2>2. CASE x # c
    <3>1. call[x].arg \in Thread
      BY <1>1
    <3>2. Acting(x) => Steady(call[x].arg)
      BY <1>2, <2>2, <3>1
    <3>3. SectionInv(x) /\ call'[x] = call[x]
      BY <2>2 DEF ThreadIndInv
    <3> QED
      BY <1>1, <2>2, <3>2, <3>3, SectionKept
  <2> QED
    BY <2>1, <2>2
<1>4. \A x \in Thread \ {c} : Acting(x)' = Acting(x) /\ Deleting(x)' = Deleting(x)
  BY DEF Acting, Resuming, Deleting
<1>5. OneActor'
  BY <1>4 DEF OneActor, ThreadIndInv
<1>6. ReadyIsQueued'
  <2> SUFFICES ASSUME NEW u \in Thread, stat'[u] = "READY"
               PROVE  Queued(u)' \/ \E x \in Thread : Deleting(x)' /\ call'[x].arg = u
    BY DEF ReadyIsQueued, Queued, Deleting
  <2>1. CASE u = w
    BY <2>1
  <2>2. CASE u # w
    <3>1. stat[u] = "READY" /\ (Queued(u) => Queued(u)')
      BY <1>2, <2>2 DEF Steady
    <3>2. Queued(u) \/ \E x \in Thread : Deleting(x) /\ call[x].arg = u
      BY <3>1 DEF ThreadIndInv, ReadyIsQueued, Queued, Deleting
    <3>3. ASSUME NEW x \in Thread, Deleting(x), call[x].arg = u
          PROVE  Deleting(x)' /\ call'[x].arg = u
      BY <1>4, <2>2, <3>3
    <3> QED
      BY <3>1, <3>2, <3>3
  <2> QED
    BY <2>1, <2>2
<1> QED
  BY <1>3, <1>5, <1>6 DEF ThreadIndInv

\* Nobody else acts on the thread that runs, on the thread its own call is
\* about, or on a thread that is not busy.
LEMMA NobodyElse ==
    ASSUME ThreadIndInv, NEW t \in Thread, Runs(t)
    PROVE  /\ \A x \in Thread \ {t} : Acting(x) => call[x].arg # t
           /\ Acting(t) => \A x \in Thread \ {t} : Acting(x) => call[x].arg # call[t].arg
           /\ \A u \in Thread : ~Busy(u) => \A x \in Thread : Acting(x) => call[x].arg # u
           /\ \A u \in Thread : stat[u] # "SUSPEND" =>
                 \A x \in Thread \ {t} : Acting(x) => call[x].arg # u
<1>1. /\ stat[t] = "READY"
      /\ \A x \in Thread \ {t} : Acting(x) => Resuming(x)
  BY RunFacts
<1>2. \A x \in Thread : SectionInv(x)
  BY DEF ThreadIndInv
<1>3. \A x \in Thread \ {t} : Acting(x) => stat[call[x].arg] = "SUSPEND"
  BY <1>1, <1>2 DEF SectionInv
<1>4. \A x \in Thread : Acting(x) => call[x].arg # x /\ call[x].op # "app"
  BY <1>2 DEF SectionInv, Acting, Resuming, Deleting
<1>5. Acting(t) => \A x \in Thread \ {t} : Acting(x) => call[x].arg # call[t].arg
  BY DEF ThreadIndInv, OneActor
<1> QED
  BY <1>1, <1>3, <1>4, <1>5 DEF Busy

\* The entry of t's call after the step.
LEMMA CallEntry ==
    ASSUME call \in [Thread -> [op : Call, arg : Thread]],
           NEW t \in Thread, NEW op \in Call, NEW u \in Thread, GotoCall(t, op, u)
    PROVE  /\ call' \in [Thread -> [op : Call, arg : Thread]]
           /\ call'[t] = [op |-> op, arg |-> u]
           /\ call'[t].op = op /\ call'[t].arg = u
           /\ \A x \in Thread \ {t} : call'[x] = call[x]
BY DEF GotoCall

\* A thread outside a call that acts on others has nothing to show.
LEMMA IdleSection ==
    ASSUME NEW c \in Thread, call'[c].op \in {"app", "sleep"}
    PROVE  SectionInv(c)' /\ ~Acting(c)' /\ ~Deleting(c)'
BY DEF SectionInv, Acting, Resuming, Deleting

\* A thread in no list, whose stat or priority change.
LEMMA RestatStep ==
    ASSUME QueuesOK, NEW u \in Thread, stat[u] \in {"NONE", "INIT"}, UNCHANGED <<list, group>>,
           NEW s \in Stat, stat' = [stat EXCEPT ![u] = s],
           NEW p \in Prio, current_priority' = [current_priority EXCEPT ![u] = p]
    PROVE  QueuesOK' /\ Moved(list, list', u, {}) /\ Unlinked(u)
<1>1. /\ stat \in [Thread -> Stat] /\ current_priority \in [Thread -> Prio] /\ u # Idle
      /\ list \in Lists /\ group = Bits(list) /\ (\A h \in ListHead : IsInjective(list[h]))
  BY DEF QueuesOK, Queues
<1>2. Unlinked(u)
  <2>1. ASSUME NEW h \in ListHead, u \in Range(list[h])
        PROVE  FALSE
    BY <2>1 DEF QueuesOK, Queues, ListHead
  <2> QED
    BY <2>1 DEF Unlinked
<1>3. Moved(list, list', u, {})
  BY <1>1, <1>2 DEF Moved, Unlinked
<1>4. Agrees(stat, current_priority, stat', current_priority', u, {})
  BY <1>1 DEF Agrees
<1>5. Queues(stat', current_priority', list', Bits(list'))
  BY <1>3, <1>4, MoveLemma DEF QueuesOK
<1> QED
  BY <1>1, <1>2, <1>3, <1>5 DEF QueuesOK

-----------------------------------------------------------------------------
(* The calls.                                                              *)

\* rt_thread_create.
LEMMA CreateInv ==
    ASSUME ThreadIndInv, NEW t \in Thread, NEW u \in Thread, Create(t, u)
    PROVE  ThreadIndInv'
<1>1. /\ Runs(t) /\ call[t].op = "app" /\ stat[u] = "NONE"
      /\ UNCHANGED <<list, group, current, lock_nest, delay, irq>>
      /\ stat' = [stat EXCEPT ![u] = "INIT"]
      /\ current_priority' = [current_priority EXCEPT ![u] = InitPrio[u]]
      /\ error' = [error EXCEPT ![u] = "EOK"]
      /\ remaining_tick' = [remaining_tick EXCEPT ![u] = Slice]
      /\ resched' = resched \ {u}
      /\ GotoCall(u, "app", u)
  BY DEF Create, AtCall, GotoCall
<1>2. /\ QueuesOK /\ Rest /\ HighestRuns /\ current = t /\ t # u /\ InitPrio[u] \in Prio
      /\ stat \in [Thread -> Stat] /\ current_priority \in [Thread -> Prio]
      /\ call \in [Thread -> [op : Call, arg : Thread]]
      /\ delay[u] = Off
  BY <1>1, RunFacts, PrioAssumption DEF Rest, TimerImpliesSuspended
<1>3. QueuesOK' /\ Moved(list, list', u, {})
  BY <1>1, <1>2, RestatStep, ZenonT(60) DEF Stat
<1>4. Touched(u) /\ stat'[u] = "INIT"
  BY <1>1, <1>2, <1>3, MovedTouched
<1>5. Types
  BY <1>1, <1>2, TimeAssumption DEF Types, Rest, Error
<1>6. KernelInv'
  BY <1>1, <1>2, <1>3, <1>4, <1>5, OffTimer, RunnerKernel, ZenonT(60) DEF FitsRunner
<1>7. HighestRuns'
  BY <1>1, <1>2 DEF HighestRuns
<1>8. /\ call' \in [Thread -> [op : Call, arg : Thread]]
      /\ call'[u].op = "app" /\ \A x \in Thread \ {u} : call'[x] = call[x]
  BY <1>1, <1>2, CallEntry, ZenonT(60) DEF Call
<1>9. SectionInv(u)' /\ ~Acting(u)' /\ ~Acting(t)
  BY <1>1, <1>8, IdleSection DEF Acting, Resuming, Deleting
<1>10. ~Deleting(u) /\ \A x \in Thread : Acting(x) => call[x].arg # u
  BY <1>1, <1>2, <1>9, RunFacts, NobodyElse DEF Acting, Resuming, Deleting
<1> QED
  BY <1>1, <1>4, <1>6, <1>7, <1>8, <1>9, <1>10, RunnerStep

\* rt_thread_startup.
LEMMA StartupInv ==
    ASSUME ThreadIndInv, NEW t \in Thread, NEW u \in Thread, ~Busy(u), Startup(t, u)
    PROVE  ThreadIndInv'
<1>1. /\ Runs(t) /\ call[t].op = "app" /\ stat[u] = "INIT"
      /\ UNCHANGED <<list, group, current, lock_nest, delay, error, remaining_tick, irq, resched>>
      /\ stat' = [stat EXCEPT ![u] = "SUSPEND"]
      /\ current_priority' = [current_priority EXCEPT ![u] = InitPrio[u]]
      /\ GotoCall(t, "unlink", u)
  BY DEF Startup, AtCall
<1>2. /\ QueuesOK /\ Rest /\ HighestRuns /\ current = t /\ t # u /\ InitPrio[u] \in Prio
      /\ stat \in [Thread -> Stat] /\ current_priority \in [Thread -> Prio]
      /\ call \in [Thread -> [op : Call, arg : Thread]]
      /\ delay[u] = Off
  BY <1>1, RunFacts, PrioAssumption DEF Rest, TimerImpliesSuspended
<1>3. QueuesOK' /\ Moved(list, list', u, {})
  BY <1>1, <1>2, RestatStep, ZenonT(60) DEF Stat
<1>4. Touched(u) /\ stat'[u] = "SUSPEND" /\ delay'[u] = Off
  BY <1>1, <1>2, <1>3, MovedTouched
<1>5. Types
  BY <1>1, <1>2 DEF Types, Rest
<1>6. KernelInv'
  BY <1>1, <1>2, <1>3, <1>4, <1>5, OffTimer, RunnerKernel, ZenonT(60) DEF FitsRunner
<1>7. HighestRuns'
  BY <1>1, <1>2 DEF HighestRuns
<1>8. /\ call' \in [Thread -> [op : Call, arg : Thread]]
      /\ call'[t].op = "unlink" /\ call'[t].arg = u
      /\ \A x \in Thread \ {t} : call'[x] = call[x]
  BY <1>1, <1>2, CallEntry, ZenonT(60) DEF Call
<1>9. SectionInv(t)' /\ ~Acting(t)
  BY <1>1, <1>2, <1>4, <1>8 DEF SectionInv, Acting, Resuming, Deleting
<1>10. ~Deleting(t) /\ \A x \in Thread : Acting(x) => call[x].arg # u
  BY <1>1, <1>9, NobodyElse DEF Acting
<1> QED
  BY <1>1, <1>4, <1>6, <1>7, <1>8, <1>9, <1>10, RunnerStep, ZenonT(60)

\* A step that leaves the kernel's state alone.
LEMMA SameKernel ==
    ASSUME ThreadIndInv, UNCHANGED kernelVars, NEW w
    PROVE  KernelInv' /\ HighestRuns' /\ Touched(w) /\ Steady(w)
<1>1. KernelInv'
  BY DEF ThreadIndInv, kernelVars, KernelInv, KernelTypeOK, NodeLinkedOnce,
         ListMatchesStat, BitmapMatchesQueues, IdleIsReady, TimerImpliesSuspended, RunningIsReady
<1>2. HighestRuns'
  BY DEF ThreadIndInv, kernelVars, HighestRuns
<1> QED
  BY <1>1, <1>2 DEF kernelVars, Touched, Steady, Unlinked

\* rt_thread_resume: the check,
LEMMA ResumeCheckInv ==
    ASSUME ThreadIndInv, NEW t \in Thread, NEW u \in Thread, ~Busy(u), delay[u] = Off,
           ResumeCheck(t, u)
    PROVE  ThreadIndInv'
<1>1. /\ Runs(t) /\ call[t].op = "app" /\ stat[u] = "SUSPEND"
      /\ UNCHANGED kernelVars /\ GotoCall(t, "unlink", u)
  BY DEF ResumeCheck, AtCall
<1>2. /\ t # u /\ call \in [Thread -> [op : Call, arg : Thread]]
  BY <1>1, RunFacts
<1>3. KernelInv' /\ HighestRuns' /\ Touched(u) /\ Steady(u)
  BY <1>1, SameKernel
<1>4. stat'[u] = "SUSPEND" /\ delay'[u] = Off
  BY <1>1 DEF kernelVars
<1>5. /\ call' \in [Thread -> [op : Call, arg : Thread]]
      /\ call'[t].op = "unlink" /\ call'[t].arg = u
      /\ \A x \in Thread \ {t} : call'[x] = call[x]
  BY <1>1, <1>2, CallEntry, ZenonT(60) DEF Call
<1>6. SectionInv(t)' /\ ~Acting(t)
  BY <1>1, <1>2, <1>4, <1>5, ZenonT(60) DEF SectionInv, Acting, Resuming, Deleting
<1>7. ~Deleting(t) /\ \A x \in Thread : Acting(x) => call[x].arg # u
  BY <1>1, <1>6, NobodyElse DEF Acting
<1> QED
  BY <1>1, <1>3, <1>4, <1>5, <1>6, <1>7, RunnerStep

\* ... the masked section,
LEMMA ResumeUnlinkInv ==
    ASSUME ThreadIndInv, NEW t \in Thread, ResumeUnlink(t)
    PROVE  ThreadIndInv'
<1>0. Runs(t) /\ call[t].arg \in Thread
  BY RunFacts DEF ResumeUnlink, AtCall
<1> PICK u \in Thread : u = call[t].arg
  BY <1>0
<1>1. /\ Runs(t) /\ call[t].op = "unlink"
      /\ list' = ListRemove(list, u) /\ delay' = [delay EXCEPT ![u] = Off]
      /\ UNCHANGED <<stat, current_priority, group, current, lock_nest, error,
                     remaining_tick, irq, resched>>
      /\ GotoCall(t, "insert", u)
  BY DEF ResumeUnlink, AtCall
<1>2. /\ QueuesOK /\ Rest /\ HighestRuns /\ current = t /\ u \in Thread
      /\ stat \in [Thread -> Stat] /\ current_priority \in [Thread -> Prio]
      /\ call \in [Thread -> [op : Call, arg : Thread]]
  BY <1>1, RunFacts
<1>3. u # t /\ stat[u] = "SUSPEND" /\ delay[u] = Off /\ Acting(t) /\ ~Deleting(t)
  BY <1>1 DEF ThreadIndInv, SectionInv, Acting, Resuming, Deleting
<1>4. \A x \in Thread \ {t} : Acting(x) => call[x].arg # u
  BY <1>1, <1>3, NobodyElse
<1>5. QueuesOK' /\ Moved(list, list', u, {}) /\ \A p \in Prio : list'[p] = list[p]
  BY <1>1, <1>2, <1>3, UnlinkWaiter
<1>6. Touched(u) /\ stat'[u] = "SUSPEND" /\ delay'[u] = Off /\ Unlinked(u)'
  <2>1. delay' \in [Thread -> {Off} \cup 0 .. MaxDelay] /\ delay'[u] = Off
        /\ \A x \in Thread \ {u} : delay'[x] = delay[x]
    BY <1>1, <1>2 DEF Rest
  <2>2. Touched(u)
    BY <1>1, <1>2, <1>5, <2>1, MovedTouched
  <2> QED
    BY <1>1, <1>2, <1>3, <1>5, <2>1, <2>2 DEF Moved, Unlinked
<1>7. Types
  BY <1>1, <1>2 DEF Types, Rest
<1>8. KernelInv'
  BY <1>1, <1>2, <1>3, <1>5, <1>6, <1>7, OffTimer, RunnerKernel, ZenonT(60) DEF FitsRunner
<1>9. HighestRuns'
  BY <1>1, <1>2, <1>5, SameHighest DEF HighestRuns
<1>10. /\ call' \in [Thread -> [op : Call, arg : Thread]]
       /\ call'[t].op = "insert" /\ call'[t].arg = u
       /\ \A x \in Thread \ {t} : call'[x] = call[x]
  BY <1>1, <1>2, CallEntry, ZenonT(60) DEF Call
<1>11. SectionInv(t)'
  BY <1>3, <1>6, <1>10, ZenonT(60) DEF SectionInv, Acting, Resuming, Deleting
<1> QED
  BY <1>1, <1>2, <1>3, <1>4, <1>6, <1>8, <1>9, <1>10, <1>11, RunnerStep, ZenonT(60)

\* ... and the insertion.
LEMMA ResumeInsertInv ==
    ASSUME ThreadIndInv, NEW t \in Thread, ResumeInsert(t)
    PROVE  ThreadIndInv'
<1>0. Runs(t) /\ call[t].arg \in Thread
  BY RunFacts DEF ResumeInsert, AtCall
<1> PICK u \in Thread : u = call[t].arg
  BY <1>0
<1>1. /\ Runs(t) /\ call[t].op = "insert"
      /\ InsertThread(u) /\ resched' = resched \cup {t}
      /\ UNCHANGED <<current_priority, current, lock_nest, delay, error,
                     remaining_tick, irq>>
      /\ GotoCall(t, "app", t)
  BY DEF ResumeInsert, AtCall, ThenSchedule
<1>2. /\ QueuesOK /\ Rest /\ current = t /\ u \in Thread
      /\ stat \in [Thread -> Stat] /\ current_priority \in [Thread -> Prio]
      /\ call \in [Thread -> [op : Call, arg : Thread]]
  BY <1>1, RunFacts
<1>3. u # t /\ stat[u] = "SUSPEND" /\ delay[u] = Off /\ Acting(t) /\ ~Deleting(t) /\ Unlinked(u)
  BY <1>1 DEF ThreadIndInv, SectionInv, Acting, Resuming, Deleting
<1>4. \A x \in Thread \ {t} : Acting(x) => call[x].arg # u
  BY <1>1, <1>3, NobodyElse
<1>5. ResumeThread(u)
  BY <1>1, <1>2, <1>3, RemoveUnlinked DEF InsertThread, ResumeThread
<1>6. QueuesOK' /\ Moved(list, list', u, {current_priority[u]})
  BY <1>1, <1>2, <1>3, <1>5, ResumeStep
<1>7. Touched(u) /\ stat'[u] = "READY" /\ delay'[u] = Off /\ Queued(u)'
  <2>1. stat' = [stat EXCEPT ![u] = "READY"]
    BY <1>5 DEF ResumeThread
  <2>2. Touched(u) /\ stat'[u] = "READY"
    BY <1>1, <1>2, <1>6, <2>1, MovedTouched
  <2> QED
    BY <1>1, <1>2, <1>3, <1>6, <2>2, Heads DEF Moved, Queued
<1>8. Types
  BY <1>1, <1>2 DEF Types, Rest
<1>9. KernelInv'
  BY <1>1, <1>2, <1>3, <1>6, <1>7, <1>8, OffTimer, RunnerKernel, ZenonT(60) DEF FitsRunner
<1>10. HighestRuns'
  BY <1>1, <1>2 DEF HighestRuns
<1>11. /\ call' \in [Thread -> [op : Call, arg : Thread]] /\ call'[t].op = "app"
       /\ \A x \in Thread \ {t} : call'[x] = call[x]
  BY <1>1, <1>2, CallEntry, ZenonT(60) DEF Call
<1>12. SectionInv(t)' /\ ~Acting(t)'
  BY <1>11, IdleSection
<1> QED
  BY <1>1, <1>2, <1>3, <1>4, <1>7, <1>9, <1>10, <1>11, <1>12, RunnerStep

\* A step of t outside calls that act on others, after which it owes
\* rt_schedule; w is the thread touched.
LEMMA OwnStep ==
    ASSUME ThreadIndInv, NEW t \in Thread, Runs(t), ~Acting(t), NEW w \in Thread,
           KernelInv', HighestRuns', Touched(w),
           \A x \in Thread \ {t} : Acting(x) /\ call[x].arg = w => Steady(w),
           call' \in [Thread -> [op : Call, arg : Thread]],
           call'[t].op \in {"app", "sleep"},
           \A x \in Thread \ {t} : call'[x] = call[x],
           stat'[w] = "READY" => Queued(w)'
    PROVE  ThreadIndInv'
<1>1. SectionInv(t)' /\ ~Acting(t)' /\ ~Deleting(t)
  BY IdleSection DEF Acting
<1> QED
  BY <1>1, RunnerStep, ZenonT(60)

\* rt_thread_yield.
LEMMA YieldInv ==
    ASSUME ThreadIndInv, NEW t \in Thread, Yield(t)
    PROVE  ThreadIndInv'
<1>1. /\ Runs(t) /\ call[t].op = "app"
      /\ list' = ReadyInsert(ListRemove(list, t), t, current_priority[t])
      /\ resched' = resched \cup {t}
      /\ UNCHANGED <<stat, current_priority, group, current, lock_nest, delay, error,
                     remaining_tick, irq, call>>
  BY DEF Yield, AtCall, ThenSchedule
<1>2. /\ QueuesOK /\ Rest /\ current = t /\ stat[t] = "READY" /\ Queued(t) /\ delay[t] = Off
      /\ current_priority \in [Thread -> Prio]
      /\ call \in [Thread -> [op : Call, arg : Thread]]
  BY <1>1, RunFacts
<1>3. QueuesOK' /\ Moved(list, list', t, {current_priority[t]})
  BY <1>1, <1>2, YieldStep DEF Queued
<1>4. Touched(t)
  BY <1>1, <1>3, MovedTouched
<1>5. Queued(t)'
  BY <1>1, <1>2, <1>3, Heads, ZenonT(60) DEF Moved, Queued
<1>6. Types
  BY <1>1, <1>2 DEF Types, Rest
<1>7. KernelInv'
  BY <1>1, <1>2, <1>3, <1>4, <1>5, <1>6, OffTimer, RunnerKernel, ZenonT(60) DEF FitsRunner
<1>8. HighestRuns'
  BY <1>1, <1>2, ZenonT(60) DEF HighestRuns
<1>9. ~Acting(t) /\ \A x \in Thread \ {t} : Acting(x) => call[x].arg # t
  BY <1>1, NobodyElse, ZenonT(60) DEF Acting, Resuming, Deleting
<1> QED
  BY <1>1, <1>2, <1>4, <1>5, <1>7, <1>8, <1>9, OwnStep

\* A thread that suspends itself, for d ticks or for ever, and then owes
\* rt_schedule.
LEMMA SuspendItself ==
    ASSUME ThreadIndInv, NEW t \in Thread, t # Idle, Runs(t), call[t].op = "app",
           lock_nest = 0, SuspendThread(t),
           NEW d \in {Off} \cup Delay, delay' = [delay EXCEPT ![t] = d],
           resched' = resched \cup {t},
           UNCHANGED <<current_priority, current, lock_nest, error, remaining_tick, irq>>,
           call' \in [Thread -> [op : Call, arg : Thread]],
           call'[t].op \in {"app", "sleep"},
           \A x \in Thread \ {t} : call'[x] = call[x]
    PROVE  ThreadIndInv'
<1>1. /\ QueuesOK /\ Rest /\ current = t /\ stat \in [Thread -> Stat]
  BY RunFacts
<1>2. QueuesOK' /\ Moved(list, list', t, {})
  BY <1>1, SuspendStep
<1>3. stat'[t] = "SUSPEND" /\ \A x \in Thread \ {t} : stat'[x] = stat[x]
  BY <1>1 DEF SuspendThread
<1>4. /\ delay' \in [Thread -> {Off} \cup 0 .. MaxDelay] /\ delay'[t] = d /\ d # 0
      /\ \A x \in Thread \ {t} : delay'[x] = delay[x]
  BY <1>1, TimeAssumption DEF Rest, Delay, Off
<1>5. Touched(t)
  BY <1>2, <1>3, <1>4, MovedTouched
<1>6. Types
  BY <1>1, <1>4 DEF Types, Rest
<1>7. KernelInv'
  BY <1>1, <1>2, <1>3, <1>4, <1>5, <1>6, RunnerKernel, ZenonT(60) DEF FitsTimer, FitsRunner
<1>8. HighestRuns'
  BY <1>1, ZenonT(60) DEF HighestRuns
<1>9. ~Acting(t) /\ \A x \in Thread \ {t} : Acting(x) => call[x].arg # t
  BY NobodyElse DEF Acting, Resuming, Deleting
<1> QED
  BY <1>3, <1>5, <1>7, <1>8, <1>9, OwnStep

\* rt_thread_sleep,
LEMMA SleepInv ==
    ASSUME ThreadIndInv, NEW t \in Thread, t # Idle, NEW d \in Delay, Sleep(t, d)
    PROVE  ThreadIndInv'
<1>1. /\ Runs(t) /\ call[t].op = "app" /\ lock_nest = 0 /\ SuspendThread(t)
      /\ delay' = [delay EXCEPT ![t] = d] /\ resched' = resched \cup {t}
      /\ UNCHANGED <<current_priority, current, lock_nest, error, remaining_tick, irq>>
      /\ GotoCall(t, "sleep", t)
  BY ZenonT(60) DEF Sleep, SleepThread, AtCall
<1>2. call \in [Thread -> [op : Call, arg : Thread]]
  BY DEF ThreadIndInv
<1>3. /\ call' \in [Thread -> [op : Call, arg : Thread]] /\ call'[t].op = "sleep"
      /\ \A x \in Thread \ {t} : call'[x] = call[x]
  BY <1>1, <1>2, CallEntry, ZenonT(60) DEF Call
<1> QED
  BY <1>1, <1>3, SuspendItself, ZenonT(60)

\* ... and its return.
LEMMA SleepReturnInv ==
    ASSUME ThreadIndInv, NEW t \in Thread, SleepReturn(t)
    PROVE  ThreadIndInv'
<1>1. /\ Runs(t) /\ call[t].op = "sleep" /\ GotoCall(t, "app", t)
      /\ error' = [error EXCEPT ![t] = IF @ = "ETIMEOUT" THEN "EOK" ELSE @]
      /\ UNCHANGED <<stat, current_priority, list, group, current, lock_nest, delay,
                     remaining_tick, irq, resched>>
  BY ZenonT(60) DEF SleepReturn, SleepDone, AtCall
<1>2. /\ QueuesOK /\ Rest /\ HighestRuns /\ current = t /\ stat[t] = "READY"
      /\ Queued(t) /\ delay[t] = Off /\ call \in [Thread -> [op : Call, arg : Thread]]
  BY <1>1, RunFacts
<1>3. QueuesOK' /\ Touched(t) /\ Queued(t)' /\ HighestRuns'
  BY <1>1, <1>2 DEF QueuesOK, Touched, Queued, HighestRuns
<1>4. Types
  BY <1>1, <1>2 DEF Types, Rest, Error
<1>5. KernelInv'
  BY <1>1, <1>2, <1>3, <1>4, OffTimer, RunnerKernel, ZenonT(60) DEF FitsRunner
<1>6. /\ call' \in [Thread -> [op : Call, arg : Thread]] /\ call'[t].op = "app"
      /\ \A x \in Thread \ {t} : call'[x] = call[x]
  BY <1>1, <1>2, CallEntry, ZenonT(60) DEF Call
<1>7. ~Acting(t) /\ \A x \in Thread \ {t} : Acting(x) => call[x].arg # t
  BY <1>1, NobodyElse DEF Acting, Resuming, Deleting
<1> QED
  BY <1>1, <1>3, <1>5, <1>6, <1>7, OwnStep, ZenonT(60)

\* rt_thread_suspend of the running thread.
LEMMA SuspendSelfInv ==
    ASSUME ThreadIndInv, NEW t \in Thread, t # Idle, SuspendSelf(t)
    PROVE  ThreadIndInv'
<1>1. call \in [Thread -> [op : Call, arg : Thread]]
  BY DEF ThreadIndInv
<1> QED
  BY <1>1, SuspendItself, ZenonT(60) DEF SuspendSelf, AtCall, ThenSchedule

\* rt_enter_critical and rt_exit_critical.
LEMMA CriticalInv ==
    ASSUME ThreadIndInv, NEW t \in Thread, EnterCritical(t) \/ ExitCritical(t)
    PROVE  ThreadIndInv'
<1>1. /\ Runs(t) /\ call[t].op = "app"
      /\ UNCHANGED <<stat, current_priority, list, group, current, delay, error,
                     remaining_tick, irq, call>>
  BY DEF EnterCritical, ExitCritical, AtCall
<1>2. /\ QueuesOK /\ Rest /\ HighestRuns /\ current = t /\ stat[t] = "READY"
      /\ Queued(t) /\ delay[t] = Off /\ call \in [Thread -> [op : Call, arg : Thread]]
  BY <1>1, RunFacts
<1>3. /\ lock_nest' \in Nat /\ resched' \in SUBSET Thread
      /\ lock_nest' = 0 => current \in resched'
  BY <1>2 DEF Rest, EnterCritical, ExitCritical
<1>4. QueuesOK' /\ Touched(t) /\ Queued(t)' /\ HighestRuns'
  BY <1>1, <1>2, <1>3 DEF QueuesOK, Touched, Queued, HighestRuns
<1>5. Types
  BY <1>1, <1>2, <1>3 DEF Types, Rest
<1>6. KernelInv'
  BY <1>1, <1>2, <1>4, <1>5, OffTimer, RunnerKernel, ZenonT(60) DEF FitsRunner
<1>7. ~Acting(t) /\ \A x \in Thread \ {t} : Acting(x) => call[x].arg # t
  BY <1>1, NobodyElse DEF Acting, Resuming, Deleting
<1> QED
  BY <1>1, <1>2, <1>4, <1>6, <1>7, OwnStep

\* rt_thread_suspend of another thread: the check,
LEMMA SuspendCheckInv ==
    ASSUME ThreadIndInv, NEW t \in Thread, NEW u \in Thread, u # Idle, ~Busy(u),
           lock_nest > 0, SuspendCheck(t, u)
    PROVE  ThreadIndInv'
<1>1. /\ Runs(t) /\ call[t].op = "app" /\ u # t /\ stat[u] = "READY"
      /\ UNCHANGED kernelVars /\ GotoCall(t, "suspend", u)
  BY DEF SuspendCheck, AtCall
<1>2. current = t /\ call \in [Thread -> [op : Call, arg : Thread]]
  BY <1>1, RunFacts
<1>3. KernelInv' /\ HighestRuns' /\ Touched(u) /\ Steady(u)
  BY <1>1, SameKernel, ZenonT(60)
<1>4. current' = t /\ lock_nest' > 0 /\ stat'[u] = "READY"
  BY <1>1, <1>2 DEF kernelVars
<1>5. /\ call' \in [Thread -> [op : Call, arg : Thread]]
      /\ call'[t].op = "suspend" /\ call'[t].arg = u
      /\ \A x \in Thread \ {t} : call'[x] = call[x]
  BY <1>1, <1>2, CallEntry, ZenonT(60) DEF Call
<1>6. SectionInv(t)' /\ ~Acting(t)
  BY <1>1, <1>4, <1>5 DEF SectionInv, Acting, Resuming, Deleting
<1>7. ~Deleting(t) /\ \A x \in Thread : Acting(x) => call[x].arg # u
  BY <1>1, <1>6, NobodyElse, ZenonT(60) DEF Acting
<1>8. Queued(u)'
  <2>1. \A x \in Thread : Deleting(x) => call[x].arg # u
    BY <1>7 DEF Acting
  <2>2. Queued(u)
    BY <1>1, <2>1 DEF ThreadIndInv, ReadyIsQueued, Queued, Deleting
  <2> QED
    BY <1>1, <2>2 DEF Queued, kernelVars
<1> QED
  BY <1>1, <1>3, <1>4, <1>5, <1>6, <1>7, <1>8, RunnerStep, ZenonT(60)

\* ... and the masked section.
LEMMA SuspendOtherInv ==
    ASSUME ThreadIndInv, NEW t \in Thread, SuspendOther(t)
    PROVE  ThreadIndInv'
<1>0. Runs(t) /\ call[t].arg \in Thread
  BY RunFacts DEF SuspendOther, AtCall
<1> PICK u \in Thread : u = call[t].arg
  BY <1>0
<1>1. /\ Runs(t) /\ call[t].op = "suspend" /\ SuspendThread(u)
      /\ delay' = [delay EXCEPT ![u] = Off] /\ GotoCall(t, "app", t)
      /\ UNCHANGED <<current_priority, current, lock_nest, error, remaining_tick, irq, resched>>
  BY DEF SuspendOther, AtCall
<1>2. /\ QueuesOK /\ Rest /\ current = t /\ stat \in [Thread -> Stat]
      /\ call \in [Thread -> [op : Call, arg : Thread]]
  BY <1>1, RunFacts
<1>3. u # t /\ u # Idle /\ lock_nest > 0 /\ Acting(t) /\ ~Deleting(t)
  <2>1. SectionInv(t)
    BY DEF ThreadIndInv
  <2>2. Acting(t) /\ ~Resuming(t) /\ ~Deleting(t)
    BY <1>1 DEF Acting, Resuming, Deleting
  <2> QED
    BY <2>1, <2>2 DEF SectionInv
<1>4. \A x \in Thread \ {t} : Acting(x) => call[x].arg # u
  BY <1>1, <1>3, NobodyElse, ZenonT(60)
<1>5. QueuesOK' /\ Moved(list, list', u, {})
  BY <1>1, <1>2, <1>3, SuspendStep
<1>6. stat'[u] = "SUSPEND" /\ \A x \in Thread \ {u} : stat'[x] = stat[x]
  BY <1>1, <1>2 DEF SuspendThread
<1>7. /\ delay' \in [Thread -> {Off} \cup 0 .. MaxDelay] /\ delay'[u] = Off
      /\ \A x \in Thread \ {u} : delay'[x] = delay[x]
  BY <1>1, <1>2 DEF Rest
<1>8. Touched(u)
  BY <1>1, <1>5, <1>6, <1>7, MovedTouched
<1>9. Types
  BY <1>1, <1>2, <1>7 DEF Types, Rest
<1>10. KernelInv'
  BY <1>1, <1>2, <1>3, <1>5, <1>6, <1>7, <1>8, <1>9, OffTimer, RunnerKernel, ZenonT(60) DEF FitsRunner
<1>11. HighestRuns'
  BY <1>1, <1>3 DEF HighestRuns
<1>12. /\ call' \in [Thread -> [op : Call, arg : Thread]] /\ call'[t].op = "app"
       /\ \A x \in Thread \ {t} : call'[x] = call[x]
  BY <1>1, <1>2, CallEntry, ZenonT(60) DEF Call
<1>13. SectionInv(t)' /\ ~Acting(t)'
  BY <1>12, IdleSection
<1> QED
  BY <1>1, <1>3, <1>4, <1>6, <1>8, <1>10, <1>11, <1>12, <1>13, RunnerStep, ZenonT(60)

\* rt_thread_control(CHANGE_PRIORITY): a thread about to be resumed by
\* another caller may be the one whose priority changes.
LEMMA ChangePriorityInv ==
    ASSUME ThreadIndInv, NEW t \in Thread, NEW u \in Thread, u # Idle, NEW p \in Prio,
           ChangePriority(t, u, p)
    PROVE  ThreadIndInv'
<1>1. /\ Runs(t) /\ call[t].op = "app" /\ SetPriority(u, p) /\ resched' = resched \cup {t}
      /\ UNCHANGED <<stat, current, lock_nest, delay, error, remaining_tick, irq, call>>
  BY ZenonT(60) DEF ChangePriority, AtCall, ThenSchedule
<1>2. /\ QueuesOK /\ Rest /\ current = t /\ current_priority \in [Thread -> Prio]
      /\ call \in [Thread -> [op : Call, arg : Thread]] 
      /\ stat[t] = "READY" /\ irq = "on"
  BY <1>1, RunFacts
<1>3. /\ QueuesOK'
      /\ stat[u] = "READY" => Moved(list, list', u, {p})
      /\ stat[u] # "READY" => list' = list
  BY <1>1, <1>2, SetPriorityStep
<1>4. current_priority'[u] = p
      /\ \A x \in Thread \ {u} : current_priority'[x] = current_priority[x]
  BY <1>1, <1>2 DEF SetPriority
<1>5. Touched(u)
  <2>1. CASE stat[u] = "READY"
    BY <1>1, <1>3, <1>4, <2>1, MovedTouched
  <2>2. CASE stat[u] # "READY"
    BY <1>1, <1>3, <1>4, <2>2 DEF Touched
  <2> QED
    BY <2>1, <2>2
<1>6. stat'[u] = "READY" => Queued(u)'
  BY <1>1, <1>3, <1>4, Heads DEF Moved, Queued
<1>7. Types
  BY <1>1, <1>2 DEF Types, Rest
<1>8. FitsTimer(u)
  BY <1>1, <1>2 DEF FitsTimer, Rest, TimerImpliesSuspended
<1>9. KernelInv'
  BY <1>1, <1>2, <1>3, <1>5, <1>6, <1>7, <1>8, RunnerKernel DEF FitsRunner
<1>10. HighestRuns'
  BY <1>1, <1>2 DEF HighestRuns
<1>11. \A x \in Thread \ {t} : Acting(x) /\ call[x].arg = u => Steady(u)
  <2>1. CASE stat[u] = "SUSPEND"
    BY <1>1, <1>3, <2>1, ZenonT(60) DEF Steady, Unlinked
  <2>2. CASE stat[u] # "SUSPEND"
    BY <1>1, <2>2, NobodyElse
  <2> QED
    BY <2>1, <2>2
<1>12. ~Acting(t)
  BY <1>1 DEF Acting, Resuming, Deleting
<1> QED
  BY <1>1, <1>2, <1>5, <1>6, <1>9, <1>10, <1>11, <1>12, OwnStep

\* rt_thread_exit.
LEMMA ExitInv ==
    ASSUME ThreadIndInv, NEW t \in Thread, Exit(t)
    PROVE  ThreadIndInv'
<1>1. /\ Runs(t) /\ call[t].op = "app" /\ lock_nest = 0 /\ t # Idle
      /\ stat' = [stat EXCEPT ![t] = EndStat(t)]
      /\ list' = IF t \in Static THEN ListRemove(list, t)
                 ELSE [ListRemove(list, t) EXCEPT ![Defunct] = <<t>> \o @]
      /\ group' = ClearBit(group, ListRemove(list, t), current_priority[t])
      /\ delay' = [delay EXCEPT ![t] = Off] /\ resched' = resched \cup {t}
      /\ UNCHANGED <<current_priority, current, lock_nest, error, remaining_tick, irq, call>>
  BY DEF Exit, AtCall, ThenSchedule, EndStat
<1>2. /\ QueuesOK /\ Rest /\ current = t /\ stat \in [Thread -> Stat]
      /\ call \in [Thread -> [op : Call, arg : Thread]]
  BY <1>1, RunFacts
<1>3. group' = Bits(ListRemove(list, t))
  <2>1. ClearBit(group, ListRemove(list, t), current_priority[t]) = Bits(ListRemove(list, t))
    <3>1. Queues(stat, current_priority, list, group)
      BY <1>2, Zenon DEF QueuesOK
    <3>2. \A st, pr, L, g : Queues(st, pr, L, g) =>
             ClearBit(g, ListRemove(L, t), pr[t]) = Bits(ListRemove(L, t))
      BY RemoveMoves, SMTT(30)
    <3> QED
      BY <3>1, <3>2, Zenon
  <2> QED
    BY <1>1, <2>1, Zenon
<1>4. QueuesOK' /\ Moved(list, list', t, Grave(t))
  BY <1>1, <1>2, <1>3, EndStep, ZenonT(60)
<1>5. stat'[t] = EndStat(t) /\ \A x \in Thread \ {t} : stat'[x] = stat[x]
  BY <1>1, <1>2
<1>6. stat'[t] # "READY"
  BY <1>5 DEF EndStat
<1>7. /\ delay' \in [Thread -> {Off} \cup 0 .. MaxDelay] /\ delay'[t] = Off
      /\ \A x \in Thread \ {t} : delay'[x] = delay[x]
  BY <1>1, <1>2 DEF Rest
<1>8. Touched(t)
  BY <1>1, <1>4, <1>5, <1>7, MovedTouched, ZenonT(60)
<1>9. Types
  BY <1>1, <1>2, <1>7 DEF Types, Rest
<1>10. KernelInv'
  BY <1>1, <1>2, <1>4, <1>6, <1>7, <1>8, <1>9, OffTimer, RunnerKernel, ZenonT(60) DEF FitsRunner
<1>11. HighestRuns'
  BY <1>1, <1>2 DEF HighestRuns
<1>12. ~Acting(t) /\ \A x \in Thread \ {t} : Acting(x) => call[x].arg # t
  BY <1>1, NobodyElse, ZenonT(60) DEF Acting, Resuming, Deleting
<1> QED
  BY <1>1, <1>2, <1>6, <1>8, <1>10, <1>11, <1>12, OwnStep

\* rt_thread_delete: out of the scheduler's lists,
LEMMA DeleteRemoveInv ==
    ASSUME ThreadIndInv, NEW t \in Thread, NEW u \in Thread, u # Idle, ~Busy(u),
           lock_nest > 0, delay[u] = Off, DeleteRemove(t, u)
    PROVE  ThreadIndInv'
<1>1. /\ Runs(t) /\ call[t].op = "app" /\ u # t /\ stat[u] \in {"INIT", "READY", "SUSPEND"}
      /\ IF stat[u] = "INIT" THEN UNCHANGED <<list, group>> ELSE RemoveThread(u)
      /\ UNCHANGED <<stat, current_priority, current, lock_nest, delay, error,
                     remaining_tick, irq, resched>>
      /\ GotoCall(t, "del_timer", u)
  BY ZenonT(60) DEF DeleteRemove, AtCall
<1>2. /\ QueuesOK /\ Rest /\ current = t /\ stat \in [Thread -> Stat]
      /\ current_priority \in [Thread -> Prio]
      /\ call \in [Thread -> [op : Call, arg : Thread]]
  BY <1>1, RunFacts
<1>3. QueuesOK' /\ Moved(list, list', u, {})
  <2>1. CASE stat[u] = "INIT"
    <3>1. UNCHANGED <<list, group>>
      BY <1>1, <2>1, ZenonT(60)
    <3>2. /\ stat' = [stat EXCEPT ![u] = "INIT"] /\ "INIT" \in Stat
          /\ current_priority' = [current_priority EXCEPT ![u] = current_priority[u]]
          /\ current_priority[u] \in Prio
      BY <1>1, <1>2, <2>1 DEF Stat
    <3> QED
      BY <1>2, <2>1, <3>1, <3>2, RestatStep, ZenonT(60)
  <2>2. CASE stat[u] # "INIT"
    <3>1. /\ list' = ListRemove(list, u)
          /\ group' = ClearBit(group, ListRemove(list, u), current_priority[u])
      BY <1>1, <2>2, ZenonT(60) DEF RemoveThread
    <3>2. group' = Bits(ListRemove(list, u))
      BY <1>2, <3>1, RemoveMoves DEF QueuesOK
    <3> QED
      BY <1>1, <1>2, <3>1, <3>2, UnlinkStep
  <2> QED
    BY <2>1, <2>2, ZenonT(60)
<1>4. Touched(u) /\ Unlinked(u)'
  <2>1. Touched(u)
    BY <1>1, <1>3, MovedTouched
  <2>2. Unlinked(u)'
    BY <1>3 DEF Moved, Unlinked
  <2> QED
    BY <2>1, <2>2
<1>5. Types
  BY <1>1, <1>2 DEF Types, Rest
<1>6. KernelInv'
  BY <1>1, <1>2, <1>3, <1>4, <1>5, OffTimer, RunnerKernel, ZenonT(60) DEF FitsRunner
<1>7. HighestRuns'
  BY <1>1, LockedRuns, Zenon
<1>8. /\ call' \in [Thread -> [op : Call, arg : Thread]]
      /\ call'[t].op = "del_timer" /\ call'[t].arg = u
      /\ \A x \in Thread \ {t} : call'[x] = call[x]
  BY <1>1, <1>2, CallEntry, ZenonT(60) DEF Call
<1>9. SectionInv(t)' /\ ~Acting(t) /\ Deleting(t)'
  BY <1>1, <1>2, <1>4, <1>8 DEF SectionInv, Acting, Resuming, Deleting
<1>10. ~Deleting(t) /\ \A x \in Thread : Acting(x) => call[x].arg # u
  BY <1>1, <1>9, NobodyElse, ZenonT(60) DEF Acting
<1> QED
  BY <1>1, <1>4, <1>6, <1>7, <1>8, <1>9, <1>10, RunnerStep, ZenonT(60)

\* A thread that is deleting another one.
LEMMA DeletingFacts ==
    ASSUME ThreadIndInv, NEW t \in Thread, Deleting(t)
    PROVE  LET u == call[t].arg
           IN  /\ u # t /\ u # Idle /\ lock_nest > 0 /\ Acting(t)
               /\ Unlinked(u) /\ delay[u] = Off /\ stat[u] \in {"INIT", "READY", "SUSPEND"}
<1>1. SectionInv(t)
  BY DEF ThreadIndInv
<1>2. Acting(t) /\ ~Resuming(t)
  BY DEF Acting, Resuming, Deleting
<1> QED
  BY <1>1, <1>2, ZenonT(60) DEF SectionInv

\* ... the timer,
LEMMA DeleteTimerInv ==
    ASSUME ThreadIndInv, NEW t \in Thread, DeleteTimer(t)
    PROVE  ThreadIndInv'
<1>0. Runs(t) /\ call[t].arg \in Thread
  BY RunFacts DEF DeleteTimer, AtCall
<1> PICK u \in Thread : u = call[t].arg
  BY <1>0
<1>1. /\ Runs(t) /\ Deleting(t) /\ delay' = [delay EXCEPT ![u] = Off]
      /\ GotoCall(t, "del_close", u)
      /\ UNCHANGED <<stat, current_priority, list, group, current, lock_nest, error,
                     remaining_tick, irq, resched>>
  BY ZenonT(60) DEF DeleteTimer, AtCall, Deleting
<1>2. /\ Rest /\ current = t /\ call \in [Thread -> [op : Call, arg : Thread]]
  BY <1>1, RunFacts
<1>3. /\ u # t /\ u # Idle /\ lock_nest > 0 /\ Acting(t) /\ Unlinked(u) /\ delay[u] = Off
      /\ stat[u] \in {"INIT", "READY", "SUSPEND"}
  BY <1>1, DeletingFacts
<1>4. \A x \in Thread \ {t} : Acting(x) => call[x].arg # u
  BY <1>1, <1>3, NobodyElse, ZenonT(60)
<1>5. delay' = delay
  BY <1>1, <1>2, <1>3 DEF Rest
<1>6. UNCHANGED kernelVars
  BY <1>1, <1>5 DEF kernelVars
<1>7. KernelInv' /\ HighestRuns' /\ Touched(u)
  BY <1>6, SameKernel
<1>8. /\ call' \in [Thread -> [op : Call, arg : Thread]]
      /\ call'[t].op = "del_close" /\ call'[t].arg = u
      /\ \A x \in Thread \ {t} : call'[x] = call[x]
  BY <1>1, <1>2, CallEntry, ZenonT(60) DEF Call
<1>9. SectionInv(t)' /\ Deleting(t)'
  BY <1>1, <1>2, <1>3, <1>5, <1>8 DEF SectionInv, Acting, Resuming, Deleting, Unlinked
<1> QED
  BY <1>1, <1>4, <1>7, <1>8, <1>9, RunnerStep, ZenonT(60)

\* ... and CLOSE.
LEMMA DeleteCloseInv ==
    ASSUME ThreadIndInv, NEW t \in Thread, DeleteClose(t)
    PROVE  ThreadIndInv'
<1>0. Runs(t) /\ call[t].arg \in Thread
  BY RunFacts DEF DeleteClose, AtCall
<1> PICK u \in Thread : u = call[t].arg
  BY <1>0
<1>1. /\ Runs(t) /\ Deleting(t) /\ GotoCall(t, "app", t)
      /\ stat' = [stat EXCEPT ![u] = EndStat(u)]
      /\ list' = IF u \in Static THEN list ELSE [list EXCEPT ![Defunct] = <<u>> \o @]
      /\ UNCHANGED <<current_priority, group, current, lock_nest, delay, error,
                     remaining_tick, irq, resched>>
  BY ZenonT(60) DEF DeleteClose, AtCall, Deleting, EndStat
<1>2. /\ QueuesOK /\ Rest /\ current = t /\ stat \in [Thread -> Stat]
      /\ call \in [Thread -> [op : Call, arg : Thread]]
  BY <1>1, RunFacts
<1>3. u # t /\ u # Idle /\ lock_nest > 0 /\ Acting(t) /\ Unlinked(u) /\ delay[u] = Off
  BY <1>1, DeletingFacts
<1>4. \A x \in Thread \ {t} : Acting(x) => call[x].arg # u
  BY <1>1, <1>3, NobodyElse
<1>5. ListRemove(list, u) = list /\ group = Bits(list)
  BY <1>2, <1>3, RemoveUnlinked, ZenonT(60) DEF QueuesOK, Queues
<1>6. QueuesOK' /\ Moved(list, list', u, Grave(u))
  BY <1>1, <1>2, <1>3, <1>5, EndStep, ZenonT(60)
<1>7. stat'[u] = EndStat(u) /\ \A x \in Thread \ {u} : stat'[x] = stat[x]
  BY <1>1, <1>2
<1>8. stat'[u] # "READY" /\ delay'[u] = Off
  BY <1>1, <1>3, <1>7 DEF EndStat
<1>9. Touched(u)
  BY <1>1, <1>6, <1>7, MovedTouched, ZenonT(60)
<1>10. Types
  BY <1>1, <1>2 DEF Types, Rest
<1>11. KernelInv'
  BY <1>1, <1>2, <1>3, <1>6, <1>8, <1>9, <1>10, OffTimer, RunnerKernel, ZenonT(60) DEF FitsRunner
<1>12. HighestRuns'
  BY <1>1, <1>3, LockedRuns, Zenon
<1>13. /\ call' \in [Thread -> [op : Call, arg : Thread]] /\ call'[t].op = "app"
       /\ \A x \in Thread \ {t} : call'[x] = call[x]
  BY <1>1, <1>2, CallEntry, ZenonT(60) DEF Call
<1>14. SectionInv(t)' /\ ~Acting(t)'
  BY <1>13, IdleSection
<1> QED
  BY <1>1, <1>4, <1>8, <1>9, <1>11, <1>12, <1>13, <1>14, RunnerStep, ZenonT(60)

\* The idle thread frees a defunct thread.
LEMMA IdleExcuteInv ==
    ASSUME ThreadIndInv, IdleExcute
    PROVE  ThreadIndInv'
<1>0. Idle \in Thread
  BY PrioAssumption
<1>1. /\ Runs(Idle) /\ call[Idle].op = "app" /\ list[Defunct] # <<>>
      /\ list' = [list EXCEPT ![Defunct] = Tail(@)]
      /\ stat' = [stat EXCEPT ![Head(list[Defunct])] = "NONE"]
      /\ UNCHANGED <<current_priority, group, current, lock_nest, delay, error,
                     remaining_tick, irq, resched, call>>
  BY ZenonT(60) DEF IdleExcute, AtCall
<1>2. /\ QueuesOK /\ Rest /\ HighestRuns /\ current = Idle /\ stat[Idle] = "READY"
      /\ stat \in [Thread -> Stat] /\ call \in [Thread -> [op : Call, arg : Thread]]
  BY <1>0, <1>1, RunFacts
<1> PICK u : u = Head(list[Defunct])
  OBVIOUS
<1>3. /\ QueuesOK' /\ Moved(list, list', u, {}) /\ u \in Thread /\ stat[u] = "CLOSE"
      /\ \A p \in Prio : list'[p] = list[p]
  BY <1>1, <1>2, FreeStep, ZenonT(60)
<1>4. stat'[u] = "NONE" /\ \A x \in Thread \ {u} : stat'[x] = stat[x]
  BY <1>1, <1>2, <1>3
<1>5. Touched(u) /\ delay'[u] = Off
  BY <1>1, <1>2, <1>3, <1>4, MovedTouched, ZenonT(60) DEF Rest, TimerImpliesSuspended
<1>6. Types
  BY <1>1, <1>2 DEF Types, Rest
<1>7. KernelInv'
  BY <1>0, <1>1, <1>2, <1>3, <1>4, <1>5, <1>6, OffTimer, RunnerKernel, ZenonT(60) DEF FitsRunner
<1>8. HighestRuns'
  BY <1>1, <1>2, <1>3, SameHighest DEF HighestRuns
<1>9. ~Acting(Idle) /\ \A x \in Thread \ {Idle} : Acting(x) => call[x].arg # u
  BY <1>0, <1>1, <1>3, NobodyElse, ZenonT(60) DEF Acting, Resuming, Deleting
<1> QED
  BY <1>0, <1>1, <1>2, <1>3, <1>4, <1>5, <1>7, <1>8, <1>9, OwnStep

-----------------------------------------------------------------------------
(* The kernel's own steps, and the theorems.                               *)

\* The thread whose timer fires, or whose slice ends, is nobody's business.
LEMMA KernelSteps ==
    ASSUME ThreadIndInv, KernelStep, UNCHANGED call
    PROVE  ThreadIndInv'
<1>1. /\ QueuesOK /\ Rest /\ KernelInv /\ HighestRuns
      /\ stat \in [Thread -> Stat] /\ current_priority \in [Thread -> Prio]
      /\ call \in [Thread -> [op : Call, arg : Thread]]
      /\ \A x \in Thread : SectionInv(x) /\ call[x].arg \in Thread
  BY InvParts, ZenonT(60) DEF ThreadIndInv, QueuesOK, Queues
<1>2. KernelInv' /\ HighestRuns'
  BY <1>1, KernelStepInv
<1>3. lock_nest' = lock_nest /\ (lock_nest > 0 => current' = current)
  BY <1>1 DEF KernelStep, Tick, TickBegin, SliceEnd, TimerExpire, Schedule, TimerCheckDone,
              RtSchedule, Rest
<1>4. /\ \A x \in Thread : Acting(x) => Steady(call[x].arg)
      /\ \A u \in Thread : /\ stat'[u] = "READY" => Queued(u)' \/ stat[u] = "READY"
                           /\ Queued(u) => Queued(u)'
  <2>1. CASE Tick
    <3>1. /\ UNCHANGED <<stat, current_priority>>
          /\ \A u \in Thread : delay[u] = Off => delay'[u] = Off
      BY <2>1 DEF Tick, TickBegin, Pass
    <3>2. CASE UNCHANGED list
      BY <1>1, <3>1, <3>2 DEF Steady, Queued, Unlinked
    <3>3. CASE ~UNCHANGED list
      <4>1. /\ stat[current] = "READY" /\ group' = group
            /\ list' = ReadyInsert(ListRemove(list, current), current, current_priority[current])
        BY <2>1, <3>3 DEF Tick, SliceEnd
      <4>2. current \in Thread /\ Queued(current)
        BY <1>1, <4>1 DEF Rest, RunningIsReady, Queued
      <4>3. Moved(list, list', current, {current_priority[current]})
        BY <1>1, <3>1, <4>1, <4>2, YieldStep, ZenonT(60) DEF Queued
      <4>4. \A u \in Thread : (Queued(u) => Queued(u)')
        BY <1>1, <3>1, <4>2, <4>3, Heads, ZenonT(60) DEF Moved, Queued
      <4>5. \A u \in Thread : Unlinked(u) => Unlinked(u)'
        <5>1. ~Unlinked(current)
          BY <1>1, <4>2, Heads, ZenonT(60) DEF Unlinked, Queued
        <5> QED
          BY <4>3, <5>1 DEF Moved, Unlinked
      <4> QED
        BY <1>1, <3>1, <4>4, <4>5, ZenonT(60) DEF Steady
    <3> QED
      BY <3>2, <3>3, ZenonT(60)
  <2>2. CASE \E t \in Thread : TimerExpire(t)
    <3>1. PICK t \in Thread : TimerExpire(t)
      BY <2>2
    <3>2. /\ delay[t] = 0 /\ delay' = [delay EXCEPT ![t] = Off] /\ ResumeThread(t)
          /\ stat' = [stat EXCEPT ![t] = "READY"] /\ UNCHANGED current_priority
      BY <3>1, ZenonT(60) DEF TimerExpire, ResumeThread
    <3>3. stat[t] = "SUSPEND" /\ delay \in [Thread -> {Off} \cup 0 .. MaxDelay]
      BY <1>1, <3>2 DEF Rest, TimerImpliesSuspended, Off
    <3>4. Moved(list, list', t, {current_priority[t]})
      BY <1>1, <3>2, <3>3, ResumeStep
    <3>5. Touched(t) /\ Queued(t)'
      <4>1. Touched(t)
        BY <1>1, <3>2, <3>3, <3>4, MovedTouched
      <4>2. Queued(t)'
        BY <1>1, <3>2, <3>4, Heads, ZenonT(60) DEF Moved, Queued
      <4> QED
        BY <4>1, <4>2
    <3>6. \A u \in Thread \ {t} : Steady(u) /\ (Queued(u) => Queued(u)')
      BY <1>1, <3>5, TouchedSteady
    <3>7. \A x \in Thread : Acting(x) => call[x].arg # t
      BY <1>1, <3>2, <3>3 DEF SectionInv, Acting, Off
    <3> QED
      BY <1>1, <3>2, <3>5, <3>6, <3>7, ZenonT(60) DEF Steady
  <2>3. CASE \/ \E t \in Thread : Schedule(t)
             \/ TimerCheckDone
    <3>1. UNCHANGED <<stat, current_priority, list, delay>>
      BY <2>3 DEF Schedule, TimerCheckDone
    <3> QED
      BY <3>1, ZenonT(60) DEF Steady, Queued, Unlinked
  <2> QED
    BY <2>1, <2>2, <2>3, ZenonT(60) DEF KernelStep
<1>5. \A x \in Thread : SectionInv(x)'
  BY <1>1, <1>3, <1>4, SectionKept, ZenonT(60) DEF SectionInv
<1>6. OneActor'
  BY DEF ThreadIndInv, OneActor, Acting, Resuming, Deleting
<1>7. ReadyIsQueued'
  BY <1>4 DEF ThreadIndInv, ReadyIsQueued, Queued
<1> QED
  BY <1>1, <1>2, <1>5, <1>6, <1>7 DEF ThreadIndInv

LEMMA ThreadInitInv ==
    ASSUME ThreadInit
    PROVE  ThreadIndInv
<1>1. KernelInit /\ call = [t \in Thread |-> [op |-> "app", arg |-> t]]
  BY DEF ThreadInit
<1>2. KernelInv /\ HighestRuns
  BY <1>1, KernelInitInv
<1>3. \A t \in Thread : ~Acting(t) /\ ~Resuming(t) /\ ~Deleting(t) /\ call[t].op = "app"
  BY <1>1 DEF Acting, Resuming, Deleting
<1>4. call \in [Thread -> [op : Call, arg : Thread]]
  BY <1>1 DEF Call
<1>5. (\A t \in Thread : SectionInv(t)) /\ OneActor
  BY <1>3 DEF SectionInv, OneActor
<1>6. ReadyIsQueued
  <2> SUFFICES ASSUME NEW t \in Thread, stat[t] = "READY"
               PROVE  t \in Range(list[current_priority[t]])
    BY DEF ReadyIsQueued
  <2>1. t \in Range(InitReady[InitPrio[t]]) /\ current_priority = InitPrio
    BY <1>1, ZenonT(60) DEF KernelInit
  <2>2. InitPrio[t] \in Prio /\ InitPrio[t] \in ListHead
    BY PrioAssumption, Heads, ZenonT(60)
  <2>3. list[InitPrio[t]] = InitReady[InitPrio[t]]
    BY <1>1, <2>2 DEF KernelInit
  <2> QED
    BY <2>1, <2>3
<1> QED
  BY <1>2, <1>4, <1>5, <1>6 DEF ThreadIndInv

LEMMA ThreadNextInv == ThreadIndInv /\ [ThreadNext]_threadVars => ThreadIndInv'
<1> SUFFICES ASSUME ThreadIndInv, [ThreadNext]_threadVars
             PROVE  ThreadIndInv'
  OBVIOUS
<1>1. CASE KernelStep /\ UNCHANGED call
  BY <1>1, KernelSteps
<1>2. ASSUME NEW t \in Thread \ {Idle}, ThreadCall(t)
      PROVE  ThreadIndInv'
  BY <1>2, CreateInv, StartupInv, ResumeCheckInv, YieldInv, SleepInv, SuspendSelfInv,
     SuspendCheckInv, ChangePriorityInv, CriticalInv, ExitInv, DeleteRemoveInv DEF ThreadCall
<1>3. ASSUME NEW t \in Thread \ {Idle}, ThreadReturn(t)
      PROVE  ThreadIndInv'
  BY <1>3, ResumeUnlinkInv, ResumeInsertInv, SleepReturnInv, SuspendOtherInv,
     DeleteTimerInv, DeleteCloseInv DEF ThreadReturn
<1>4. CASE IdleExcute
  BY <1>4, IdleExcuteInv
<1>5. CASE UNCHANGED threadVars
  <2>1. KernelInv' /\ HighestRuns'
    BY <1>5, SameKernel DEF threadVars
  <2>2. UNCHANGED <<call, stat, delay, current, lock_nest, list, current_priority>>
    BY <1>5, Zenon DEF threadVars, kernelVars
  <2>3. call' \in [Thread -> [op : Call, arg : Thread]]
    BY <2>2, Zenon DEF ThreadIndInv
  <2>4. ASSUME NEW t \in Thread PROVE SectionInv(t)'
    <3>1. SectionInv(t)
      BY Zenon DEF ThreadIndInv
    <3> QED
      BY <2>2, <3>1, ZenonT(60) DEF SectionInv, Acting, Resuming, Deleting, Unlinked
  <2>5. OneActor'
    BY <2>2, ZenonT(60) DEF ThreadIndInv, OneActor, Acting, Resuming, Deleting
  <2>6. ReadyIsQueued'
    BY <2>2, ZenonT(60) DEF ThreadIndInv, ReadyIsQueued
  <2> QED
    BY <2>1, <2>3, <2>4, <2>5, <2>6, Zenon DEF ThreadIndInv
<1> QED
  BY <1>1, <1>2, <1>3, <1>4, <1>5 DEF ThreadNext

LEMMA ThreadInductive == ThreadSpec => []ThreadIndInv
BY ThreadInitInv, ThreadNextInv, PTL DEF ThreadSpec

\* The lists, the bitmap, stat and the timers agree, and every ready thread is
\* in its queue, between any two sections of the thread API.
THEOREM ThreadsConsistent == ThreadSpec => []Consistent
<1>1. ThreadIndInv => Consistent
  BY DEF ThreadIndInv, Consistent, ThreadTypeOK, KernelInv
<1> QED
  BY <1>1, ThreadInductive, PTL

\* The highest-priority ready thread runs, whatever calls the threads make.
THEOREM ThreadsPreempt == ThreadSpec => []HighestRuns
<1>1. ThreadIndInv => HighestRuns
  BY DEF ThreadIndInv
<1> QED
  BY <1>1, ThreadInductive, PTL

\* rt_thread_timeout ends in rt_schedule, which leaves the first thread of the
\* highest-priority queue running unless the thread woken has a higher one.
LEMMA ExpirePreempts ==
    ASSUME KernelInv, HighestRuns, NEW t \in Thread, TimerExpire(t),
           current \notin resched, current' # current
    PROVE  current_priority[current'] < current_priority[current]
<1> DEFINE q == current_priority[t]
<1>1. QueuesOK /\ Rest /\ QueuesOK'
  <2>1. KernelInv'
    BY TimerExpireInv
  <2> QED
    BY <2>1, InvParts, InvPartsNext
<1>2. /\ irq = "timer" /\ delay[t] = 0 /\ ResumeThread(t) /\ UNCHANGED current_priority
      /\ current' = IF lock_nest = 0 THEN Highest(list', group') ELSE current
      /\ group' = group \cup {q} /\ list' = ReadyInsert(ListRemove(list, t), t, q)
  BY ZenonT(60) DEF TimerExpire, ResumeThread, RtSchedule
<1>3. /\ current = Highest(list, group) /\ current' = Highest(list', group')
      /\ stat[t] = "SUSPEND" /\ q \in Prio
  <2>1. delay[t] # Off /\ irq # "masked"
    BY <1>2 DEF Off
  <2>2. lock_nest = 0 /\ current' = Highest(list', group')
    BY <1>2, Zenon
  <2>3. current = Highest(list, group)
    BY <2>1, <2>2, Zenon DEF HighestRuns
  <2>4. stat[t] = "SUSPEND"
    BY <1>1, <2>1, Zenon DEF Rest, TimerImpliesSuspended
  <2>5. current_priority \in [Thread -> Prio]
    BY <1>1, Zenon DEF QueuesOK, Queues
  <2> QED
    BY <2>2, <2>3, <2>4, <2>5
<1> HIDE DEF q
<1>4. /\ group \in SUBSET Prio /\ group # {} /\ group' \in SUBSET Prio /\ group' # {}
      /\ \A p \in Prio : p \in group <=> list[p] # <<>>
      /\ \A p \in Prio : p \in group' <=> list'[p] # <<>>
  BY <1>1, <1>2, <1>3, Heads, ListFacts, ZenonT(60) DEF QueuesOK, Queues, Bits
<1>5. PICK p \in Prio, r \in Prio : p = Min(group) /\ r = Min(group')
  BY <1>4, MinOfNats, Heads, Zenon
<1>6. p \in group /\ r \in group' /\ r <= p
  <2>1. group \in SUBSET Nat /\ group' \in SUBSET Nat /\ group \subseteq group'
    BY <1>2, <1>4, Heads, ZenonT(60)
  <2> QED
    BY <1>4, <1>5, <2>1, MinOfNats, ZenonT(60)
<1>7. current = Head(list[p]) /\ current' = Head(list'[r])
  BY <1>3, <1>5 DEF Highest
<1>8. /\ list \in Lists /\ list' \in Lists
      /\ list[p] \in Seq(Thread) /\ list[p] # <<>> /\ list'[r] \in Seq(Thread) /\ list'[r] # <<>>
  BY <1>1, <1>4, <1>6, ListFacts, Heads, ZenonT(60) DEF QueuesOK, Queues
<1>9. current \in Range(list[p]) /\ current' \in Range(list'[r])
  BY <1>7, <1>8, HeadInRange
<1>10. current_priority[current] = p /\ current_priority[current'] = r
  <2>1. \A h \in Prio : \A x \in Range(list[h]) : current_priority[x] = h
    <3>1. QueuesOK
      BY <1>1
    <3> QED
      BY <3>1, ZenonT(60) DEF QueuesOK, Queues
  <2>2. \A h \in Prio : \A x \in Range(list'[h]) : current_priority'[x] = h
    <3>1. QueuesOK'
      BY <1>1
    <3> QED
      BY <3>1, ZenonT(60) DEF QueuesOK, Queues
  <2> QED
    BY <1>2, <1>9, <2>1, <2>2, ZenonT(60)
<1>11. ASSUME r = p
       PROVE  FALSE
  <2>1. t \notin Range(list[p]) /\ p \in ListHead /\ q \in ListHead
    BY <1>1, <1>3, Heads, ZenonT(60) DEF QueuesOK, Queues
  <2>2. ListRemove(list, t)[p] = list[p] /\ ListRemove(list, t) \in Lists
    <3>1. list \in Lists /\ \A h \in ListHead : IsInjective(list[h])
      BY <1>1, Zenon DEF QueuesOK, Queues
    <3> QED
      BY <2>1, <3>1, ListRemoveLemma, Zenon
  <2>3. list'[p] = IF p = q THEN Append(list[p], t) ELSE list[p]
    BY <1>2, <2>1, <2>2, ZenonT(60) DEF ReadyInsert, Lists
  <2>4. Head(Append(list[p], t)) = Head(list[p])
    <3> DEFINE s == list[p]
    <3>1. s \in Seq(Thread) /\ s # <<>>
      BY <1>8, Zenon
    <3> HIDE DEF s
    <3>2. Head(Append(s, t)) = Head(s)
      BY <3>1
    <3> QED
      BY <3>2 DEF s
  <2> QED
    BY <1>7, <1>11, <2>3, <2>4
<1>12. r \in Nat /\ p \in Nat
  BY Heads
<1> QED
  BY <1>6, <1>10, <1>11, <1>12

\* A time-out takes the CPU away only in favour of a higher priority.
THEOREM TimeoutsPreemptUpwards == ThreadSpec => EqualPriorityNeverPreempts
<1>1. ThreadIndInv /\ [ThreadNext]_threadVars =>
         [\A t \in Thread :
            TimerExpire(t) /\ current \notin resched /\ current' # current
              => current_priority[current'] < current_priority[current]]_threadVars
  BY ExpirePreempts DEF ThreadIndInv
<1> QED
  BY <1>1, ThreadInductive, PTL DEF ThreadSpec, EqualPriorityNeverPreempts
=============================================================================
