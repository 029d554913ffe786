----------------------------- MODULE MutexProofs ----------------------------
(***************************************************************************)
(* Proofs about mutexes, for any number of threads, priorities, mutexes    *)
(* and nested takes.  IInv is inductive: the invariant of the kernel, the  *)
(* fields of every mutex, the calls the threads are in, and that the idle  *)
(* thread, whose priority must not change, owns nothing.                   *)
(***************************************************************************)
EXTENDS Mutex, KernelProofs

MutexInv ==
    /\ value \in [Mtx -> {0, 1}]
    /\ owner \in [Mtx -> Thread \cup {Null}]
    /\ original_priority \in [Mtx -> Prio \cup {NoPrio}]
    /\ hold \in [Mtx -> 0 .. MaxHold]
    /\ pc \in [Thread -> Calls]
    /\ FreeOrOwned
    /\ TakerOwnsIffGranted
    /\ \A m \in Mtx : owner[m] # Idle

IInv == KernelInv /\ MutexInv

Taking(m) == [op |-> "take", mutex |-> m]

\* TakerOwnsIffGranted of one thread and one mutex.
TakerOK(u, m) ==
    /\ pc[u] = Taking(m) =>
          \/ stat[u] = "SUSPEND" /\ u \in Range(list[m]) /\ owner[m] # u /\ error[u] = "EOK"
          \/ stat[u] = "READY" /\ owner[m] = u /\ hold[m] = 1 /\ error[u] = "EOK"
          \/ stat[u] = "READY" /\ owner[m] # u /\ error[u] = "ETIMEOUT"
    /\ u \in Range(list[m]) => pc[u] = Taking(m)

\* TakerOwnsIffGranted, folded.
LEMMA TakerDef == TakerOwnsIffGranted <=> \A u \in Thread, m \in Mtx : TakerOK(u, m)
BY ZenonT(60) DEF TakerOwnsIffGranted, TakerOK, Taking

\* ... also after a step.
LEMMA TakerDefNext == TakerOwnsIffGranted' <=> \A u \in Thread, m \in Mtx : TakerOK(u, m)'
BY ZenonT(60) DEF TakerOwnsIffGranted, TakerOK, Taking

\* A call is rt_mutex_take of one mutex, or no rt_mutex_take.
LEMMA CallFacts ==
    /\ App \in Calls /\ [op |-> "sleep"] \in Calls /\ \A m \in Mtx : Taking(m) \in Calls
    /\ \A m, n \in Mtx : Taking(m) = Taking(n) => m = n
    /\ \A m \in Mtx : \A c : c.op \in {"app", "sleep"} => c # Taking(m)
    /\ App.op = "app" /\ [op |-> "sleep"].op = "sleep"
<1>1. \A m, n \in Mtx : Taking(m) = Taking(n) => m = n
  <2> SUFFICES ASSUME NEW m \in Mtx, NEW n \in Mtx, Taking(m) = Taking(n) PROVE m = n
    OBVIOUS
  <2>1. Taking(m).mutex = m /\ Taking(n).mutex = n
    BY DEF Taking
  <2> QED
    BY <2>1
<1>2. \A m \in Mtx : Taking(m).op = "take"
  BY DEF Taking
<1>3. App.op = "app" /\ [op |-> "sleep"].op = "sleep"
  BY DEF App
<1>4. App \in Calls /\ [op |-> "sleep"] \in Calls /\ \A m \in Mtx : Taking(m) \in Calls
  BY DEF Calls, Taking
<1> QED
  BY <1>1, <1>2, <1>3, <1>4

\* The thread that runs is ready, waits for nothing and, outside a call of
\* rt_mutex_take, is in none.
LEMMA RunnerFacts ==
    ASSUME KernelInv, NEW t \in Thread, NEW op, At(t, op)
    PROVE  /\ current = t /\ t \notin resched /\ irq = "on"
           /\ stat[t] = "READY" /\ t \in Range(list[current_priority[t]])
           /\ delay[t] = Off
           /\ \A m \in Mtx : t \notin Range(list[m])
           /\ op \in {"app", "sleep"} => \A m \in Mtx : pc[t] # Taking(m)
<1>1. QueuesOK /\ Rest
  BY InvParts
<1>2. current = t /\ t \notin resched /\ irq = "on" /\ pc[t].op = op
  BY DEF At, Runs
<1>3. stat[t] = "READY" /\ t \in Range(list[current_priority[t]])
  BY <1>1, <1>2 DEF Rest, RunningIsReady
<1>4. delay[t] = Off
  BY <1>1, <1>3 DEF Rest, TimerImpliesSuspended
<1>5. \A m \in Mtx : t \notin Range(list[m])
  BY <1>1, <1>3 DEF QueuesOK, Queues, Mtx
<1> QED
  BY <1>2, <1>3, <1>4, <1>5, CallFacts

\* A list that gains no member stays empty.
LEMMA StaysEmpty ==
    ASSUME list \in Lists, list' \in Lists, NEW m \in Mtx, list[m] = <<>>,
           \A u \in Thread : u \in Range(list'[m]) => u \in Range(list[m])
    PROVE  list'[m] = <<>>
<1>1. m \in ListHead
  BY Heads DEF Mtx
<1>2. Range(list[m]) = {} /\ Range(list'[m]) \subseteq Thread
  BY <1>1, ListFacts, ZenonT(60)
<1>3. Range(list'[m]) = {}
  BY <1>2
<1> QED
  BY <1>1, <1>3, ListFacts

\* A step that keeps every waiter or lets it time out keeps MutexInv.
LEMMA KeepsMutexInv ==
    ASSUME MutexInv, \A u \in Thread : Kept(u) \/ TimedOut(u),
           list \in Lists, list' \in Lists, UNCHANGED mutexVars
    PROVE  MutexInv'
<1>1. UNCHANGED <<value, owner, original_priority, hold, pc>>
  BY DEF mutexVars
<1>2. \A m \in Mtx : list[m] = <<>> => list'[m] = <<>>
  BY StaysEmpty DEF Kept, TimedOut, Woken, Mtx
<1>3. FreeOrOwned'
  BY <1>1, <1>2 DEF MutexInv, FreeOrOwned
<1>4. TakerOwnsIffGranted'
  <2> SUFFICES ASSUME NEW u \in Thread, NEW m \in Mtx PROVE TakerOK(u, m)'
    BY TakerDefNext
  <2>1. TakerOK(u, m)
    BY TakerDef DEF MutexInv
  <2>2. CASE Kept(u)
    BY <1>1, <2>1, <2>2 DEF TakerOK, Kept, Mtx
  <2>3. CASE TimedOut(u)
    BY <1>1, <2>1, <2>3 DEF TakerOK, TimedOut, Woken, Mtx
  <2> QED
    BY <2>2, <2>3
<1> QED
  BY <1>1, <1>3, <1>4 DEF MutexInv

\* A step that changes at most error keeps the invariant of the kernel.
LEMMA ErrorStep ==
    ASSUME KernelInv, error' \in [Thread -> Error],
           UNCHANGED <<stat, current_priority, list, group, current, lock_nest,
                       delay, remaining_tick, irq, resched>>
    PROVE  KernelInv'
BY DEF KernelInv, KernelTypeOK, NodeLinkedOnce, ListMatchesStat, BitmapMatchesQueues,
       IdleIsReady, TimerImpliesSuspended, RunningIsReady

-----------------------------------------------------------------------------
(* Steps that leave the lists alone.                                       *)

\* rt_mutex_take by the owner keeps the invariant,
LEMMA TakeAgainInv ==
    ASSUME IInv, NEW t \in Thread, NEW m \in Mtx, TakeAgain(t, m)
    PROVE  IInv'
<1>1. /\ At(t, "app") /\ owner[m] = t /\ hold[m] < MaxHold
      /\ error' = [error EXCEPT ![t] = "EOK"]
      /\ hold' = [hold EXCEPT ![m] = @ + 1]
      /\ UNCHANGED <<stat, current_priority, list, group, current, lock_nest,
                      delay, remaining_tick, irq, resched, value, owner, original_priority, pc>>
  BY DEF TakeAgain
<1>2. error \in [Thread -> Error] /\ MutexInv
  BY DEF IInv, KernelInv, KernelTypeOK
<1>3. \A n \in Mtx : t \notin Range(list[n]) /\ pc[t] # Taking(n)
  BY <1>1, RunnerFacts DEF IInv
<1>4. KernelInv'
  BY <1>1, <1>2, ErrorStep DEF IInv, Error
<1>5. hold' \in [Mtx -> 0 .. MaxHold] /\ FreeOrOwned'
  BY <1>1, <1>2, MutexAssumption DEF MutexInv, FreeOrOwned
<1>6. TakerOwnsIffGranted'
  BY <1>1, <1>2, <1>3 DEF MutexInv, TakerOwnsIffGranted, Taking
<1> QED
  BY <1>1, <1>2, <1>4, <1>5, <1>6 DEF IInv, MutexInv

\* ... of a free mutex,
LEMMA TakeFreeInv ==
    ASSUME IInv, NEW t \in Thread, t # Idle, NEW m \in Mtx, TakeFree(t, m)
    PROVE  IInv'
<1>1. /\ At(t, "app") /\ value[m] > 0
      /\ error' = [error EXCEPT ![t] = "EOK"]
      /\ value' = [value EXCEPT ![m] = @ - 1]
      /\ owner' = [owner EXCEPT ![m] = t]
      /\ original_priority' = [original_priority EXCEPT ![m] = current_priority[t]]
      /\ hold' = [hold EXCEPT ![m] = @ + 1]
      /\ UNCHANGED <<stat, current_priority, list, group, current, lock_nest,
                      delay, remaining_tick, irq, resched, pc>>
  BY DEF TakeFree
<1>2. error \in [Thread -> Error] /\ current_priority[t] \in Prio /\ MutexInv
  BY DEF IInv, KernelInv, KernelTypeOK
<1>3. \A n \in Mtx : t \notin Range(list[n]) /\ pc[t] # Taking(n)
  BY <1>1, RunnerFacts DEF IInv
<1>4. KernelInv'
  BY <1>1, <1>2, ErrorStep DEF IInv, Error
<1>5. value[m] = 1 /\ owner[m] = Null /\ hold[m] = 0 /\ list[m] = <<>>
  BY <1>1, <1>2 DEF MutexInv, FreeOrOwned
<1>6. Range(list[m]) = {}
  <2>1. list \in Lists /\ m \in ListHead
    BY InvParts, Heads DEF IInv, QueuesOK, Queues, Mtx
  <2> QED
    BY <1>5, <2>1, ListFacts
<1>7. /\ value' \in [Mtx -> {0, 1}] /\ owner' \in [Mtx -> Thread \cup {Null}]
      /\ original_priority' \in [Mtx -> Prio \cup {NoPrio}]
      /\ hold' \in [Mtx -> 0 .. MaxHold]
      /\ \A n \in Mtx : owner'[n] # Idle
  BY <1>1, <1>2, <1>5, MutexAssumption DEF MutexInv
<1>8. FreeOrOwned'
  BY <1>1, <1>2, <1>5, MutexAssumption DEF MutexInv, FreeOrOwned
<1>9. TakerOwnsIffGranted'
  <2> SUFFICES ASSUME NEW u \in Thread, NEW n \in Mtx PROVE TakerOK(u, n)'
    BY TakerDefNext
  <2>1. TakerOK(u, n)
    BY <1>2, TakerDef DEF MutexInv
  <2>2. CASE u = t
    BY <1>1, <1>3, <2>2 DEF TakerOK
  <2>3. CASE u # t
    <3>1. error'[u] = error[u]
      BY <1>1, <1>2, <2>3
    <3>2. CASE n = m
      <4>1. owner'[n] = t /\ owner[n] # u
        BY <1>1, <1>2, <1>5, <3>2, MutexAssumption DEF MutexInv
      <4> QED
        BY <1>1, <1>6, <2>1, <2>3, <3>1, <3>2, <4>1 DEF TakerOK
    <3>3. CASE n # m
      <4>1. owner'[n] = owner[n] /\ hold'[n] = hold[n]
        BY <1>1, <1>2, <3>3 DEF MutexInv
      <4> QED
        BY <1>1, <2>1, <3>1, <4>1 DEF TakerOK
    <3> QED
      BY <3>2, <3>3
  <2> QED
    BY <2>2, <2>3
<1> QED
  BY <1>1, <1>2, <1>4, <1>7, <1>8, <1>9 DEF IInv, MutexInv

\* ... a call that only sets the error of its thread,
LEMMA FailInv ==
    ASSUME IInv, NEW t \in Thread, NEW m \in Mtx, TakeFail(t, m) \/ ReleaseFail(t, m)
    PROVE  IInv'
<1>1. PICK e \in Error : error' = [error EXCEPT ![t] = e]
  BY DEF TakeFail, ReleaseFail, Error
<1>2. /\ At(t, "app")
      /\ UNCHANGED <<stat, current_priority, list, group, current, lock_nest, delay,
                      remaining_tick, irq, resched, value, owner, original_priority, hold, pc>>
  BY DEF TakeFail, ReleaseFail, mutexVars
<1>3. error \in [Thread -> Error] /\ MutexInv
  BY DEF IInv, KernelInv, KernelTypeOK
<1>4. \A n \in Mtx : t \notin Range(list[n]) /\ pc[t] # Taking(n)
  BY <1>2, RunnerFacts DEF IInv
<1>5. KernelInv'
  BY <1>1, <1>2, <1>3, ErrorStep DEF IInv
<1>6. FreeOrOwned'
  BY <1>2, <1>3 DEF MutexInv, FreeOrOwned
<1>7. TakerOwnsIffGranted'
  BY <1>1, <1>2, <1>3, <1>4 DEF MutexInv, TakerOwnsIffGranted, Taking
<1> QED
  BY <1>2, <1>3, <1>5, <1>6, <1>7 DEF IInv, MutexInv

\* ... the return of a take or a sleep,
LEMMA ReturnInv ==
    ASSUME IInv, NEW t \in Thread, MutexReturn(t)
    PROVE  IInv'
<1>1. PICK e \in Error : error' = [error EXCEPT ![t] = e]
  <2>1. error \in [Thread -> Error]
    BY DEF IInv, KernelInv, KernelTypeOK
  <2>2. CASE TakeReturn(t)
    BY <2>1, <2>2 DEF TakeReturn, kernelVars
  <2>3. CASE SleepReturn(t)
    BY <2>1, <2>3, ZenonT(60) DEF SleepReturn, SleepDone, Error
  <2> QED
    BY <2>2, <2>3 DEF MutexReturn
<1>2. /\ At(t, "take") \/ At(t, "sleep")
      /\ pc' = [pc EXCEPT ![t] = App]
      /\ UNCHANGED <<stat, current_priority, list, group, current, lock_nest, delay,
                      remaining_tick, irq, resched, value, owner, original_priority, hold>>
  BY DEF MutexReturn, TakeReturn, SleepReturn, SleepDone, Goto, kernelVars
<1>3. error \in [Thread -> Error] /\ MutexInv
  BY DEF IInv, KernelInv, KernelTypeOK
<1>4. \A n \in Mtx : t \notin Range(list[n])
  BY <1>2, RunnerFacts DEF IInv
<1>5. KernelInv'
  BY <1>1, <1>2, <1>3, ErrorStep DEF IInv
<1>6. FreeOrOwned' /\ pc' \in [Thread -> Calls]
  BY <1>2, <1>3, CallFacts DEF MutexInv, FreeOrOwned
<1>7. \A n \in Mtx : pc'[t] # Taking(n)
  BY <1>2, <1>3, CallFacts DEF MutexInv
<1>8. TakerOwnsIffGranted'
  BY <1>1, <1>2, <1>3, <1>4, <1>7 DEF MutexInv, TakerOwnsIffGranted, Taking
<1> QED
  BY <1>2, <1>3, <1>5, <1>6, <1>8 DEF IInv, MutexInv

\* ... and the release of a nested take.
LEMMA ReleaseInnerInv ==
    ASSUME IInv, NEW t \in Thread, NEW m \in Mtx, ReleaseInner(t, m)
    PROVE  IInv'
<1>1. /\ At(t, "app") /\ owner[m] = t /\ hold[m] > 1
      /\ hold' = [hold EXCEPT ![m] = @ - 1]
      /\ UNCHANGED <<stat, current_priority, list, group, current, lock_nest, delay, error,
                      remaining_tick, irq, resched, value, owner, original_priority, pc>>
  BY DEF ReleaseInner, kernelVars
<1>2. error \in [Thread -> Error] /\ MutexInv
  BY DEF IInv, KernelInv, KernelTypeOK
<1>3. \A n \in Mtx : t \notin Range(list[n]) /\ pc[t] # Taking(n)
  BY <1>1, RunnerFacts DEF IInv
<1>4. KernelInv'
  BY <1>1, <1>2, ErrorStep, ZenonT(60) DEF IInv
<1>5. hold' \in [Mtx -> 0 .. MaxHold] /\ FreeOrOwned'
  BY <1>1, <1>2, MutexAssumption DEF MutexInv, FreeOrOwned
<1>6. TakerOwnsIffGranted'
  BY <1>1, <1>2, <1>3 DEF MutexInv, TakerOwnsIffGranted, Taking
<1> QED
  BY <1>1, <1>2, <1>4, <1>5, <1>6 DEF IInv, MutexInv

-----------------------------------------------------------------------------
(* Steps that move nodes.  A take may move two: the owner, to the queue of *)
(* the priority it inherits, and the taker.  So may a release.             *)

\* A ready thread moves to the queue of another priority; the bitmap is
\* computed from the lists after the move.
LEMMA RequeueStep ==
    ASSUME QueuesOK, NEW o \in Thread, o # Idle, stat[o] = "READY",
           NEW p \in Prio, p # current_priority[o],
           NEW N, N = ReadyInsert(ListRemove(list, o), o, p)
    PROVE  /\ Queues(stat, [current_priority EXCEPT ![o] = p], N,
                     ClearBit(group, N, current_priority[o]) \cup {p})
           /\ Moved(list, N, o, {p})
<1> DEFINE M == ListRemove(list, o)
           c == current_priority[o]
           pr == [current_priority EXCEPT ![o] = p]
<1>1. /\ stat \in [Thread -> Stat] /\ current_priority \in [Thread -> Prio]
      /\ c \in Prio /\ c \in ListHead
  BY Heads, ZenonT(60) DEF QueuesOK, Queues
<1>2. Moved(list, M, o, {}) /\ ClearBit(group, M, c) = Bits(M)
  BY RemoveMoves DEF QueuesOK
<1>3. Moved(list, N, o, {p}) /\ Bits(N) = Bits(M) \cup {p}
  BY ReadyMoves DEF QueuesOK
<1>4. N[c] = M[c]
  <2>1. M \in Lists
    BY <1>2 DEF Moved
  <2> HIDE DEF M
  <2>2. \A h \in ListHead \ {p} : ReadyInsert(M, o, p)[h] = M[h]
    BY <2>1, ReadyInsertLemma
  <2> QED
    BY <1>1, <2>2 DEF M
<1>5. ClearBit(group, N, c) = ClearBit(group, M, c)
  BY <1>4 DEF ClearBit
<1>6. Agrees(stat, current_priority, stat, pr, o, {p})
  BY <1>1, Heads DEF Agrees
<1>7. Queues(stat, pr, N, Bits(N))
  <2> HIDE DEF pr
  <2> QED
    BY <1>3, <1>6, MoveLemma, ZenonT(60) DEF QueuesOK
<1> QED
  BY <1>2, <1>3, <1>5, <1>7

\* The owner o inherits the priority of t: its queue follows if it is ready,
\* and no wait list changes.
LEMMA InheritStep ==
    ASSUME QueuesOK, NEW t \in Thread, NEW o \in Thread, o # t, o # Idle,
           InheritPriority(t, o)
    PROVE  /\ Queues(stat, current_priority', InheritLists(t, o), InheritBits(t, o))
           /\ current_priority'[t] = current_priority[t]
           /\ \A m \in Mtx, u \in Thread :
                 u \in Range(InheritLists(t, o)[m]) <=> u \in Range(list[m])
<1> DEFINE p == current_priority[t]
           N == ReadyInsert(ListRemove(list, o), o, p)
<1>1. /\ stat \in [Thread -> Stat] /\ current_priority \in [Thread -> Prio]
      /\ p \in Prio /\ current_priority[o] \in Prio
      /\ current_priority'[t] = p
  BY DEF QueuesOK, Queues, InheritPriority
<1>2. CASE Inherits(t, o) /\ stat[o] = "READY"
  <2>1. /\ InheritLists(t, o) = N
        /\ InheritBits(t, o) = ClearBit(group, N, current_priority[o]) \cup {p}
        /\ current_priority' = [current_priority EXCEPT ![o] = p]
    BY <1>2 DEF InheritLists, InheritBits, InheritPriority
  <2>2. p # current_priority[o]
    BY <1>1, <1>2 DEF Inherits, Prio
  <2>3. /\ Queues(stat, [current_priority EXCEPT ![o] = p], N,
                  ClearBit(group, N, current_priority[o]) \cup {p})
        /\ Moved(list, N, o, {p})
    BY <1>1, <1>2, <2>2, RequeueStep, ZenonT(60)
  <2>4. \A m \in Mtx : m \in ListHead /\ m # p /\ o \notin Range(list[m])
    BY <1>1, <1>2, Heads DEF Mtx, QueuesOK, Queues
  <2> HIDE DEF N, p
  <2>5. \A m \in Mtx, u \in Thread : u \in Range(N[m]) <=> u \in Range(list[m])
    BY <2>3, <2>4 DEF Moved
  <2> QED
    BY <1>1, <2>1, <2>3, <2>5 DEF p
<1>3. CASE Inherits(t, o) /\ stat[o] # "READY"
  <2>1. /\ InheritLists(t, o) = list /\ InheritBits(t, o) = group
        /\ current_priority' = [current_priority EXCEPT ![o] = p]
    BY <1>3 DEF InheritLists, InheritBits, InheritPriority
  <2>2. /\ current_priority' \in [Thread -> Prio]
        /\ \A u \in Thread \ {o} : current_priority'[u] = current_priority[u]
    BY <1>1, <2>1, ZenonT(60)
  <2>3. \A q \in Prio : o \notin Range(list[q]) /\ Range(list[q]) \subseteq Thread
    BY <1>3, Heads, ListFacts DEF QueuesOK, Queues
  <2>4. current_priority'[Idle] = MaxPrio
    BY <2>2, PrioAssumption DEF QueuesOK, Queues
  <2>5. Queues(stat, current_priority', list, group)
    BY <2>2, <2>3, <2>4 DEF QueuesOK, Queues
  <2> QED
    BY <1>1, <2>1, <2>5
<1>4. CASE ~Inherits(t, o)
  BY <1>1, <1>4 DEF InheritLists, InheritBits, InheritPriority, QueuesOK
<1> QED
  BY <1>2, <1>3, <1>4

\* ... then t leaves its queue for the list of m.
LEMMA BlockStep ==
    ASSUME NEW pr, NEW L, NEW g, Queues(stat, pr, L, g),
           NEW t \in Thread, t # Idle, pr[t] = current_priority[t],
           current_priority \in [Thread -> Prio], NEW m \in Mtx,
           NEW N, N = WaitInsert(ListRemove(L, t), t, m)
    PROVE  /\ Queues([stat EXCEPT ![t] = "SUSPEND"], pr, N, ClearBit(g, N, current_priority[t]))
           /\ Moved(L, N, t, {m})
<1> DEFINE st == [stat EXCEPT ![t] = "SUSPEND"]
<1>1. m \in WaitList
  BY DEF Mtx
<1>2. Moved(L, N, t, {m}) /\ ClearBit(g, N, pr[t]) = Bits(N)
  BY <1>1, WaitMoves
<1>3. Agrees(stat, pr, st, pr, t, {m})
  BY <1>1, Heads DEF Agrees, Queues, Stat
<1>4. Queues(st, pr, N, Bits(N))
  <2> HIDE DEF st
  <2> QED
    BY <1>2, <1>3, MoveLemma, ZenonT(60)
<1> QED
  BY <1>2, <1>4

\* The lists and the bitmap when a release has restored the priority p of t.
RestoreLists(t, p) ==
    IF p # current_priority[t] THEN ReadyInsert(ListRemove(list, t), t, p) ELSE list

RestoreBits(t, p) ==
    IF p # current_priority[t]
    THEN ClearBit(group, RestoreLists(t, p), current_priority[t]) \cup {p} ELSE group

\* A release that hands the mutex over restores the priority of t,
LEMMA RestoreStep ==
    ASSUME QueuesOK, NEW t \in Thread, t # Idle, stat[t] = "READY",
           t \in Range(list[current_priority[t]]), NEW p \in Prio
    PROVE  /\ Queues(stat, [current_priority EXCEPT ![t] = p],
                     RestoreLists(t, p), RestoreBits(t, p))
           /\ t \in Range(RestoreLists(t, p)[p])
           /\ \A q \in WaitList, u \in Thread :
                 u \in Range(RestoreLists(t, p)[q]) <=> u \in Range(list[q])
<1> DEFINE L == RestoreLists(t, p)
           g == RestoreBits(t, p)
<1>1. current_priority \in [Thread -> Prio]
  BY DEF QueuesOK, Queues
<1>2. CASE p # current_priority[t]
  <2>1. /\ Queues(stat, [current_priority EXCEPT ![t] = p], L, g)
        /\ Moved(list, L, t, {p})
    BY <1>2, RequeueStep DEF RestoreLists, RestoreBits
  <2> HIDE DEF L, g
  <2>2. \A q \in WaitList : q \in ListHead /\ q # p /\ t \notin Range(list[q])
    BY Heads DEF QueuesOK, Queues
  <2>3. p \in ListHead
    BY Heads
  <2>4. t \in Range(L[p])
    BY <2>1, <2>3 DEF Moved
  <2>5. \A q \in WaitList, u \in Thread : u \in Range(L[q]) <=> u \in Range(list[q])
    BY <2>1, <2>2 DEF Moved
  <2> QED
    BY <2>1, <2>4, <2>5, ZenonT(60) DEF L, g
<1>3. CASE p = current_priority[t]
  <2>1. [current_priority EXCEPT ![t] = p] = current_priority /\ L = list /\ g = group
    BY <1>1, <1>3 DEF RestoreLists, RestoreBits
  <2> QED
    BY <1>3, <2>1 DEF QueuesOK
<1> QED
  BY <1>2, <1>3

\* ... then the first waiter w is resumed.
LEMMA HandOverStep ==
    ASSUME NEW pr, NEW L, NEW g, Queues(stat, pr, L, g),
           NEW w \in Thread, stat[w] = "SUSPEND",
           NEW N, N = ReadyInsert(ListRemove(L, w), w, pr[w])
    PROVE  /\ Queues([stat EXCEPT ![w] = "READY"], pr, N, g \cup {pr[w]})
           /\ Moved(L, N, w, {pr[w]})
<1> DEFINE st == [stat EXCEPT ![w] = "READY"]
<1>1. /\ stat \in [Thread -> Stat] /\ pr \in [Thread -> Prio] /\ pr[w] \in Prio
      /\ stat[Idle] = "READY"
  BY DEF Queues
<1>2. /\ Moved(L, N, w, {pr[w]})
      /\ Bits(N) = Bits(ListRemove(L, w)) \cup {pr[w]}
      /\ g \cup {pr[w]} = Bits(ListRemove(L, w)) \cup {pr[w]}
  BY <1>1, ReadyMoves, RemoveMoves
<1>3. Agrees(stat, pr, st, pr, w, {pr[w]})
  BY <1>1, Heads DEF Agrees, Stat
<1>4. Queues(st, pr, N, Bits(N))
  <2> HIDE DEF st
  <2> QED
    BY <1>2, <1>3, MoveLemma, ZenonT(60)
<1> QED
  BY <1>2, <1>4

\* rt_thread_sleep, perhaps by an owner, keeps the invariant.
LEMMA SleepInv ==
    ASSUME IInv, NEW t \in Thread, t # Idle, NEW d \in Delay, Sleep(t, d)
    PROVE  IInv'
<1>1. /\ At(t, "app") /\ lock_nest = 0 /\ SuspendThread(t)
      /\ stat' = [stat EXCEPT ![t] = "SUSPEND"]
      /\ delay' = [delay EXCEPT ![t] = d]
      /\ pc' = [pc EXCEPT ![t] = [op |-> "sleep"]]
      /\ resched' = resched \cup {t}
      /\ UNCHANGED <<current_priority, current, lock_nest, error, remaining_tick, irq,
                      value, owner, original_priority, hold>>
  BY DEF Sleep, SleepThread, SuspendThread, Goto
<1>2. QueuesOK /\ Rest /\ MutexInv
  BY InvParts, ZenonT(60) DEF IInv
<1>3. /\ current = t /\ stat[t] = "READY"
      /\ \A n \in Mtx : t \notin Range(list[n]) /\ pc[t] # Taking(n)
  BY <1>1, RunnerFacts, ZenonT(60) DEF IInv
<1>4. QueuesOK' /\ Moved(list, list', t, {})
  BY <1>1, <1>2, SuspendStep, ZenonT(60)
<1>5. \A n \in Mtx, u \in Thread : u \in Range(list'[n]) <=> u \in Range(list[n])
  BY <1>3, <1>4, Heads DEF Moved, Mtx
<1>6. stat'[t] = "SUSPEND" /\ \A u \in Thread \ {t} : stat'[u] = stat[u]
  BY <1>1, <1>2 DEF QueuesOK, Queues
<1>7. Rest'
  <2>1. delay' \in [Thread -> {Off} \cup 0 .. MaxDelay] /\ TimerImpliesSuspended'
    BY <1>1, <1>2, <1>6, TimeAssumption DEF Rest, TimerImpliesSuspended, Delay, Off
  <2>2. RunningIsReady'
    <3>1. current' = t /\ current' \in resched' /\ ~(lock_nest' > 0)
      BY <1>1, <1>3
    <3>2. stat'[current'] = "SUSPEND"
      BY <1>6, <3>1, ZenonT(60)
    <3> QED
      BY <3>1, <3>2 DEF RunningIsReady
  <2> QED
    BY <1>1, <1>2, <2>1, <2>2 DEF Rest
<1>8. FreeOrOwned'
  <2>1. list \in Lists /\ list' \in Lists
    BY <1>2, <1>4 DEF QueuesOK, Queues
  <2>2. \A n \in Mtx : list[n] = <<>> => list'[n] = <<>>
    BY <1>5, <2>1, StaysEmpty
  <2> QED
    <3>1. UNCHANGED <<value, owner, original_priority, hold>> /\ FreeOrOwned
      BY <1>1, <1>2, ZenonT(30) DEF MutexInv
    <3> QED
      BY <2>2, <3>1, ZenonT(60) DEF FreeOrOwned
<1>9. pc' \in [Thread -> Calls] /\ \A n \in Mtx : pc'[t] # Taking(n)
  BY <1>1, <1>2, CallFacts DEF MutexInv
<1>10. TakerOwnsIffGranted'
  <2> SUFFICES ASSUME NEW u \in Thread, NEW n \in Mtx PROVE TakerOK(u, n)'
    BY TakerDefNext
  <2>1. TakerOK(u, n)
    BY <1>2, TakerDef, ZenonT(60) DEF MutexInv
  <2>2. CASE u = t
    BY <1>3, <1>5, <1>9, <2>2, ZenonT(60) DEF TakerOK
  <2>3. CASE u # t
    <3>1. pc'[u] = pc[u]
      BY <1>1, <1>2, <2>3, ZenonT(60) DEF MutexInv
    <3> QED
      BY <1>1, <1>5, <1>6, <2>1, <2>3, <3>1, ZenonT(60) DEF TakerOK
  <2> QED
    BY <2>2, <2>3
<1> QED
  BY <1>1, <1>2, <1>4, <1>7, <1>8, <1>9, <1>10, InvPartsNext DEF IInv, MutexInv

-----------------------------------------------------------------------------
\* A release that hands the mutex to the first waiter keeps the invariant,
LEMMA ReleaseHandOverInv ==
    ASSUME IInv, NEW t \in Thread, t # Idle, NEW m \in Mtx, ReleaseHandOver(t, m)
    PROVE  IInv'
<1> DEFINE w == Head(list[m])
           p == original_priority[m]
           L == RestoreLists(t, p)
           g == RestoreBits(t, p)
<1>1. /\ At(t, "app") /\ owner[m] = t /\ hold[m] = 1 /\ list[m] # <<>>
      /\ current_priority' = [current_priority EXCEPT ![t] = p]
      /\ owner' = [owner EXCEPT ![m] = w]
      /\ original_priority' = [original_priority EXCEPT ![m] = current_priority[w]]
      /\ stat' = [stat EXCEPT ![w] = "READY"]
      /\ list' = ReadyInsert(ListRemove(L, w), w, current_priority[w])
      /\ group' = g \cup {current_priority[w]}
      /\ delay' = [delay EXCEPT ![w] = Off]
      /\ resched' = resched \cup {t}
      /\ UNCHANGED <<current, lock_nest, error, remaining_tick, irq, value, hold, pc>>
  BY DEF ReleaseHandOver, RestoreLists, RestoreBits
<1>2. QueuesOK /\ Rest /\ MutexInv
  BY InvParts, ZenonT(60) DEF IInv
<1>3. value[m] = 0 /\ p \in Prio /\ p \in ListHead
  BY <1>1, <1>2, MutexAssumption, Heads, ZenonT(60) DEF MutexInv, FreeOrOwned
<1>4. /\ current = t /\ stat[t] = "READY" /\ t \in Range(list[current_priority[t]])
      /\ \A n \in Mtx : t \notin Range(list[n]) /\ pc[t] # Taking(n)
  BY <1>1, RunnerFacts DEF IInv
<1>5. w \in Thread /\ w \in Range(list[m])
  <2>1. list[m] \in Seq(Thread)
    BY <1>2, ListFacts, Heads, ZenonT(60) DEF QueuesOK, Queues, Mtx
  <2> QED
    BY <1>1, <2>1, HeadInRange, ZenonT(60)
<1> HIDE DEF w, p, L, g
<1>6. stat[w] = "SUSPEND" /\ w # t /\ w # Idle
  BY <1>2, <1>4, <1>5, ZenonT(60) DEF QueuesOK, Queues, Mtx
<1>7. /\ Queues(stat, current_priority', L, g)
      /\ t \in Range(L[p])
      /\ \A q \in WaitList, u \in Thread : u \in Range(L[q]) <=> u \in Range(list[q])
  <2>1. /\ Queues(stat, [current_priority EXCEPT ![t] = p], L, g)
        /\ t \in Range(L[p])
        /\ \A q \in WaitList, u \in Thread : u \in Range(L[q]) <=> u \in Range(list[q])
    BY <1>2, <1>3, <1>4, RestoreStep, ZenonT(60) DEF L, g
  <2> QED
    BY <1>1, <2>1, ZenonT(60)
<1>8. current_priority'[w] = current_priority[w] /\ current_priority'[t] = p
      /\ current_priority[w] \in Prio
  BY <1>1, <1>2, <1>5, <1>6, ZenonT(60) DEF QueuesOK, Queues
<1>9. QueuesOK' /\ Moved(L, list', w, {current_priority[w]})
  BY <1>1, <1>5, <1>6, <1>7, <1>8, HandOverStep, ZenonT(60) DEF QueuesOK
<1>10. /\ t \in Range(list'[current_priority'[t]])
       /\ \A n \in Mtx, u \in Thread :
             u \in Range(list'[n]) <=> u # w /\ u \in Range(list[n])
  <2>1. \A n \in Mtx : n \in WaitList /\ n \in ListHead /\ n # current_priority[w]
    BY <1>8, Heads, ZenonT(60) DEF Mtx
  <2> QED
    BY <1>3, <1>6, <1>7, <1>8, <1>9, <2>1, ZenonT(60) DEF Moved
<1>11. stat'[w] = "READY" /\ \A u \in Thread \ {w} : stat'[u] = stat[u]
  BY <1>1, <1>2, <1>5, ZenonT(60) DEF QueuesOK, Queues
<1>12. Rest'
  <2>1. delay' \in [Thread -> {Off} \cup 0 .. MaxDelay] /\ TimerImpliesSuspended'
    BY <1>1, <1>2, <1>5, <1>11 DEF Rest, TimerImpliesSuspended, Off
  <2>2. RunningIsReady'
    BY <1>1, <1>4, <1>6, <1>10, <1>11, ZenonT(60) DEF RunningIsReady
  <2> QED
    BY <1>1, <1>2, <2>1, <2>2, ZenonT(60) DEF Rest
<1>13. /\ owner' \in [Mtx -> Thread \cup {Null}]
       /\ original_priority' \in [Mtx -> Prio \cup {NoPrio}]
       /\ \A n \in Mtx : owner'[n] # Idle
  BY <1>1, <1>2, <1>5, <1>6, <1>8, ZenonT(60) DEF MutexInv
<1>14. FreeOrOwned'
  <2>1. list \in Lists /\ list' \in Lists
    BY <1>2, <1>9 DEF QueuesOK, Queues
  <2>2. \A n \in Mtx : list[n] = <<>> => list'[n] = <<>>
    BY <1>10, <2>1, StaysEmpty
  <2> QED
    BY <1>1, <1>2, <1>3, <1>5, <1>8, <2>2, ZenonT(60) DEF MutexInv, FreeOrOwned
<1>15. TakerOwnsIffGranted'
  <2> SUFFICES ASSUME NEW u \in Thread, NEW n \in Mtx PROVE TakerOK(u, n)'
    BY TakerDefNext
  <2>1. TakerOK(u, n) /\ TakerOK(w, m)
    BY <1>2, <1>5, TakerDef, ZenonT(60) DEF MutexInv
  <2>2. CASE u = w
    <3>1. pc[w] = Taking(m) /\ error[w] = "EOK"
      BY <1>5, <1>6, <2>1, ZenonT(60) DEF TakerOK
    <3>2. owner'[m] = w
      BY <1>1, <1>2, ZenonT(60) DEF MutexInv
    <3> QED
      <4>1. pc'[w] = Taking(m) /\ error'[w] = "EOK" /\ hold'[m] = 1 /\ stat'[w] = "READY"
        BY <1>1, <1>11, <3>1
      <4>2. Taking(n) = Taking(m) => n = m
        BY CallFacts
      <4>3. w \notin Range(list'[n])
        BY <1>5, <1>10, ZenonT(60)
      <4> QED
        BY <2>2, <3>2, <4>1, <4>2, <4>3, ZenonT(60) DEF TakerOK
  <2>3. CASE u # w
    <3>1. n = m => owner'[n] = w
      BY <1>1, <1>2, ZenonT(60) DEF MutexInv
    <3>2. n # m => owner'[n] = owner[n]
      BY <1>1, <1>2, ZenonT(60) DEF MutexInv
    <3> QED
      <4>1. pc'[u] = pc[u] /\ error'[u] = error[u] /\ stat'[u] = stat[u] /\ hold'[n] = hold[n]
        BY <1>1, <1>11, <2>3, ZenonT(60)
      <4>2. u \in Range(list'[n]) <=> u \in Range(list[n])
        BY <1>10, <2>3, ZenonT(60)
      <4>3. n = m /\ pc[u] = Taking(n) => owner[n] # u /\ owner'[n] # u
        BY <1>1, <1>4, <2>3, <3>1, ZenonT(60)
      <4> QED
        BY <2>1, <3>2, <4>1, <4>2, <4>3, ZenonT(60) DEF TakerOK
  <2> QED
    BY <2>2, <2>3
<1> QED
  BY <1>1, <1>2, <1>9, <1>12, <1>13, <1>14, <1>15, InvPartsNext, ZenonT(60) DEF IInv, MutexInv

\* ... so does rt_mutex_take of a mutex another thread owns,
LEMMA TakeWaitInv ==
    ASSUME IInv, NEW t \in Thread, t # Idle, NEW m \in Mtx,
           NEW time \in Delay \cup {Forever}, TakeWait(t, m, time)
    PROVE  IInv'
<1> DEFINE o == owner[m]
<1>1. /\ At(t, "app") /\ lock_nest = 0 /\ o # t /\ value[m] = 0
      /\ error' = [error EXCEPT ![t] = "EOK"]
      /\ InheritPriority(t, o)
      /\ stat' = [stat EXCEPT ![t] = "SUSPEND"]
      /\ list' = WaitInsert(ListRemove(InheritLists(t, o), t), t, m)
      /\ group' = ClearBit(InheritBits(t, o), list', current_priority[t])
      /\ delay' = [delay EXCEPT ![t] = time]
      /\ pc' = [pc EXCEPT ![t] = Taking(m)]
      /\ resched' = resched \cup {t}
      /\ UNCHANGED <<current, lock_nest, remaining_tick, irq,
                      value, owner, original_priority, hold>>
  BY DEF TakeWait, MustWait, Block, Goto, Taking
<1>2. QueuesOK /\ Rest /\ MutexInv
  BY InvParts DEF IInv
<1>3. o \in Thread /\ o # Idle
  <2>1. value[m] = 0
    BY <1>1, ZenonT(60)
  <2>2. FreeOrOwned /\ owner[m] # Idle
    BY <1>2 DEF MutexInv
  <2>3. value[m] = 1 \/ owner[m] \in Thread
    BY <2>2, ZenonT(60) DEF FreeOrOwned
  <2> QED
    BY <2>1, <2>2, <2>3
<1>4. current = t /\ stat[t] = "READY" /\ \A n \in Mtx : t \notin Range(list[n])
  BY <1>1, RunnerFacts, ZenonT(60) DEF IInv
<1>5. /\ Queues(stat, current_priority', InheritLists(t, o), InheritBits(t, o))
      /\ current_priority'[t] = current_priority[t]
      /\ \A n \in Mtx, u \in Thread : u \in Range(InheritLists(t, o)[n]) <=> u \in Range(list[n])
  BY <1>1, <1>2, <1>3, InheritStep, ZenonT(60)
<1>6. QueuesOK' /\ Moved(InheritLists(t, o), list', t, {m})
  <2>1. current_priority \in [Thread -> Prio]
    BY <1>2, ZenonT(60) DEF QueuesOK, Queues
  <2> HIDE DEF o
  <2> QED
    BY <1>1, <1>5, <2>1, BlockStep, ZenonT(60) DEF QueuesOK
<1>7. \A u \in Thread, n \in Mtx :
          u \in Range(list'[n]) <=> IF u = t THEN n = m ELSE u \in Range(list[n])
  <2> HIDE DEF o
  <2> QED
    BY <1>5, <1>6, Heads, ZenonT(60) DEF Moved, Mtx
<1>8. stat'[t] = "SUSPEND" /\ \A u \in Thread \ {t} : stat'[u] = stat[u]
  <2>1. stat \in [Thread -> Stat]
    BY <1>2, ZenonT(60) DEF QueuesOK, Queues
  <2>2. stat' = [stat EXCEPT ![t] = "SUSPEND"]
    BY <1>1, ZenonT(60)
  <2> QED
    BY <2>1, <2>2, ZenonT(60)
<1>9. Rest'
  <2>1. delay' \in [Thread -> {Off} \cup 0 .. MaxDelay] /\ error' \in [Thread -> Error]
    <3>1. delay' = [delay EXCEPT ![t] = time] /\ error' = [error EXCEPT ![t] = "EOK"]
      BY <1>1, ZenonT(60)
    <3>2. delay \in [Thread -> {Off} \cup 0 .. MaxDelay] /\ error \in [Thread -> Error]
      BY <1>2 DEF Rest
    <3>3. time \in {Off} \cup 0 .. MaxDelay /\ "EOK" \in Error
      BY DEF Error, Delay, Forever, Off
    <3> QED
      BY <3>1, <3>2, <3>3, ZenonT(60)
  <2>2. TimerImpliesSuspended'
    <3>1. time # 0
      BY TimeAssumption DEF Delay, Forever, Off
    <3>2. delay'[t] = time /\ irq' = irq /\ \A u \in Thread \ {t} : delay'[u] = delay[u]
      BY <1>1, <1>2, ZenonT(60) DEF Rest
    <3>3. TimerImpliesSuspended
      BY <1>2 DEF Rest
    <3> QED
      BY <1>8, <3>1, <3>2, <3>3, ZenonT(60) DEF TimerImpliesSuspended
  <2>3. RunningIsReady'
    <3>1. current' = t /\ current' \in resched' /\ ~(lock_nest' > 0)
      <4>1. current' = current /\ lock_nest' = 0 /\ resched' = resched \cup {t}
        BY <1>1, ZenonT(30)
      <4> QED
        BY <1>4, <4>1
    <3>2. stat'[current'] = "SUSPEND"
      BY <1>8, <3>1, ZenonT(60)
    <3> QED
      BY <3>1, <3>2 DEF RunningIsReady
  <2> QED
    BY <1>1, <1>2, <2>1, <2>2, <2>3, ZenonT(60) DEF Rest
<1>10. FreeOrOwned'
  <2>1. list \in Lists /\ list' \in Lists
    BY <1>2, <1>6, ZenonT(60) DEF QueuesOK, Queues
  <2>2. \A n \in Mtx : value[n] = 1 /\ list[n] = <<>> => list'[n] = <<>>
    <3> SUFFICES ASSUME NEW n \in Mtx, value[n] = 1, list[n] = <<>>
                 PROVE  list'[n] = <<>>
      BY ZenonT(60)
    <3>1. n # m
      <4>1. value[m] = 0
        BY <1>1, ZenonT(30)
      <4> QED
        BY <4>1
    <3>2. \A u \in Thread : u \in Range(list'[n]) => u \in Range(list[n])
      BY <1>7, <3>1
    <3> QED
      BY <2>1, <3>2, StaysEmpty, ZenonT(60)
  <2> QED
    BY <1>1, <1>2, <2>2, ZenonT(60) DEF MutexInv, FreeOrOwned
<1>11. TakerOwnsIffGranted'
  <2> SUFFICES ASSUME NEW u \in Thread, NEW n \in Mtx PROVE TakerOK(u, n)'
    BY TakerDefNext
  <2>1. TakerOK(u, n)
    BY <1>2, TakerDef, ZenonT(60) DEF MutexInv
  <2>2. CASE u = t
    <3>1. pc'[u] = Taking(m) /\ error'[u] = "EOK" /\ owner'[m] # u
      BY <1>1, <1>2, <2>2, ZenonT(60) DEF MutexInv, Rest
    <3> QED
      BY <1>7, <1>8, <2>2, <3>1, CallFacts, ZenonT(60) DEF TakerOK
  <2>3. CASE u # t
    <3>1. pc'[u] = pc[u] /\ error'[u] = error[u] /\ stat'[u] = stat[u]
      BY <1>1, <1>2, <1>8, <2>3, ZenonT(60) DEF MutexInv, Rest
    <3> QED
      BY <1>1, <1>7, <2>1, <2>3, <3>1, ZenonT(60) DEF TakerOK
  <2> QED
    BY <2>2, <2>3
<1>12. pc' \in [Thread -> Calls]
  BY <1>1, <1>2, CallFacts, ZenonT(60) DEF MutexInv
<1> QED
  BY <1>1, <1>2, <1>6, <1>9, <1>10, <1>11, <1>12, InvPartsNext, ZenonT(60) DEF IInv, MutexInv

\* ... and the last release of a mutex nobody waits for.
LEMMA ReleaseFreeInv ==
    ASSUME IInv, NEW t \in Thread, t # Idle, NEW m \in Mtx, ReleaseFree(t, m)
    PROVE  IInv'
<1> DEFINE p == original_priority[m]
<1>1. /\ At(t, "app") /\ owner[m] = t /\ hold[m] = 1 /\ list[m] = <<>>
      /\ hold' = [hold EXCEPT ![m] = 0]
      /\ value' = [value EXCEPT ![m] = @ + 1]
      /\ owner' = [owner EXCEPT ![m] = Null]
      /\ original_priority' = [original_priority EXCEPT ![m] = NoPrio]
      /\ RestorePriority(t, m)
      /\ UNCHANGED <<stat, current, lock_nest, delay, error, remaining_tick,
                      irq, resched, pc>>
  BY ZenonT(60) DEF ReleaseFree, LastRelease
<1>2. QueuesOK /\ Rest /\ MutexInv
  BY InvParts DEF IInv
<1>3. value[m] = 0 /\ p \in Prio
  BY <1>1, <1>2, MutexAssumption, ZenonT(60) DEF MutexInv, FreeOrOwned
<1>4. /\ current = t /\ stat[t] = "READY" /\ t \in Range(list[current_priority[t]])
      /\ \A n \in Mtx : t \notin Range(list[n]) /\ pc[t] # Taking(n)
  BY <1>1, RunnerFacts, ZenonT(60) DEF IInv
<1>5. /\ QueuesOK' /\ t \in Range(list'[current_priority'[t]])
      /\ \A n \in Mtx, u \in Thread : u \in Range(list'[n]) <=> u \in Range(list[n])
  <2>1. CASE p # current_priority[t]
    <3>1. SetPriority(t, p)
      BY <1>1, <2>1, ZenonT(60) DEF RestorePriority
    <3>2. QueuesOK' /\ Moved(list, list', t, {p})
      BY <1>1, <1>2, <1>3, <1>4, <3>1, SetPriorityStep, ZenonT(60)
    <3>3. current_priority'[t] = p
      BY <1>2, <3>1, ZenonT(60) DEF SetPriority, QueuesOK, Queues
    <3> QED
      <4>1. p \in ListHead /\ \A n \in Mtx : n \in ListHead /\ n # p
        BY <1>3, Heads, ZenonT(60) DEF Mtx
      <4>2. t \in Range(list'[p])
        BY <3>2, <4>1, ZenonT(60) DEF Moved
      <4>3. \A n \in Mtx : t \notin Range(list'[n])
        BY <3>2, <4>1, ZenonT(60) DEF Moved
      <4>4. \A n \in Mtx : \A u \in Thread \ {t} : u \in Range(list'[n]) <=> u \in Range(list[n])
        BY <3>2, <4>1, ZenonT(60) DEF Moved
      <4> QED
        BY <1>4, <3>2, <3>3, <4>2, <4>3, <4>4, ZenonT(60)
  <2>2. CASE p = current_priority[t]
    BY <1>1, <1>2, <1>4, <2>2, ZenonT(60) DEF RestorePriority, QueuesOK
  <2> QED
    BY <2>1, <2>2, ZenonT(60)
<1>6. Rest'
  BY <1>1, <1>2, <1>4, <1>5, ZenonT(60) DEF Rest, TimerImpliesSuspended, RunningIsReady
<1>7. FreeOrOwned'
  <2>1. list \in Lists /\ list' \in Lists
    BY <1>2, <1>5, ZenonT(60) DEF QueuesOK, Queues
  <2>2. \A n \in Mtx : list[n] = <<>> => list'[n] = <<>>
    BY <1>5, <2>1, StaysEmpty
  <2>3. /\ hold' = [hold EXCEPT ![m] = 0] /\ value' = [value EXCEPT ![m] = 1]
        /\ owner' = [owner EXCEPT ![m] = Null]
        /\ original_priority' = [original_priority EXCEPT ![m] = NoPrio]
    <3>1. value' = [value EXCEPT ![m] = @ + 1] /\ value \in [Mtx -> {0, 1}]
      BY <1>1, <1>2, ZenonT(30) DEF MutexInv
    <3>2. value' = [value EXCEPT ![m] = 1]
      BY <1>3, <3>1
    <3> QED
      BY <1>1, <3>2, ZenonT(30)
  <2>4. /\ value \in [Mtx -> {0, 1}] /\ owner \in [Mtx -> Thread \cup {Null}]
        /\ original_priority \in [Mtx -> Prio \cup {NoPrio}] /\ hold \in [Mtx -> 0 .. MaxHold]
    BY <1>2, ZenonT(30) DEF MutexInv
  <2> QED
    <3> SUFFICES ASSUME NEW n \in Mtx
                 PROVE  \/ /\ value'[n] = 1 /\ owner'[n] = Null /\ hold'[n] = 0
                           /\ original_priority'[n] = NoPrio /\ list'[n] = <<>>
                        \/ /\ value'[n] = 0 /\ owner'[n] \in Thread /\ hold'[n] > 0
                           /\ original_priority'[n] \in Prio
      BY ZenonT(60) DEF FreeOrOwned
    <3>1. CASE n = m
      <4>1. value'[m] = 1 /\ owner'[m] = Null /\ hold'[m] = 0 /\ original_priority'[m] = NoPrio
        BY <2>3, <2>4, ZenonT(60)
      <4> QED
        BY <1>1, <2>2, <3>1, <4>1, ZenonT(60)
    <3>2. CASE n # m
      <4>1. /\ value'[n] = value[n] /\ owner'[n] = owner[n] /\ hold'[n] = hold[n]
            /\ original_priority'[n] = original_priority[n]
        BY <2>3, <2>4, <3>2
      <4>2. FreeOrOwned
        BY <1>2, ZenonT(60) DEF MutexInv
      <4> QED
        BY <2>2, <4>1, <4>2, ZenonT(60) DEF FreeOrOwned
    <3> QED
      BY <3>1, <3>2, ZenonT(60)
<1>8. TakerOwnsIffGranted'
  <2> SUFFICES ASSUME NEW u \in Thread, NEW n \in Mtx PROVE TakerOK(u, n)'
    BY TakerDefNext
  <2>1. TakerOK(u, n)
    BY <1>2, TakerDef, ZenonT(60) DEF MutexInv
  <2>2. CASE u = t
    BY <1>1, <1>4, <1>5, <2>2, ZenonT(60) DEF TakerOK
  <2>3. CASE u # t
    <3>1. n = m => owner'[n] = Null
      BY <1>1, <1>2, ZenonT(60) DEF MutexInv
    <3>2. n # m => owner'[n] = owner[n] /\ hold'[n] = hold[n]
      BY <1>1, <1>2 DEF MutexInv
    <3> QED
      BY <1>1, <1>5, <2>1, <2>3, <3>1, <3>2, MutexAssumption, ZenonT(60) DEF TakerOK
  <2> QED
    BY <2>2, <2>3
<1>9. /\ value' \in [Mtx -> {0, 1}] /\ owner' \in [Mtx -> Thread \cup {Null}]
      /\ original_priority' \in [Mtx -> Prio \cup {NoPrio}]
      /\ hold' \in [Mtx -> 0 .. MaxHold]
      /\ \A n \in Mtx : owner'[n] # Idle
  <2>1. value' = [value EXCEPT ![m] = 1]
    <3>1. value' = [value EXCEPT ![m] = @ + 1] /\ value \in [Mtx -> {0, 1}]
      BY <1>1, <1>2, ZenonT(30) DEF MutexInv
    <3> QED
      BY <1>3, <3>1
  <2>2. value' \in [Mtx -> {0, 1}]
    BY <1>2, <2>1 DEF MutexInv
  <2>3. 0 \in 0 .. MaxHold
    BY MutexAssumption
  <2>4. hold' \in [Mtx -> 0 .. MaxHold]
    BY <1>1, <1>2, <2>3, ZenonT(60) DEF MutexInv
  <2>5. owner' = [owner EXCEPT ![m] = Null] /\ owner \in [Mtx -> Thread \cup {Null}]
        /\ Null # Idle /\ \A n \in Mtx : owner[n] # Idle
    BY <1>1, <1>2, MutexAssumption, PrioAssumption DEF MutexInv
  <2>6. owner' \in [Mtx -> Thread \cup {Null}] /\ \A n \in Mtx : owner'[n] # Idle
    BY <2>5, ZenonT(60)
  <2>7. original_priority' \in [Mtx -> Prio \cup {NoPrio}]
    BY <1>1, <1>2 DEF MutexInv
  <2> QED
    BY <2>2, <2>4, <2>6, <2>7, ZenonT(60)
<1> QED
  BY <1>1, <1>2, <1>5, <1>6, <1>7, <1>8, <1>9, InvPartsNext, ZenonT(60) DEF IInv, MutexInv

-----------------------------------------------------------------------------
\* The invariant holds initially,
LEMMA InitIInv == Init => IInv
<1> SUFFICES ASSUME Init PROVE IInv
  OBVIOUS
<1>1. KernelInv
  BY KernelInitInv, ZenonT(60) DEF Init
<1>2. \A m \in Mtx : list[m] = <<>> /\ Range(list[m]) = {}
  <2>1. list = [h \in ListHead |-> IF h \in Prio THEN InitReady[h] ELSE <<>>]
    BY ZenonT(60) DEF Init, KernelInit
  <2>2. \A m \in Mtx : m \in ListHead /\ m \notin Prio
    BY Heads, ZenonT(60) DEF Mtx
  <2>3. \A m \in Mtx : list[m] = <<>>
    BY <2>1, <2>2
  <2>4. list \in Lists
    BY <1>1, InvParts DEF QueuesOK, Queues
  <2> QED
    BY <2>2, <2>3, <2>4, ListFacts, ZenonT(60)
<1>3. /\ value = [m \in Mtx |-> 1] /\ owner = [m \in Mtx |-> Null]
      /\ original_priority = [m \in Mtx |-> NoPrio] /\ hold = [m \in Mtx |-> 0]
      /\ pc = [t \in Thread |-> App]
  BY ZenonT(60) DEF Init
<1>4. FreeOrOwned
  BY <1>2, <1>3, ZenonT(60) DEF FreeOrOwned
<1>5. \A u \in Thread, m \in Mtx : TakerOK(u, m)
  <2>1. \A u \in Thread, m \in Mtx : pc[u] # Taking(m)
    BY <1>3, CallFacts
  <2> QED
    BY <1>2, <2>1 DEF TakerOK
<1>6. /\ value \in [Mtx -> {0, 1}] /\ owner \in [Mtx -> Thread \cup {Null}]
      /\ original_priority \in [Mtx -> Prio \cup {NoPrio}] /\ hold \in [Mtx -> 0 .. MaxHold]
      /\ pc \in [Thread -> Calls] /\ \A m \in Mtx : owner[m] # Idle
  BY <1>3, CallFacts, MutexAssumption, PrioAssumption
<1> QED
  BY <1>1, <1>4, <1>5, <1>6, TakerDef DEF IInv, MutexInv

\* ... every step keeps it,
LEMMA NextIInv == IInv /\ [Next]_vars => IInv'
<1> SUFFICES ASSUME IInv, [Next]_vars PROVE IInv'
  OBVIOUS
<1>1. CASE KernelStep /\ UNCHANGED mutexVars
  <2>1. KernelInv' /\ \A u \in Thread : Kept(u) \/ TimedOut(u)
    BY <1>1, KernelStepInv, KernelStepWaiters, ZenonT(60) DEF IInv
  <2>2. list \in Lists /\ list' \in Lists
    BY <2>1, InvParts, InvPartsNext DEF IInv, QueuesOK, Queues
  <2>3. MutexInv'
    BY <1>1, <2>1, <2>2, KeepsMutexInv, ZenonT(60) DEF IInv
  <2> QED
    BY <2>1, <2>3 DEF IInv
<1>2. ASSUME NEW t \in Thread \ {Idle}, MutexCall(t) PROVE IInv'
  BY <1>2, TakeAgainInv, TakeFreeInv, FailInv, TakeWaitInv, ReleaseInnerInv,
     ReleaseFreeInv, ReleaseHandOverInv, SleepInv DEF MutexCall
<1>3. ASSUME NEW t \in Thread \ {Idle}, MutexReturn(t) PROVE IInv'
  BY <1>3, ReturnInv, ZenonT(60)
<1>4. CASE UNCHANGED vars
  <2>1. UNCHANGED <<stat, current_priority, list, group, current, lock_nest, delay, error,
                    remaining_tick, irq, resched, value, owner, original_priority, hold, pc>>
    BY <1>4, ZenonT(60) DEF vars, kernelVars
  <2>2. KernelInv'
    BY <2>1, ErrorStep, ZenonT(60) DEF IInv, KernelInv, KernelTypeOK
  <2>3. FreeOrOwned' /\ TakerOwnsIffGranted'
    BY <2>1, ZenonT(60) DEF IInv, MutexInv, FreeOrOwned, TakerOwnsIffGranted
  <2> QED
    BY <2>1, <2>2, <2>3, ZenonT(60) DEF IInv, MutexInv
<1> QED
  BY <1>1, <1>2, <1>3, <1>4 DEF Next

\* Mutual exclusion: however takes, releases, hand-overs, inheritance, sleeps
\* and time-outs interleave, a mutex is free or has one owner, a take returns
\* RT_EOK exactly to the owner, nobody waits for a free mutex, and the kernel's
\* lists follow every change of priority.
THEOREM MutualExclusion == Spec => []Ownership
<1>1. IInv => Ownership
  BY DEF IInv, MutexInv, Ownership, TypeOK, KernelInv
<1> QED
  BY <1>1, InitIInv, NextIInv, PTL DEF Spec

-----------------------------------------------------------------------------
(* Priority inheritance.  A mutex remembers one priority to give back and   *)
(* an owner inherits once, when a waiter arrives, so what is promised of    *)
(* priorities rests on how the callers use the mutexes: OneAtATime says     *)
(* that no thread owns or waits for two at once.                            *)

Uses(t, m) == owner[m] = t \/ t \in Range(list[m])

OneAtATime ==
    \A t \in Thread, m, n \in Mtx : Uses(t, m) /\ Uses(t, n) => m = n

\* Beside the two invariants, what a release needs: the priority to give back
\* is the owner's own, and the first waiter is one of the most urgent.
PrioInv ==
    /\ PriorityRestored
    /\ \A m \in Mtx : owner[m] # Null => original_priority[m] = InitPrio[owner[m]]
    /\ \A m \in Mtx : Flag[m] = "PRIO" =>
          /\ Ascending(list[m], InitPrio)   \* the waiters, by their own priorities
          /\ \A u \in Range(list[m]) : current_priority[owner[m]] <= current_priority[u]

\* rt_ipc_list_suspend finds a place that keeps the list in order, when all in
\* it have their own priorities.
LEMMA WaitKeepsOrder ==
    ASSUME NEW s \in Seq(Thread), NEW t \in Thread, Ascending(s, InitPrio),
           current_priority \in [Thread -> Prio],
           current_priority[t] = InitPrio[t],
           \A u \in Range(s) : current_priority[u] = InitPrio[u]
    PROVE  Ascending(NodeInsert(s, WaitPos(s, t, "PRIO"), t), InitPrio)
<1> DEFINE I == {i \in DOMAIN s : current_priority[t] < current_priority[s[i]]}
                  \cup {Len(s) + 1}
<1>1. PICK i \in 1 .. Len(s) + 1 : i = WaitPos(s, t, "PRIO")
  BY WaitPosLemma
<1>2. i \in I /\ \A j \in I : i <= j
  <2>1. I # {} /\ I \in SUBSET Nat
    OBVIOUS
  <2>2. i = Min(I)
    BY <1>1 DEF WaitPos
  <2> HIDE DEF I
  <2> QED
    BY <2>1, <2>2, MinOfNats, ZenonT(60)
<1>3. \A j \in 1 .. Len(s) : s[j] \in Thread /\ current_priority[s[j]] = InitPrio[s[j]]
                             /\ InitPrio[s[j]] \in Int
  BY PrioAssumption DEF Range, Prio
<1>4. InitPrio[t] \in Int
  BY PrioAssumption DEF Prio
<1>5. \A j \in 1 .. Len(s) : j < i => InitPrio[s[j]] <= InitPrio[t]
  BY <1>2, <1>3, <1>4
<1>6. \A j \in 1 .. Len(s) : i <= j => InitPrio[t] <= InitPrio[s[j]]
  <2> SUFFICES ASSUME NEW j \in 1 .. Len(s), i <= j PROVE InitPrio[t] <= InitPrio[s[j]]
    OBVIOUS
  <2>1. i \in 1 .. Len(s) /\ InitPrio[t] < InitPrio[s[i]]
    BY <1>2, <1>3
  <2>2. InitPrio[s[i]] <= InitPrio[s[j]]
    BY <1>3, <2>1 DEF Ascending
  <2> QED
    BY <1>3, <1>4, <2>1, <2>2
<1> QED
  BY <1>1, <1>5, <1>6, AscendingInsert, ZenonT(60)

\* ... and adds the thread.
LEMMA WaitAdds ==
    ASSUME NEW s \in Seq(Thread), NEW t \in Thread, NEW f \in {"FIFO", "PRIO", "LIFO"},
           current_priority \in [Thread -> Prio]
    PROVE  Range(NodeInsert(s, WaitPos(s, t, f), t)) = Range(s) \cup {t}
<1>1. WaitPos(s, t, f) \in 1 .. Len(s) + 1
  BY WaitPosLemma, ZenonT(60)
<1> QED
  BY <1>1, InsertLemma

\* What the lemmas below use of the invariant.
LEMMA StateFacts ==
    ASSUME IInv
    PROVE  /\ QueuesOK /\ list \in Lists
           /\ \A n \in Mtx : IsInjective(list[n]) /\ list[n] \in Seq(Thread)
           /\ \A n \in Mtx : Flag[n] \in {"FIFO", "PRIO", "LIFO"}
           /\ current_priority \in [Thread -> Prio]
           /\ owner \in [Mtx -> Thread \cup {Null}] /\ Null \notin Thread
           /\ original_priority \in [Mtx -> Prio \cup {NoPrio}]
           /\ \A n \in Mtx : \/ value[n] = 1 /\ owner[n] = Null /\ list[n] = <<>>
                             \/ value[n] = 0 /\ owner[n] \in Thread
<1>1. QueuesOK /\ MutexInv
  BY InvParts DEF IInv
<1>2. \A n \in Mtx : n \in ListHead /\ Flag[n] \in {"FIFO", "PRIO", "LIFO"}
  BY Heads, HeadAssumption DEF Mtx
<1>3. list \in Lists /\ \A n \in Mtx : IsInjective(list[n]) /\ list[n] \in Seq(Thread)
  BY <1>1, <1>2 DEF QueuesOK, Queues, Lists
<1>4. current_priority \in [Thread -> Prio]
  BY <1>1 DEF QueuesOK, Queues
<1> QED
  BY <1>1, <1>2, <1>3, <1>4, MutexAssumption DEF MutexInv, FreeOrOwned

\* A mutex that is taken has an owner.
LEMMA TakenIsOwned ==
    ASSUME IInv, NEW m \in Mtx, value[m] = 0
    PROVE  owner[m] \in Thread
BY StateFacts

\* A wait list stays as it is or loses a node.
Shrinks(m) == list'[m] = list[m] \/ \E e : list'[m] = NodeRemove(list[m], e)

\* What a step that queues u at p does to the wait lists.
LEMMA RequeueShrinks ==
    ASSUME NEW L, NEW u, NEW p \in Prio, NEW m \in Mtx
    PROVE  /\ ReadyInsert(ListRemove(L, u), u, p)[m] = NodeRemove(L[m], u)
           /\ ListRemove(L, u)[m] = NodeRemove(L[m], u)
BY Heads DEF ReadyInsert, ListRemove, Mtx

LEMMA RestoreShrinks ==
    ASSUME NEW t \in Thread, NEW p \in Prio, NEW n \in Mtx
    PROVE  \/ RestoreLists(t, p)[n] = list[n]
           \/ RestoreLists(t, p)[n] = NodeRemove(list[n], t)
BY RequeueShrinks DEF RestoreLists

\* What a wait list that loses a node keeps.
LEMMA LosingKeeps ==
    ASSUME NEW s \in Seq(Thread), NEW e, IsInjective(s)
    PROVE  /\ Range(NodeRemove(s, e)) = Range(s) \ {e}
           /\ Ascending(s, InitPrio) => Ascending(NodeRemove(s, e), InitPrio)
<1>1. Range(NodeRemove(s, e)) = Range(s) \ {e}
  BY NodeRemoveLemma, ZenonT(60)
<1>2. Ascending(s, InitPrio) => Ascending(NodeRemove(s, e), InitPrio)
  BY AscendingRemove, ZenonT(60)
<1> QED
  BY <1>1, <1>2

\* What a list that shrinks keeps.
LEMMA ShrinkKeeps ==
    ASSUME NEW m \in Mtx, list[m] \in Seq(Thread), IsInjective(list[m]), Shrinks(m)
    PROVE  /\ Range(list'[m]) \subseteq Range(list[m])
           /\ Ascending(list[m], InitPrio) => Ascending(list'[m], InitPrio)
<1>1. CASE list'[m] = list[m]
  BY <1>1
<1>2. ASSUME NEW e, list'[m] = NodeRemove(list[m], e)
      PROVE  /\ Range(list'[m]) \subseteq Range(list[m])
             /\ Ascending(list[m], InitPrio) => Ascending(list'[m], InitPrio)
  BY <1>2, LosingKeeps
<1> QED
  BY <1>1, <1>2, ZenonT(60) DEF Shrinks

\* A thread that waits owns nothing, if it uses one mutex at a time, and has
\* its own priority.
LEMMA WaiterFacts ==
    ASSUME IInv, OneAtATime, PrioInv, NEW m \in Mtx, NEW u \in Range(list[m])
    PROVE  /\ u \in Thread /\ \A n \in Mtx : owner[n] # u
           /\ current_priority[u] = InitPrio[u]
<1>1. QueuesOK /\ MutexInv
  BY InvParts, ZenonT(60) DEF IInv
<1>2. u \in Thread /\ stat[u] = "SUSPEND"
  BY <1>1, ListFacts, Heads, ZenonT(60) DEF QueuesOK, Queues, Mtx
<1>3. owner[m] # u
  <2>1. TakerOK(u, m)
    BY <1>1, <1>2, TakerDef DEF MutexInv
  <2> QED
    BY <1>2, <2>1 DEF TakerOK
<1>4. \A n \in Mtx : owner[n] # u
  BY <1>2, <1>3, ZenonT(60) DEF OneAtATime, Uses
<1> QED
  BY <1>2, <1>4 DEF PrioInv, PriorityRestored

\* A step that changes neither priorities nor owners, and links nobody to a
\* wait list, keeps PrioInv.
LEMMA KeepsPrioInv ==
    ASSUME IInv, PrioInv, UNCHANGED <<current_priority, owner, original_priority>>,
           \A m \in Mtx : Shrinks(m)
    PROVE  PrioInv'
<1>1. \A m \in Mtx : IsInjective(list[m]) /\ list[m] \in Seq(Thread)
  BY StateFacts, ZenonT(60)
<1>2. \A m \in Mtx : /\ Range(list'[m]) \subseteq Range(list[m])
                     /\ Ascending(list[m], InitPrio) => Ascending(list'[m], InitPrio)
  BY <1>1, ShrinkKeeps, ZenonT(60)
<1>3. PriorityRestored'
  BY DEF PrioInv, PriorityRestored
<1> QED
  BY <1>2, <1>3, ZenonT(60) DEF PrioInv

\* The steps of that kind: those of the kernel,
LEMMA KernelShrinks ==
    ASSUME IInv, KernelStep, NEW m \in Mtx
    PROVE  UNCHANGED current_priority /\ Shrinks(m)
<1>1. \A u \in Thread : current_priority[u] \in Prio
  BY DEF IInv, KernelInv, KernelTypeOK
<1>2. current \in Thread
  BY DEF IInv, KernelInv, KernelTypeOK
<1>3. CASE Tick
  <2>1. \/ UNCHANGED list
        \/ list' = ReadyInsert(ListRemove(list, current), current, current_priority[current])
    BY <1>3 DEF Tick, SliceEnd
  <2> QED
    BY <1>1, <1>2, <1>3, <2>1, RequeueShrinks DEF Tick, TickBegin, Shrinks
<1>4. ASSUME NEW t \in Thread, TimerExpire(t)
      PROVE  UNCHANGED current_priority /\ Shrinks(m)
  BY <1>1, <1>4, RequeueShrinks DEF TimerExpire, ResumeThread, Shrinks
<1>5. ASSUME NEW t \in Thread, Schedule(t) \/ TimerCheckDone
      PROVE  UNCHANGED current_priority /\ Shrinks(m)
  BY <1>5 DEF Schedule, TimerCheckDone, Shrinks
<1> QED
  BY <1>2, <1>3, <1>4, <1>5 DEF KernelStep

\* ... and the calls that neither take a mutex nor give one back.
LEMMA CallShrinks ==
    ASSUME NEW t \in Thread, NEW m \in Mtx,
           \/ \E n \in Mtx : TakeAgain(t, n) \/ TakeFail(t, n) \/ ReleaseFail(t, n)
                             \/ ReleaseInner(t, n)
           \/ \E d \in Delay : Sleep(t, d)
           \/ MutexReturn(t)
    PROVE  UNCHANGED <<current_priority, owner, original_priority>> /\ Shrinks(m)
<1>1. ASSUME NEW n \in Mtx, TakeAgain(t, n) \/ TakeFail(t, n) \/ ReleaseFail(t, n)
                            \/ ReleaseInner(t, n)
      PROVE  UNCHANGED <<current_priority, list, owner, original_priority>>
  BY <1>1, ZenonT(60) DEF TakeAgain, TakeFail, ReleaseFail, ReleaseInner, kernelVars, mutexVars
<1>2. ASSUME NEW d \in Delay, Sleep(t, d)
      PROVE  UNCHANGED <<current_priority, owner, original_priority>> /\ Shrinks(m)
  <2>1. list' = ListRemove(list, t) /\ UNCHANGED <<current_priority, owner, original_priority>>
    BY <1>2 DEF Sleep, SleepThread, SuspendThread, RemoveThread
  <2>2. list'[m] = NodeRemove(list[m], t)
    BY <2>1, Heads, ZenonT(60) DEF ListRemove, Mtx
  <2> QED
    BY <2>1, <2>2, ZenonT(60) DEF Shrinks
<1>3. CASE MutexReturn(t)
  BY <1>3 DEF MutexReturn, TakeReturn, SleepReturn, SleepDone, kernelVars, Shrinks
<1> QED
  BY <1>1, <1>2, <1>3 DEF Shrinks

\* A take of a free mutex notes the thread's own priority,
LEMMA TakeFreePrio ==
    ASSUME IInv, PrioInv, OneAtATime', NEW t \in Thread, NEW m \in Mtx, TakeFree(t, m)
    PROVE  PrioInv'
<1>1. /\ value[m] > 0 /\ owner[m] # t /\ owner' = [owner EXCEPT ![m] = t]
      /\ original_priority' = [original_priority EXCEPT ![m] = current_priority[t]]
      /\ UNCHANGED <<current_priority, list>>
  BY DEF TakeFree
<1>2. /\ owner \in [Mtx -> Thread \cup {Null}] /\ Null \notin Thread
      /\ original_priority \in [Mtx -> Prio \cup {NoPrio}]
  BY StateFacts
<1>3. list[m] = <<>> /\ owner[m] = Null /\ list[m] \in Seq(Thread)
  BY <1>1, StateFacts
<1>4. Range(list[m]) = {}
  BY <1>3, EmptyRange, ZenonT(60)
<1>5. \A n \in Mtx \ {m} : owner[n] # t /\ owner'[n] = owner[n]
                           /\ original_priority'[n] = original_priority[n]
  BY <1>1, <1>2, ZenonT(60) DEF OneAtATime, Uses
<1>6. current_priority[t] = InitPrio[t]
  BY <1>1, <1>5, ZenonT(60) DEF PrioInv, PriorityRestored
<1>7. owner'[m] = t /\ original_priority'[m] = InitPrio[t]
  BY <1>1, <1>2, <1>6
<1>8. PriorityRestored'
  <2> SUFFICES ASSUME NEW u \in Thread, \A n \in Mtx : owner'[n] # u
               PROVE  current_priority[u] = InitPrio[u]
    BY <1>1 DEF PriorityRestored
  <2>1. u = t \/ \A n \in Mtx : owner[n] # u
    BY <1>2, <1>3, <1>5, <1>7
  <2> QED
    BY <1>6, <2>1 DEF PrioInv, PriorityRestored
<1> QED
  BY <1>1, <1>4, <1>5, <1>7, <1>8, ZenonT(60) DEF PrioInv

\* Inheriting raises the owner to the taker's priority at most, and nobody else.
LEMMA InheritRaises ==
    ASSUME NEW t \in Thread, NEW o \in Thread, current_priority \in [Thread -> Prio],
           InheritPriority(t, o)
    PROVE  /\ current_priority' \in [Thread -> Prio]
           /\ \A u \in Thread \ {o} : current_priority'[u] = current_priority[u]
           /\ current_priority'[o] <= current_priority[t]
           /\ current_priority'[o] <= current_priority[o]
<1>1. Prio \subseteq Nat
  BY PrioAssumption DEF Prio
<1>2. current_priority[t] \in Nat /\ current_priority[o] \in Nat
  BY <1>1
<1>3. CASE Inherits(t, o)
  BY <1>2, <1>3 DEF InheritPriority, Inherits
<1>4. CASE ~Inherits(t, o)
  BY <1>2, <1>4 DEF InheritPriority, Inherits
<1> QED
  BY <1>3, <1>4

\* ... a take that must wait makes the owner at least as urgent as the thread,
\* which takes its place in the list,
LEMMA TakeWaitPrio ==
    ASSUME IInv, PrioInv, OneAtATime, OneAtATime', NEW t \in Thread, t # Idle, NEW m \in Mtx,
           NEW time \in Delay \cup {Forever}, TakeWait(t, m, time)
    PROVE  PrioInv'
<1>1. /\ At(t, "app") /\ owner[m] # t /\ value[m] = 0
      /\ InheritPriority(t, owner[m])
      /\ list' = WaitInsert(ListRemove(InheritLists(t, owner[m]), t), t, m)
      /\ UNCHANGED <<owner, original_priority>>
  BY ZenonT(60) DEF TakeWait, MustWait, Block
<1>2. /\ QueuesOK /\ \A n \in Mtx : IsInjective(list[n]) /\ list[n] \in Seq(Thread)
      /\ current_priority \in [Thread -> Prio]
  BY StateFacts, ZenonT(60)
<1>3. PICK o \in Thread : o = owner[m]
  <2>1. owner[m] \in Thread
    BY <1>1, TakenIsOwned, ZenonT(60)
  <2> QED
    BY <2>1, ZenonT(60)
<1>4. stat[t] = "READY" /\ \A n \in Mtx : t \notin Range(list[n])
  BY <1>1, RunnerFacts, ZenonT(60) DEF IInv
<1>5. \A n \in Mtx : /\ n # m => list'[n] = list[n]
                     /\ n = m => list'[n] = NodeInsert(list[n], WaitPos(list[n], t, Flag[n]), t)
  <2> SUFFICES ASSUME NEW n \in Mtx
               PROVE  /\ n # m => list'[n] = list[n]
                      /\ n = m => list'[n] = NodeInsert(list[n], WaitPos(list[n], t, Flag[n]), t)
    BY ZenonT(60)
  <2>1. n \in ListHead /\ n \notin Prio /\ list[n] \in Seq(Thread)
    BY <1>2, Heads, ZenonT(60) DEF Mtx
  <2>2. InheritLists(t, o)[n] = list[n]
    <3>1. CASE Inherits(t, o) /\ stat[o] = "READY"
      <4>1. InheritLists(t, o)[n] = NodeRemove(list[n], o)
        BY <1>2, <3>1, RequeueShrinks, ZenonT(60) DEF InheritLists
      <4>2. o \notin Range(list[n])
        BY <1>2, <3>1 DEF QueuesOK, Queues, Mtx
      <4> QED
        BY <1>2, <2>1, <4>1, <4>2, NodeRemoveLemma, ZenonT(60)
    <3> QED
      BY <3>1 DEF InheritLists
  <2>3. ListRemove(InheritLists(t, o), t)[n] = list[n]
    <3>1. ListRemove(InheritLists(t, o), t)[n] = NodeRemove(list[n], t)
      BY <2>1, <2>2, ZenonT(60) DEF ListRemove
    <3> QED
      BY <1>2, <1>4, <2>1, <3>1, NodeRemoveLemma, ZenonT(60)
  <2> QED
    BY <1>1, <1>3, <2>1, <2>3, ZenonT(60) DEF WaitInsert, ListRemove
<1>6. \A n \in Mtx : Flag[n] \in {"FIFO", "PRIO", "LIFO"} /\ list[n] \in Seq(Thread)
  BY StateFacts, ZenonT(60)
<1>7. \A n \in Mtx : Range(list'[n]) = IF n = m THEN Range(list[n]) \cup {t} ELSE Range(list[n])
  <2> SUFFICES ASSUME NEW n \in Mtx
               PROVE  Range(list'[n]) = IF n = m THEN Range(list[n]) \cup {t} ELSE Range(list[n])
    BY ZenonT(60)
  <2>1. Range(NodeInsert(list[n], WaitPos(list[n], t, Flag[n]), t)) = Range(list[n]) \cup {t}
    BY <1>2, <1>6, WaitAdds, ZenonT(60)
  <2> QED
    BY <1>5, <2>1, ZenonT(60)
<1>8. \A n \in Mtx : owner[n] # t
  BY <1>1, <1>7, ZenonT(60) DEF OneAtATime, Uses
<1>9. current_priority[t] = InitPrio[t]
  BY <1>8, ZenonT(60) DEF PrioInv, PriorityRestored
<1>10. /\ current_priority' \in [Thread -> Prio]
       /\ \A u \in Thread \ {o} : current_priority'[u] = current_priority[u]
       /\ current_priority'[o] <= current_priority[t]
       /\ current_priority'[o] <= current_priority[o]
  BY <1>1, <1>2, <1>3, InheritRaises, ZenonT(60)
<1>11. PriorityRestored'
  BY <1>1, <1>3, <1>10, ZenonT(60) DEF PrioInv, PriorityRestored
<1>12. ASSUME NEW n \in Mtx, Flag[n] = "PRIO" PROVE Ascending(list'[n], InitPrio)
  <2>1. Ascending(list[n], InitPrio)
    BY <1>12, ZenonT(60) DEF PrioInv
  <2>2. \A u \in Range(list[n]) : current_priority[u] = InitPrio[u]
    BY WaiterFacts, ZenonT(60)
  <2> QED
    BY <1>2, <1>5, <1>6, <1>9, <1>12, <2>1, <2>2, WaitKeepsOrder, ZenonT(60)
<1>13. ASSUME NEW n \in Mtx, Flag[n] = "PRIO", NEW u \in Range(list'[n])
       PROVE  current_priority'[owner[n]] <= current_priority'[u]
  <2>1. CASE u = t
    <3>1. n = m /\ u # o /\ current_priority'[u] = current_priority[t]
      BY <1>1, <1>3, <1>4, <1>7, <1>10, <1>13, <2>1, ZenonT(60)
    <3> QED
      BY <1>3, <1>10, <3>1
  <2>2. CASE u # t
    <3>1. u \in Range(list[n])
      BY <1>7, <1>13, <2>2, ZenonT(60)
    <3>2. u \in Thread /\ u # o /\ current_priority'[u] = current_priority[u]
      BY <1>3, <1>10, <3>1, WaiterFacts
    <3>3. current_priority[owner[n]] <= current_priority[u]
      BY <1>13, <3>1, ZenonT(60) DEF PrioInv
    <3>4. CASE n = m
      <4>1. current_priority'[o] \in Int /\ current_priority[o] \in Int /\ current_priority[u] \in Int
        BY <1>2, <1>10, <3>2, PrioAssumption DEF Prio
      <4> QED
        BY <1>3, <1>10, <3>2, <3>3, <3>4, <4>1
    <3>5. CASE n # m
      <4>1. owner[n] # o
        BY <1>3, <3>5, ZenonT(60) DEF OneAtATime, Uses
      <4>2. owner[n] \in Thread
        <5>1. list[n] # <<>>
          BY <1>6, <3>1, EmptyRange
        <5> QED
          BY <5>1, StateFacts, ZenonT(60)
      <4> QED
        BY <1>10, <3>2, <3>3, <4>1, <4>2, ZenonT(60)
    <3> QED
      BY <3>4, <3>5, ZenonT(60)
  <2> QED
    BY <2>1, <2>2, ZenonT(60)
<1> QED
  BY <1>1, <1>11, <1>12, <1>13, ZenonT(60) DEF PrioInv

\* ... a release without waiters gives the thread its own priority back,
LEMMA ReleaseFreePrio ==
    ASSUME IInv, PrioInv, OneAtATime, NEW t \in Thread, NEW m \in Mtx, ReleaseFree(t, m)
    PROVE  PrioInv'
<1>1. /\ At(t, "app") /\ owner[m] = t /\ list[m] = <<>>
      /\ owner' = [owner EXCEPT ![m] = Null]
      /\ original_priority' = [original_priority EXCEPT ![m] = NoPrio]
      /\ RestorePriority(t, m)
  BY ZenonT(60) DEF ReleaseFree, LastRelease
<1>2. /\ \A n \in Mtx : IsInjective(list[n]) /\ list[n] \in Seq(Thread)
      /\ current_priority \in [Thread -> Prio]
      /\ owner \in [Mtx -> Thread \cup {Null}] /\ Null \notin Thread
      /\ original_priority \in [Mtx -> Prio \cup {NoPrio}]
  BY StateFacts, ZenonT(60)
<1>3. original_priority[m] = InitPrio[t] /\ InitPrio[t] \in Prio
  BY <1>1, <1>2, PrioAssumption, ZenonT(60) DEF PrioInv
<1>4. current_priority' = [current_priority EXCEPT ![t] = InitPrio[t]]
  BY <1>1, <1>2, <1>3, ZenonT(60) DEF RestorePriority, SetPriority
<1>5. \A n \in Mtx : Shrinks(n)
  <2>1. \/ UNCHANGED list
        \/ list' = ReadyInsert(ListRemove(list, t), t, InitPrio[t])
    BY <1>1, <1>3, ZenonT(60) DEF RestorePriority, SetPriority
  <2>2. \A n \in Mtx : ReadyInsert(ListRemove(list, t), t, InitPrio[t])[n]
                        = NodeRemove(list[n], t)
    BY <1>3, RequeueShrinks
  <2> QED
    BY <2>1, <2>2 DEF Shrinks
<1>6. \A n \in Mtx : /\ Range(list'[n]) \subseteq Range(list[n])
                     /\ Ascending(list[n], InitPrio) => Ascending(list'[n], InitPrio)
  BY <1>2, <1>5, ShrinkKeeps, ZenonT(60)
<1>7. \A n \in Mtx \ {m} : owner[n] # t /\ owner'[n] = owner[n]
                           /\ original_priority'[n] = original_priority[n]
  BY <1>1, <1>2 DEF OneAtATime, Uses
<1>8. owner'[m] = Null
  BY <1>1, <1>2, ZenonT(60)
<1>9. PriorityRestored'
  <2> SUFFICES ASSUME NEW u \in Thread, u # t, \A n \in Mtx : owner'[n] # u
               PROVE  current_priority[u] = InitPrio[u]
    BY <1>2, <1>4, ZenonT(60) DEF PriorityRestored
  <2>1. \A n \in Mtx : owner[n] # u
    BY <1>1, <1>7, ZenonT(60)
  <2> QED
    BY <2>1, ZenonT(60) DEF PrioInv, PriorityRestored
<1>10. ASSUME NEW n \in Mtx, Flag[n] = "PRIO", NEW u \in Range(list'[n])
       PROVE  current_priority'[owner'[n]] <= current_priority'[u]
  <2>1. u \in Range(list[n]) /\ u \in Thread /\ u # t
    BY <1>1, <1>6, <1>10, WaiterFacts, ZenonT(60)
  <2>2. list[n] # <<>> /\ n # m
    BY <1>1, <1>2, <2>1, EmptyRange
  <2>3. owner[n] \in Thread /\ owner[n] # t /\ owner'[n] = owner[n]
    BY <1>7, <2>2, StateFacts, ZenonT(60)
  <2>4. current_priority[owner[n]] <= current_priority[u]
    BY <1>10, <2>1, ZenonT(60) DEF PrioInv
  <2> QED
    BY <1>2, <1>4, <2>1, <2>3, <2>4, ZenonT(60)
<1> QED
  BY <1>6, <1>7, <1>8, <1>9, <1>10, ZenonT(60) DEF PrioInv

\* ... and one with waiters also makes the most urgent of them the owner.
LEMMA HandOverPrio ==
    ASSUME IInv, PrioInv, OneAtATime, NEW t \in Thread, NEW m \in Mtx, ReleaseHandOver(t, m)
    PROVE  PrioInv'
<1>1. PICK w : w = Head(list[m])
  OBVIOUS
<1>2. /\ At(t, "app") /\ owner[m] = t /\ list[m] # <<>>
      /\ current_priority' = [current_priority EXCEPT ![t] = original_priority[m]]
      /\ owner' = [owner EXCEPT ![m] = w]
      /\ original_priority' = [original_priority EXCEPT ![m] = current_priority[w]]
      /\ list' = ReadyInsert(ListRemove(RestoreLists(t, original_priority[m]), w), w,
                             current_priority[w])
  BY <1>1, ZenonT(60) DEF ReleaseHandOver, RestoreLists
<1>3. /\ \A n \in Mtx : IsInjective(list[n]) /\ list[n] \in Seq(Thread)
      /\ current_priority \in [Thread -> Prio]
      /\ owner \in [Mtx -> Thread \cup {Null}] /\ Null \notin Thread
      /\ original_priority \in [Mtx -> Prio \cup {NoPrio}]
  BY StateFacts
<1>4. w \in Range(list[m])
  BY <1>1, <1>2, <1>3, HeadInRange, ZenonT(60)
<1>5. /\ w \in Thread /\ current_priority[w] = InitPrio[w] /\ current_priority[w] \in Prio
      /\ \A n \in Mtx : owner[n] # w
  BY <1>3, <1>4, WaiterFacts, ZenonT(60)
<1>6. original_priority[m] = InitPrio[t] /\ InitPrio[t] \in Prio
  BY <1>2, <1>3, PrioAssumption, ZenonT(60) DEF PrioInv
<1>7. \A n \in Mtx : list'[n] = NodeRemove(list[n], w)
  <2> SUFFICES ASSUME NEW n \in Mtx PROVE list'[n] = NodeRemove(list[n], w)
    OBVIOUS
  <2>1. t \notin Range(list[n])
    BY <1>2, RunnerFacts, ZenonT(60) DEF IInv
  <2>2. RestoreLists(t, original_priority[m])[n] = list[n]
    <3>1. \/ RestoreLists(t, original_priority[m])[n] = list[n]
          \/ RestoreLists(t, original_priority[m])[n] = NodeRemove(list[n], t)
      <4>1. original_priority[m] \in Prio
        BY <1>6, ZenonT(60)
      <4> QED
        BY <4>1, RestoreShrinks, ZenonT(60)
    <3> QED
      BY <1>3, <2>1, <3>1, NodeRemoveLemma, ZenonT(60)
  <2>3. \A L : ReadyInsert(ListRemove(L, w), w, current_priority[w])[n] = NodeRemove(L[n], w)
    BY <1>5, RequeueShrinks, ZenonT(60)
  <2> QED
    BY <1>2, <2>2, <2>3, ZenonT(60)
<1>8. \A n \in Mtx : /\ Range(list'[n]) = Range(list[n]) \ {w}
                     /\ Ascending(list[n], InitPrio) => Ascending(list'[n], InitPrio)
  <2> SUFFICES ASSUME NEW n \in Mtx
               PROVE  /\ Range(list'[n]) = Range(list[n]) \ {w}
                      /\ Ascending(list[n], InitPrio) => Ascending(list'[n], InitPrio)
    BY ZenonT(60)
  <2>1. list[n] \in Seq(Thread) /\ IsInjective(list[n])
    BY <1>3
  <2>2. /\ Range(NodeRemove(list[n], w)) = Range(list[n]) \ {w}
        /\ Ascending(list[n], InitPrio) => Ascending(NodeRemove(list[n], w), InitPrio)
    BY <2>1, LosingKeeps, ZenonT(60)
  <2> QED
    BY <1>7, <2>2, ZenonT(60)
<1>9. \A n \in Mtx \ {m} : owner[n] # t /\ owner'[n] = owner[n]
                           /\ original_priority'[n] = original_priority[n]
  BY <1>2, <1>3, ZenonT(60) DEF OneAtATime, Uses
<1>10. owner'[m] = w /\ original_priority'[m] = InitPrio[w]
  BY <1>2, <1>3, <1>5, ZenonT(60)
<1>11. current_priority'[t] = InitPrio[t]
       /\ \A u \in Thread \ {t} : current_priority'[u] = current_priority[u]
  BY <1>2, <1>3, <1>6, ZenonT(60)
<1>12. PriorityRestored'
  <2> SUFFICES ASSUME NEW u \in Thread, u # t, \A n \in Mtx : owner'[n] # u
               PROVE  current_priority[u] = InitPrio[u]
    BY <1>11, ZenonT(60) DEF PriorityRestored
  <2>1. \A n \in Mtx : owner[n] # u
    BY <1>2, <1>9, ZenonT(60)
  <2> QED
    BY <2>1, ZenonT(60) DEF PrioInv, PriorityRestored
<1>13. ASSUME NEW n \in Mtx, Flag[n] = "PRIO", NEW u \in Range(list'[n])
       PROVE  current_priority'[owner'[n]] <= current_priority'[u]
  <2>1. u \in Range(list[n]) /\ u \in Thread /\ u # t
    BY <1>2, <1>8, <1>13, WaiterFacts, ZenonT(60)
  <2>2. CASE n = m
    <3>1. InitPrio[w] <= InitPrio[u]
      <4>1. InitPrio \in [Thread -> Int]
        BY PrioAssumption DEF Prio
      <4>2. Ascending(list[m], InitPrio)
        BY <1>13, <2>2, ZenonT(60) DEF PrioInv
      <4> QED
        BY <1>1, <1>2, <1>3, <2>1, <2>2, <4>1, <4>2, AscendingHead, ZenonT(60)
    <3>2. current_priority[u] = InitPrio[u] /\ w # t
      BY <1>2, <1>5, <2>1, WaiterFacts, ZenonT(60)
    <3> QED
      BY <1>5, <1>10, <1>11, <2>1, <2>2, <3>1, <3>2, ZenonT(60)
  <2>3. CASE n # m
    <3>1. list[n] # <<>>
      BY <1>3, <2>1, EmptyRange, ZenonT(60)
    <3>2. owner[n] \in Thread /\ owner[n] # t /\ owner'[n] = owner[n]
      BY <1>9, <2>3, <3>1, StateFacts, ZenonT(60)
    <3>3. current_priority[owner[n]] <= current_priority[u]
      BY <1>13, <2>1 DEF PrioInv
    <3> QED
      BY <1>11, <2>1, <3>2, <3>3, ZenonT(60)
  <2> QED
    BY <2>2, <2>3, ZenonT(60)
<1> QED
  BY <1>8, <1>9, <1>10, <1>12, <1>13, ZenonT(60) DEF PrioInv

\* Every step keeps PrioInv as long as threads use one mutex at a time.
LEMMA NextPrioInv == IInv /\ PrioInv /\ OneAtATime /\ OneAtATime' /\ [Next]_vars => PrioInv'
<1> SUFFICES ASSUME IInv, PrioInv, OneAtATime, OneAtATime', [Next]_vars PROVE PrioInv'
  OBVIOUS
<1>1. CASE KernelStep /\ UNCHANGED mutexVars
  <2>1. UNCHANGED <<owner, original_priority>>
    BY <1>1 DEF mutexVars
  <2>2. UNCHANGED current_priority
    BY <1>1 DEF KernelStep, Tick, TickBegin, TimerExpire, Schedule, TimerCheckDone
  <2> QED
    BY <1>1, <2>1, <2>2, KernelShrinks, KeepsPrioInv
<1>2. ASSUME NEW t \in Thread \ {Idle}, MutexCall(t) \/ MutexReturn(t) PROVE PrioInv'
  <2>1. CASE \/ \E n \in Mtx : TakeAgain(t, n) \/ TakeFail(t, n) \/ ReleaseFail(t, n)
                               \/ ReleaseInner(t, n)
             \/ \E d \in Delay : Sleep(t, d)
             \/ MutexReturn(t)
    <3>1. \A m \in Mtx : UNCHANGED <<current_priority, owner, original_priority>> /\ Shrinks(m)
      BY <2>1, CallShrinks
    <3>2. CASE Mtx # {}
      BY <3>1, <3>2, KeepsPrioInv
    <3>3. CASE Mtx = {}
      <4>1. UNCHANGED current_priority
        BY <2>1, <3>3 DEF Sleep, SleepThread, MutexReturn, TakeReturn, SleepReturn, SleepDone,
                          kernelVars
      <4> QED
        BY <3>3, <4>1, ZenonT(60) DEF PrioInv, PriorityRestored
    <3> QED
      BY <3>2, <3>3
  <2>2. ASSUME NEW m \in Mtx, TakeFree(t, m) PROVE PrioInv'
    BY <2>2, TakeFreePrio
  <2>3. ASSUME NEW m \in Mtx, NEW time \in Delay \cup {Forever}, TakeWait(t, m, time)
        PROVE  PrioInv'
    BY <2>3, TakeWaitPrio
  <2>4. ASSUME NEW m \in Mtx, ReleaseFree(t, m) PROVE PrioInv'
    BY <2>4, ReleaseFreePrio
  <2>5. ASSUME NEW m \in Mtx, ReleaseHandOver(t, m) PROVE PrioInv'
    BY <2>5, HandOverPrio
  <2> QED
    BY <1>2, <2>1, <2>2, <2>3, <2>4, <2>5 DEF MutexCall
<1>3. CASE UNCHANGED vars
  <2>1. UNCHANGED <<current_priority, list, owner, original_priority>>
    BY <1>3 DEF vars, kernelVars
  <2> QED
    BY <2>1, KeepsPrioInv DEF Shrinks
<1> QED
  BY <1>1, <1>2, <1>3 DEF Next

\* It holds initially: nobody owns a mutex or waits for one.
LEMMA InitPrioInv == Init => PrioInv
<1> SUFFICES ASSUME Init PROVE PrioInv
  OBVIOUS
<1>1. current_priority = InitPrio /\ \A m \in Mtx : owner[m] = Null
  BY ZenonT(60) DEF Init, KernelInit
<1>2. \A m \in Mtx : list[m] = <<>>
  BY Heads DEF Init, KernelInit, Mtx
<1>3. \A m \in Mtx : Range(list[m]) = {} /\ Ascending(list[m], InitPrio)
  <2>1. Range(<<>>) = {} /\ Ascending(<<>>, InitPrio)
    BY DEF Range, Ascending
  <2> QED
    BY <1>2, <2>1
<1> QED
  BY <1>1, <1>3, ZenonT(60) DEF PrioInv, PriorityRestored

\* ... so it holds as long as threads use one mutex at a time.
LEMMA PrioInductive == Spec /\ []OneAtATime => []PrioInv
BY InitIInv, NextIInv, InitPrioInv, NextPrioInv, PTL DEF Spec

\* A thread that uses one mutex at a time is back at its own priority whenever
\* it holds none, whoever waited for the mutex, timed out or got it next.
THEOREM PriorityComesBack == Spec /\ []OneAtATime => []PriorityRestored
<1>1. PrioInv => PriorityRestored
  BY DEF PrioInv
<1> QED
  BY <1>1, PrioInductive, PTL

\* With mutexes whose waiters queue by priority, used one at a time, no owner
\* is less urgent than a thread that waits for it: not after a time-out, a
\* sleep of the owner or a hand-over to the first waiter either.
THEOREM InheritanceHolds ==
    ASSUME \A m \in Mtx : Flag[m] = "PRIO"
    PROVE  Spec /\ []OneAtATime => []PriorityInherited
<1>1. PrioInv /\ IInv => PriorityInherited
  <2> SUFFICES ASSUME PrioInv, IInv PROVE PriorityInherited
    BY ZenonT(60)
  <2>1. \A m \in Mtx : list[m] \in Seq(Thread)
    BY InvParts, Heads DEF IInv, QueuesOK, Queues, Mtx, Lists
  <2> QED
    BY <2>1 DEF PrioInv, PriorityInherited, Range
<1> QED
  BY <1>1, InitIInv, NextIInv, PrioInductive, PTL DEF Spec
=============================================================================
