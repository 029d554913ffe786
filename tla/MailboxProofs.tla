---------------------------- MODULE MailboxProofs ---------------------------
(***************************************************************************)
(* Proofs about a mailbox, for any number of threads, priorities, mails    *)
(* and places.  IInv is inductive: the kernel's own invariant, the ring,   *)
(* the agreement between the two wait lists and the calls the threads are  *)
(* in, and the number of woken threads that are on their way.              *)
(***************************************************************************)
EXTENDS Mailbox, KernelProofs, FiniteSetTheorems

\* The threads in list q wait in a call op, and nothing has failed yet.
Waiters(q, op) == \A u \in Range(list[q]) : pc[u].op = op /\ error[u] = "EOK"

\* While threads wait in q, at least n woken ones are about to go on with op.
Enough(q, op, n) == list[q] # <<>> => Cardinality(Retrying(op)) >= n

RingInv ==
    /\ msg_pool \in [0 .. Size - 1 -> Mail]
    /\ in_offset \in 0 .. Size - 1 /\ out_offset \in 0 .. Size - 1
    /\ entry \in 0 .. Size
    /\ in_offset = (out_offset + entry) % Size

CallInv ==
    /\ pc \in [Thread -> Calls]
    /\ Waiters(Receivers, "recv") /\ Waiters(Senders, "send")

TimeInv ==
    /\ left \in [Thread -> {Off} \cup 0 .. MaxDelay]
    /\ TimeoutKept

IInv == KernelInv /\ RingInv /\ CallInv /\ TimeInv /\ NoMailStranded /\ NoRoomStranded

-----------------------------------------------------------------------------
(* The ring.                                                               *)

\* A number below twice the size, modulo the size.
LEMMA Modulo ==
    ASSUME NEW n \in Nat \ {0}, NEW a \in Nat, a < 2 * n
    PROVE  a % n = IF a < n THEN a ELSE a - n
<1> DEFINE p == a \div n
           r == a % n
<1>1. p \in Int /\ r \in 0 .. n - 1 /\ a = n * p + r
  OBVIOUS
<1> HIDE DEF p, r
<1>2. /\ p >= 2 => n * p >= 2 * n
      /\ p <= -1 => n * p <= 0 - n
      /\ p = 0 => n * p = 0
      /\ p = 1 => n * p = n
  BY <1>1
<1>3. p = 0 \/ p = 1
  BY <1>1, <1>2
<1>4. r = IF a < n THEN a ELSE a - n
  BY <1>1, <1>2, <1>3
<1> QED
  BY <1>4 DEF r

\* i places after place o of a ring of n.
LEMMA Places ==
    ASSUME NEW n \in Nat \ {0}, NEW o \in 0 .. n - 1, NEW i \in 0 .. n
    PROVE  (o + i) % n = IF o + i < n THEN o + i ELSE o + i - n
<1>1. o + i \in Nat /\ o + i < 2 * n
  OBVIOUS
<1> DEFINE a == o + i
<1>2. a \in Nat /\ a < 2 * n
  BY <1>1
<1> HIDE DEF a
<1>3. a % n = IF a < n THEN a ELSE a - n
  BY <1>2, Modulo, ZenonT(60)
<1> QED
  BY <1>3 DEF a

\* The offsets stay in the ring, a full turn apart when it is full.
LEMMA PutRing ==
    ASSUME RingInv, NEW m \in Mail, Put(m)
    PROVE  RingInv'
<1>1. /\ in_offset \in 0 .. Size - 1 /\ out_offset \in 0 .. Size - 1
      /\ entry \in 0 .. Size /\ Size \in Nat \ {0} /\ entry < Size
      /\ in_offset = (out_offset + entry) % Size
      /\ out_offset' = out_offset /\ entry' = entry + 1
      /\ in_offset' = Advance(in_offset)
  BY MailboxAssumption DEF RingInv, Put
<1>2. msg_pool' \in [0 .. Size - 1 -> Mail]
  BY DEF RingInv, Put
<1>3. in_offset = IF out_offset + entry < Size THEN out_offset + entry ELSE out_offset + entry - Size
  BY <1>1, Places, ZenonT(60)
<1>4. entry + 1 \in 0 .. Size
  BY <1>1
<1>5. (out_offset + (entry + 1)) % Size
         = IF out_offset + (entry + 1) < Size THEN out_offset + (entry + 1)
                                              ELSE out_offset + (entry + 1) - Size
  BY <1>1, <1>4, Places, ZenonT(60)
<1>6. in_offset' \in 0 .. Size - 1 /\ in_offset' = (out_offset' + entry') % Size
  BY <1>1, <1>3, <1>5 DEF Advance
<1> QED
  BY <1>1, <1>2, <1>6 DEF RingInv

LEMMA GetRing ==
    ASSUME RingInv, Get
    PROVE  RingInv'
<1>1. /\ in_offset \in 0 .. Size - 1 /\ out_offset \in 0 .. Size - 1
      /\ entry \in 0 .. Size /\ Size \in Nat \ {0} /\ entry > 0
      /\ in_offset = (out_offset + entry) % Size
      /\ out_offset' = Advance(out_offset) /\ entry' = entry - 1
      /\ in_offset' = in_offset /\ msg_pool' = msg_pool
  BY MailboxAssumption DEF RingInv, Get
<1>3. in_offset = IF out_offset + entry < Size THEN out_offset + entry ELSE out_offset + entry - Size
  BY <1>1, Places, ZenonT(60)
<1>4. out_offset' \in 0 .. Size - 1 /\ entry' \in 0 .. Size /\ out_offset' + entry' < 2 * Size
  BY <1>1 DEF Advance
<1>5. (out_offset' + entry') % Size
         = IF out_offset' + entry' < Size THEN out_offset' + entry' ELSE out_offset' + entry' - Size
  BY <1>1, <1>4, Places, ZenonT(60)
<1>6. in_offset' = (out_offset' + entry') % Size
  BY <1>1, <1>3, <1>5 DEF Advance
<1> QED
  BY <1>1, <1>4, <1>6, ZenonT(60) DEF RingInv

-----------------------------------------------------------------------------
(* How a step changes the number of threads that are on their way.         *)

\* They can be counted.
LEMMA RetryingFinite ==
    ASSUME NEW op
    PROVE  /\ IsFiniteSet(Retrying(op)) /\ Cardinality(Retrying(op)) \in Nat
           /\ IsFiniteSet(Retrying(op)') /\ Cardinality(Retrying(op)') \in Nat
<1>1. Retrying(op) \subseteq Thread /\ Retrying(op)' \subseteq Thread
  BY DEF Retrying
<1> QED
  BY <1>1, ThreadAssumption, FS_Subset, FS_CardinalityType, ZenonT(60)

\* Nobody has left: they are at least as many as before.
LEMMA EnoughSame ==
    ASSUME NEW q, NEW op, NEW n \in Nat, Enough(q, op, n),
           list'[q] # <<>> => list[q] # <<>>,
           Retrying(op) \subseteq Retrying(op)'
    PROVE  Enough(q, op, n)'
<1>1. Cardinality(Retrying(op)) <= Cardinality(Retrying(op)')
  BY RetryingFinite, FS_Subset, ZenonT(60)
<1>2. Cardinality(Retrying(op)) \in Nat /\ Cardinality(Retrying(op)') \in Nat
  BY RetryingFinite
<1> QED
  BY <1>1, <1>2 DEF Enough

\* One has left: they are one less at most.
LEMMA EnoughLess ==
    ASSUME NEW q, NEW op, NEW n \in Nat, NEW t, Enough(q, op, n),
           list'[q] # <<>> => list[q] # <<>>,
           Retrying(op) \ {t} \subseteq Retrying(op)'
    PROVE  Enough(q, op, n - 1)'
<1>1. IsFiniteSet(Retrying(op)) /\ IsFiniteSet(Retrying(op)')
  BY RetryingFinite
<1>2. /\ IsFiniteSet(Retrying(op) \ {t})
      /\ Cardinality(Retrying(op) \ {t}) = IF t \in Retrying(op) THEN Cardinality(Retrying(op)) - 1
                                                                ELSE Cardinality(Retrying(op))
  BY <1>1, FS_RemoveElement
<1>3. Cardinality(Retrying(op) \ {t}) <= Cardinality(Retrying(op)')
  BY <1>1, FS_Subset, ZenonT(60)
<1>4. Cardinality(Retrying(op)) \in Nat /\ Cardinality(Retrying(op)') \in Nat
  BY RetryingFinite
<1> QED
  BY <1>2, <1>3, <1>4 DEF Enough

\* The first waiter has been woken: they are one more.
LEMMA EnoughMore ==
    ASSUME NEW q, NEW op, NEW n \in Nat, Enough(q, op, n),
           list'[q] # <<>> => list[q] # <<>>,
           Retrying(op) \subseteq Retrying(op)',
           list[q] # <<>> => \E w : w \in Retrying(op)' /\ w \notin Retrying(op)
    PROVE  Enough(q, op, n + 1)'
<1> SUFFICES ASSUME list'[q] # <<>> PROVE Cardinality(Retrying(op)') >= n + 1
  BY DEF Enough
<1>1. PICK w : w \in Retrying(op)' /\ w \notin Retrying(op)
  OBVIOUS
<1>2. IsFiniteSet(Retrying(op)) /\ IsFiniteSet(Retrying(op)')
  BY RetryingFinite
<1>3. /\ IsFiniteSet(Retrying(op) \cup {w})
      /\ Cardinality(Retrying(op) \cup {w}) = Cardinality(Retrying(op)) + 1
  BY <1>1, <1>2, FS_AddElement
<1>4. Retrying(op) \cup {w} \subseteq Retrying(op)'
  BY <1>1
<1>5. Cardinality(Retrying(op) \cup {w}) <= Cardinality(Retrying(op)')
  BY <1>2, <1>4, FS_Subset, ZenonT(60)
<1>6. Cardinality(Retrying(op)) \in Nat /\ Cardinality(Retrying(op)') \in Nat
      /\ Cardinality(Retrying(op)) >= n
  BY RetryingFinite DEF Enough
<1> QED
  BY <1>3, <1>5, <1>6

\* None are needed.
LEMMA EnoughNone ==
    ASSUME NEW q, NEW op
    PROVE  Enough(q, op, 0)'
BY RetryingFinite DEF Enough

-----------------------------------------------------------------------------
(* What the steps do to the threads that wait.                             *)

\* The calls a thread can be in.
LEMMA CallFacts ==
    ASSUME NEW c \in Calls
    PROVE  /\ c.op \in {"app", "recv", "send", "reset"}
           /\ c.op = "send" => c.mail \in Mail
BY DEF Calls, App

\* The thread that runs is ready and waits for nothing.
LEMMA RunnerFacts ==
    ASSUME KernelInv, NEW t \in Thread, NEW op, At(t, op)
    PROVE  /\ current = t /\ t \notin resched /\ pc[t].op = op
           /\ stat[t] = "READY" /\ t \in Range(list[current_priority[t]])
           /\ delay[t] = Off
           /\ \A q \in WaitList : t \notin Range(list[q])
<1>1. QueuesOK /\ Rest
  BY InvParts
<1>2. current = t /\ t \notin resched /\ pc[t].op = op
  BY DEF At, Runs
<1>3. stat[t] = "READY" /\ t \in Range(list[current_priority[t]])
  BY <1>1, <1>2 DEF Rest, RunningIsReady
<1>4. delay[t] = Off
  BY <1>1, <1>3 DEF Rest, TimerImpliesSuspended
<1> QED
  BY <1>1, <1>2, <1>3, <1>4 DEF QueuesOK, Queues

\* A step wakes the first waiter of q, if there is one, and nobody else.
Wakes(q) ==
    /\ \A u \in Thread : Kept(u) \/ Woken(u)
    /\ \A u \in Thread : delay'[u] = delay[u] \/ delay'[u] = Off
    /\ \E w : list[q] # <<>> => w \in Range(list[q]) /\ Woken(w)
    /\ UNCHANGED error

LEMMA WakeFirstStep ==
    ASSUME KernelInv, NEW q \in WaitList, WakeFirst(q),
           UNCHANGED <<current_priority, error, irq>>
    PROVE  /\ QueuesOK' /\ Wakes(q)
           /\ delay' \in [Thread -> {Off} \cup 0 .. MaxDelay] /\ TimerImpliesSuspended'
           /\ stat[current] = "READY" => stat'[current] = "READY"
           /\ stat'[current] = "READY" =>
                 current \in Range(list'[current_priority'[current]])
<1>1. QueuesOK /\ Rest
  BY InvParts
<1>2. CASE list[q] # <<>>
  <2> DEFINE w == Head(list[q])
  <2>1. w = Head(list[q]) /\ ResumeThread(w) /\ delay' = [delay EXCEPT ![w] = Off]
    BY <1>2 DEF WakeFirst
  <2> HIDE DEF w
  <2>2. /\ w \in Thread /\ w \in Range(list[q]) /\ Woken(w) /\ QueuesOK'
        /\ \A u \in Thread : Kept(u) \/ Woken(u)
        /\ delay' \in [Thread -> {Off} \cup 0 .. MaxDelay] /\ TimerImpliesSuspended'
        /\ stat[current] = "READY" => stat'[current] = "READY"
        /\ stat'[current] = "READY" => current \in Range(list'[current_priority'[current]])
    BY <1>2, <2>1, WakeStep, ZenonT(60)
  <2>3. \A u \in Thread : delay'[u] = delay[u] \/ delay'[u] = Off
    BY <1>1, <2>1 DEF Rest
  <2>4. Wakes(q)
    BY <2>2, <2>3 DEF Wakes
  <2> QED
    BY <2>2, <2>4
<1>3. CASE list[q] = <<>>
  <2>1. UNCHANGED <<stat, list, group, delay>>
    BY <1>3 DEF WakeFirst
  <2>2. Wakes(q)
    BY <1>3, <2>1 DEF Wakes, Kept
  <2>3. QueuesOK'
    BY <1>1, <2>1 DEF QueuesOK
  <2> QED
    BY <1>1, <2>1, <2>2, <2>3 DEF Rest, TimerImpliesSuspended, RunningIsReady
<1> QED
  BY <1>2, <1>3

\* A thread that wakes the first waiter,
LEMMA ThreadWakesStep ==
    ASSUME KernelInv, NEW t \in Thread, NEW op, At(t, op), NEW q \in WaitList,
           ThreadWakes(t, q)
    PROVE  KernelInv' /\ Wakes(q)
<1>1. /\ WakeFirst(q) /\ resched' = IF list[q] # <<>> THEN resched \cup {t} ELSE resched
      /\ UNCHANGED <<current_priority, current, lock_nest, error, remaining_tick, irq>>
  BY DEF ThreadWakes
<1>2. QueuesOK /\ Rest
  BY InvParts
<1>3. current = t /\ stat[t] = "READY"
  BY RunnerFacts
<1>4. /\ QueuesOK' /\ Wakes(q)
      /\ delay' \in [Thread -> {Off} \cup 0 .. MaxDelay] /\ TimerImpliesSuspended'
      /\ stat'[t] = "READY" /\ t \in Range(list'[current_priority'[t]])
  BY <1>1, <1>3, WakeFirstStep
<1>5. RunningIsReady'
  BY <1>1, <1>3, <1>4 DEF RunningIsReady
<1>6. Rest'
  BY <1>1, <1>2, <1>4, <1>5 DEF Rest
<1> QED
  BY <1>4, <1>6, InvPartsNext

\* ... and an interrupt handler that does.
LEMMA HandlerWakesStep ==
    ASSUME KernelInv, NEW q \in WaitList, HandlerWakes(q)
    PROVE  KernelInv' /\ Wakes(q)
<1>1. /\ WakeFirst(q) /\ IF list[q] # <<>> THEN RtSchedule ELSE UNCHANGED current
      /\ UNCHANGED <<current_priority, lock_nest, error, remaining_tick, irq, resched>>
  BY DEF HandlerWakes
<1>2. QueuesOK /\ Rest
  BY InvParts
<1>3. /\ QueuesOK' /\ Wakes(q)
      /\ delay' \in [Thread -> {Off} \cup 0 .. MaxDelay] /\ TimerImpliesSuspended'
      /\ stat[current] = "READY" => stat'[current] = "READY"
      /\ stat'[current] = "READY" => current \in Range(list'[current_priority'[current]])
  BY <1>1, WakeFirstStep
<1>4. current' \in Thread /\ RunningIsReady'
  <2>1. CASE list[q] # <<>>
    <3>1. lock_nest > 0 => /\ stat'[current] = "READY"
                           /\ current \in Range(list'[current_priority'[current]])
      BY <1>2, <1>3 DEF Rest, RunningIsReady
    <3> QED
      BY <1>1, <1>2, <1>3, <2>1, <3>1, RescheduleStep DEF Rest
  <2>2. CASE list[q] = <<>>
    BY <1>1, <1>2, <2>2 DEF Rest, RunningIsReady, WakeFirst
  <2> QED
    BY <2>1, <2>2
<1>5. Rest'
  BY <1>1, <1>2, <1>3, <1>4 DEF Rest
<1> QED
  BY <1>3, <1>5, InvPartsNext

\* A thread that suspends in q leaves the other threads alone.
LEMMA WaitStep ==
    ASSUME KernelInv, NEW t \in Thread, t # Idle, NEW op, At(t, op), NEW q \in WaitList,
           NEW time \in Delay \cup {Forever}, NEW c, Wait(t, q, time, c)
    PROVE  /\ KernelInv' /\ stat'[t] = "SUSPEND"
           /\ \A u \in Thread \ {t} : stat'[u] = stat[u]
           /\ \A r \in WaitList : \A u \in Thread :
                 u \in Range(list'[r]) <=> IF u = t THEN r = q ELSE u \in Range(list[r])
<1>1. /\ lock_nest = 0 /\ error' = [error EXCEPT ![t] = "EOK"]
      /\ SuspendOn(t, q) /\ delay' = [delay EXCEPT ![t] = time]
      /\ resched' = resched \cup {t}
      /\ UNCHANGED <<current_priority, current, lock_nest, remaining_tick, irq>>
  BY DEF Wait
<1>2. QueuesOK /\ Rest
  BY InvParts
<1>3. current = t /\ stat[t] = "READY"
  BY RunnerFacts
<1>4. QueuesOK' /\ Moved(list, list', t, {q})
  BY <1>1, <1>2, <1>3, SuspendOnStep
<1>5. stat'[t] = "SUSPEND" /\ \A u \in Thread \ {t} : stat'[u] = stat[u]
  BY <1>1, <1>2 DEF SuspendOn, QueuesOK, Queues
<1>6. Rest'
  <2>1. delay' \in [Thread -> {Off} \cup 0 .. MaxDelay] /\ error' \in [Thread -> Error]
    BY <1>1, <1>2 DEF Rest, Error, Delay, Forever
  <2>2. TimerImpliesSuspended'
    BY <1>1, <1>2, <1>5, TimeAssumption DEF Rest, TimerImpliesSuspended, Delay, Forever, Off
  <2>3. RunningIsReady'
    BY <1>1, <1>3, <1>5 DEF RunningIsReady
  <2> QED
    BY <1>1, <1>2, <2>1, <2>2, <2>3 DEF Rest
<1>7. \A r \in WaitList : \A u \in Thread :
          u \in Range(list'[r]) <=> IF u = t THEN r = q ELSE u \in Range(list[r])
  BY <1>4, Heads DEF Moved
<1> QED
  BY <1>4, <1>5, <1>6, <1>7, InvPartsNext

\* Nobody joins a list, and a thread that stays in one stays in its call.
LEMMA WaitersKept ==
    ASSUME KernelInv, KernelInv', NEW q \in WaitList, NEW op, Waiters(q, op),
           \A u \in Thread : Kept(u) \/ Woken(u),
           \A u \in Thread : stat[u] = "SUSPEND" => pc'[u] = pc[u]
    PROVE  Waiters(q, op)' /\ (list'[q] # <<>> => list[q] # <<>>)
<1>1. /\ list \in Lists /\ list' \in Lists
      /\ \A u \in Range(list[q]) : u \in Thread /\ stat[u] = "SUSPEND"
  <2>1. QueuesOK /\ QueuesOK'
    BY InvParts, InvPartsNext
  <2>2. list \in Lists /\ list' \in Lists
    BY <2>1, ZenonT(60) DEF QueuesOK, Queues
  <2>3. Range(list[q]) \subseteq Thread
    BY <2>2, ListFacts, Heads
  <2> QED
    BY <2>1, <2>2, <2>3, ZenonT(60) DEF QueuesOK, Queues
<1>2. /\ list[q] = <<>> <=> Range(list[q]) = {}
      /\ list'[q] = <<>> <=> Range(list'[q]) = {}
      /\ Range(list'[q]) \subseteq Thread
  BY <1>1, ListFacts, Heads, ZenonT(60)
<1>3. \A u \in Range(list'[q]) : u \in Range(list[q]) /\ error'[u] = error[u]
  BY <1>2 DEF Kept, Woken
<1> QED
  BY <1>1, <1>2, <1>3 DEF Waiters

\* A thread that is on its way stays so unless it changes its call.
LEMMA RetryingKept ==
    ASSUME \A u \in Thread : Kept(u) \/ Woken(u), NEW op, NEW T,
           \A u \in Thread : pc[u].op = op /\ u \notin T => pc'[u] = pc[u]
    PROVE  Retrying(op) \ T \subseteq Retrying(op)'
BY DEF Retrying, Kept, Woken

\* Timers are stopped, and a call whose timer does not run may end.
LEMMA TimeKept ==
    ASSUME TimeInv, left' \in [Thread -> {Off} \cup 0 .. MaxDelay],
           \A u \in Thread : delay'[u] = delay[u] \/ delay'[u] = Off,
           \A u \in Thread : left'[u] = left[u] \/ delay[u] = Off
    PROVE  TimeInv'
BY DEF TimeInv, TimeoutKept

\* At most the call of one ready thread ends, and it was in op.
Finish(op) ==
    \/ UNCHANGED <<pc, left>>
    \/ \E t \in Thread : stat[t] = "READY" /\ delay[t] = Off /\ pc[t].op = op /\ Return(t)

LEMMA FinishFacts ==
    ASSUME CallInv, TimeInv, NEW op, Finish(op)
    PROVE  /\ pc' \in [Thread -> Calls] /\ left' \in [Thread -> {Off} \cup 0 .. MaxDelay]
           /\ \A u \in Thread : stat[u] = "SUSPEND" => pc'[u] = pc[u]
           /\ \A u \in Thread : left'[u] = left[u] \/ delay[u] = Off
           /\ \E t : \A u \in Thread \ {t} : pc'[u] = pc[u]
           /\ \A u \in Thread : pc[u].op # op => pc'[u] = pc[u]
<1>1. /\ pc \in [Thread -> Calls] /\ left \in [Thread -> {Off} \cup 0 .. MaxDelay]
      /\ App \in Calls
  BY DEF CallInv, TimeInv, Calls
<1>2. CASE UNCHANGED <<pc, left>>
  BY <1>1, <1>2
<1>3. ASSUME NEW t \in Thread, stat[t] = "READY", delay[t] = Off, pc[t].op = op, Return(t)
      PROVE  /\ pc' \in [Thread -> Calls] /\ left' \in [Thread -> {Off} \cup 0 .. MaxDelay]
             /\ \A u \in Thread : stat[u] = "SUSPEND" => pc'[u] = pc[u]
             /\ \A u \in Thread : left'[u] = left[u] \/ delay[u] = Off
             /\ \A u \in Thread \ {t} : pc'[u] = pc[u]
             /\ \A u \in Thread : pc[u].op # op => pc'[u] = pc[u]
  BY <1>1, <1>3 DEF Return, Goto
<1> QED
  BY <1>2, <1>3 DEF Finish

\* The lists are different ones.
LEMMA ListNames == Receivers \in WaitList /\ Senders \in WaitList /\ Size \in Nat \ {0}
BY MailboxAssumption

\* A mail goes in and the first receiver is woken.
LEMMA PutStep ==
    ASSUME IInv, KernelInv', NEW m \in Mail, Put(m), Wakes(Receivers), Finish("send")
    PROVE  IInv'
<1>1. KernelInv /\ RingInv /\ CallInv /\ TimeInv /\ NoMailStranded /\ NoRoomStranded
  BY DEF IInv
<1>2. PICK t : \A u \in Thread \ {t} : pc'[u] = pc[u]
  BY <1>1, FinishFacts
<1>3. /\ pc' \in [Thread -> Calls] /\ left' \in [Thread -> {Off} \cup 0 .. MaxDelay]
      /\ \A u \in Thread : stat[u] = "SUSPEND" => pc'[u] = pc[u]
      /\ \A u \in Thread : left'[u] = left[u] \/ delay[u] = Off
      /\ \A u \in Thread : pc[u].op # "send" => pc'[u] = pc[u]
  BY <1>1, FinishFacts
<1>4. PICK w : list[Receivers] # <<>> => w \in Range(list[Receivers]) /\ Woken(w)
  BY DEF Wakes
<1>5. /\ \A u \in Thread : Kept(u) \/ Woken(u)
      /\ \A u \in Thread : delay'[u] = delay[u] \/ delay'[u] = Off
      /\ UNCHANGED error
  BY DEF Wakes
<1>6. Waiters(Receivers, "recv") /\ Waiters(Senders, "send")
  BY <1>1 DEF CallInv
<1>7. /\ Waiters(Receivers, "recv")' /\ (list'[Receivers] # <<>> => list[Receivers] # <<>>)
      /\ Waiters(Senders, "send")' /\ (list'[Senders] # <<>> => list[Senders] # <<>>)
  BY <1>1, <1>3, <1>5, <1>6, ListNames, WaitersKept
<1>8. RingInv' /\ TimeInv'
  BY <1>1, <1>3, <1>5, PutRing, TimeKept
<1>9. entry \in Nat /\ Size - entry \in Nat /\ entry' = entry + 1 /\ Size' - entry' = Size - entry - 1
  BY <1>1, ListNames DEF RingInv, Put
<1>10. NoMailStranded'
  <2>1. Retrying("recv") \subseteq Retrying("recv")'
    <3>1. \A u \in Thread : pc[u].op = "recv" /\ u \notin {} => pc'[u] = pc[u]
      BY <1>3
    <3>2. Retrying("recv") \ {} \subseteq Retrying("recv")'
      BY <1>5, <3>1, RetryingKept
    <3> QED
      BY <3>2
  <2>2. list[Receivers] # <<>> => w \in Retrying("recv")' /\ w \notin Retrying("recv")
    <3> SUFFICES ASSUME list[Receivers] # <<>>
                 PROVE  w \in Retrying("recv")' /\ w \notin Retrying("recv")
      OBVIOUS
    <3>1. w \in Range(list[Receivers]) /\ Woken(w)
      BY <1>4
    <3>2. w \in Thread
      <4>1. list \in Lists
        BY <1>1, InvParts DEF QueuesOK, Queues
      <4> QED
        BY <3>1, <4>1, ListFacts, ListNames, Heads
    <3> QED
      BY <1>3, <1>5, <1>6, <3>1, <3>2, ZenonT(60) DEF Waiters, Woken, Retrying
  <2>3. Enough(Receivers, "recv", entry)
    BY <1>1 DEF NoMailStranded, Enough
  <2>4. Enough(Receivers, "recv", entry)
        => (list'[Receivers] # <<>> => Cardinality(Retrying("recv")') >= entry + 1)
    BY <1>7, <1>9, <2>1, <2>2, EnoughMore DEF Enough
  <2> QED
    BY <1>9, <2>3, <2>4 DEF NoMailStranded
<1>11. NoRoomStranded'
  <2>1. Retrying("send") \ {t} \subseteq Retrying("send")'
    BY <1>2, <1>5, RetryingKept, ZenonT(60)
  <2>2. list'[Senders] # <<>> => Cardinality(Retrying("send")') >= Size - entry - 1
    <3>1. PICK n \in Nat : n = Size - entry
      BY <1>9
    <3>2. Enough(Senders, "send", n)
      BY <1>1, <3>1 DEF NoRoomStranded, Enough
    <3>3. Enough(Senders, "send", n - 1)'
      BY <1>7, <2>1, <3>2, EnoughLess, ZenonT(60)
    <3> QED
      BY <3>1, <3>3 DEF Enough
  <2> QED
    BY <1>9, <2>2 DEF NoRoomStranded
<1> QED
  BY <1>3, <1>7, <1>8, <1>10, <1>11 DEF IInv, CallInv

\* A mail comes out and the first sender is woken.
LEMMA GetStep ==
    ASSUME IInv, KernelInv', Get, Wakes(Senders), Finish("recv")
    PROVE  IInv'
<1>1. KernelInv /\ RingInv /\ CallInv /\ TimeInv /\ NoMailStranded /\ NoRoomStranded
  BY DEF IInv
<1>2. PICK t : \A u \in Thread \ {t} : pc'[u] = pc[u]
  BY <1>1, FinishFacts
<1>3. /\ pc' \in [Thread -> Calls] /\ left' \in [Thread -> {Off} \cup 0 .. MaxDelay]
      /\ \A u \in Thread : stat[u] = "SUSPEND" => pc'[u] = pc[u]
      /\ \A u \in Thread : left'[u] = left[u] \/ delay[u] = Off
      /\ \A u \in Thread : pc[u].op # "recv" => pc'[u] = pc[u]
  BY <1>1, FinishFacts
<1>4. PICK w : list[Senders] # <<>> => w \in Range(list[Senders]) /\ Woken(w)
  BY DEF Wakes
<1>5. /\ \A u \in Thread : Kept(u) \/ Woken(u)
      /\ \A u \in Thread : delay'[u] = delay[u] \/ delay'[u] = Off
      /\ UNCHANGED error
  BY DEF Wakes
<1>6. Waiters(Receivers, "recv") /\ Waiters(Senders, "send")
  BY <1>1 DEF CallInv
<1>7. /\ Waiters(Receivers, "recv")' /\ (list'[Receivers] # <<>> => list[Receivers] # <<>>)
      /\ Waiters(Senders, "send")' /\ (list'[Senders] # <<>> => list[Senders] # <<>>)
  BY <1>1, <1>3, <1>5, <1>6, ListNames, WaitersKept, ZenonT(60)
<1>8. RingInv' /\ TimeInv'
  BY <1>1, <1>3, <1>5, GetRing, TimeKept
<1>9. entry \in Nat /\ Size - entry \in Nat /\ entry' = entry - 1 /\ Size' - entry' = Size - entry + 1
  BY <1>1, ListNames DEF RingInv, Get
<1>10. NoRoomStranded'
  <2>1. Retrying("send") \subseteq Retrying("send")'
    <3>1. \A u \in Thread : pc[u].op = "send" /\ u \notin {} => pc'[u] = pc[u]
      BY <1>3
    <3>2. Retrying("send") \ {} \subseteq Retrying("send")'
      BY <1>5, <3>1, RetryingKept
    <3> QED
      BY <3>2
  <2>2. list[Senders] # <<>> => w \in Retrying("send")' /\ w \notin Retrying("send")
    <3> SUFFICES ASSUME list[Senders] # <<>>
                 PROVE  w \in Retrying("send")' /\ w \notin Retrying("send")
      OBVIOUS
    <3>1. w \in Range(list[Senders]) /\ Woken(w)
      BY <1>4
    <3>2. w \in Thread
      <4>1. list \in Lists
        BY <1>1, InvParts DEF QueuesOK, Queues
      <4> QED
        BY <3>1, <4>1, ListFacts, ListNames, Heads
    <3> QED
      BY <1>3, <1>5, <1>6, <3>1, <3>2 DEF Waiters, Woken, Retrying
  <2>3. list'[Senders] # <<>> => Cardinality(Retrying("send")') >= Size - entry + 1
    <3>1. PICK n \in Nat : n = Size - entry
      BY <1>9
    <3>2. Enough(Senders, "send", n)
      BY <1>1, <3>1 DEF NoRoomStranded, Enough
    <3>3. Enough(Senders, "send", n + 1)'
      BY <1>7, <2>1, <2>2, <3>2, EnoughMore
    <3> QED
      BY <3>1, <3>3 DEF Enough
  <2> QED
    BY <1>9, <2>3 DEF NoRoomStranded
<1>11. NoMailStranded'
  <2>1. Retrying("recv") \ {t} \subseteq Retrying("recv")'
    BY <1>2, <1>5, RetryingKept, ZenonT(60)
  <2>2. list'[Receivers] # <<>> => Cardinality(Retrying("recv")') >= entry - 1
    <3>1. PICK n \in Nat : n = entry
      BY <1>9
    <3>2. Enough(Receivers, "recv", n)
      BY <1>1, <3>1 DEF NoMailStranded, Enough
    <3>3. Enough(Receivers, "recv", n - 1)'
      BY <1>7, <2>1, <3>2, EnoughLess
    <3> QED
      BY <3>1, <3>3 DEF Enough
  <2> QED
    BY <1>9, <2>2 DEF NoMailStranded
<1> QED
  BY <1>3, <1>7, <1>8, <1>10, <1>11, ZenonT(60) DEF IInv, CallInv

\* Nothing goes in or out and nobody who is on the way turns back.
LEMMA QuietStep ==
    ASSUME IInv, KernelInv', TimeInv', UNCHANGED mbVars, pc' \in [Thread -> Calls],
           \A u \in Thread : Kept(u) \/ Woken(u),
           \A u \in Thread : stat[u] = "SUSPEND" => pc'[u] = pc[u],
           \A u \in Thread : pc[u].op \in {"recv", "send"} => pc'[u] = pc[u]
    PROVE  IInv'
<1>1. KernelInv /\ RingInv /\ CallInv /\ TimeInv /\ NoMailStranded /\ NoRoomStranded
  BY DEF IInv
<1>2. /\ Waiters(Receivers, "recv")' /\ (list'[Receivers] # <<>> => list[Receivers] # <<>>)
      /\ Waiters(Senders, "send")' /\ (list'[Senders] # <<>> => list[Senders] # <<>>)
  BY <1>1, ListNames, WaitersKept DEF CallInv
<1>3. UNCHANGED <<msg_pool, in_offset, out_offset, entry>>
  BY DEF mbVars
<1>4. RingInv'
  BY <1>1, <1>3 DEF RingInv
<1>5. PICK n \in Nat, r \in Nat : n = entry /\ r = Size - entry
  BY <1>1, ListNames DEF RingInv
<1>6. ASSUME NEW op \in {"recv", "send"} PROVE Retrying(op) \subseteq Retrying(op)'
  <2>1. Retrying(op) \ {} \subseteq Retrying(op)'
    <3>1. \A u \in Thread : pc[u].op = op /\ u \notin {} => pc'[u] = pc[u]
      OBVIOUS
    <3> QED
      BY <3>1, RetryingKept
  <2> QED
    BY <2>1
<1>7. NoMailStranded'
  <2>1. Enough(Receivers, "recv", n)
    BY <1>1, <1>5 DEF NoMailStranded, Enough
  <2>2. Enough(Receivers, "recv", n)'
    BY <1>2, <1>6, <2>1, EnoughSame
  <2> QED
    BY <1>3, <1>5, <2>2 DEF NoMailStranded, Enough
<1>8. NoRoomStranded'
  <2>1. Enough(Senders, "send", r)
    BY <1>1, <1>5 DEF NoRoomStranded, Enough
  <2>2. Enough(Senders, "send", r)'
    BY <1>2, <1>6, <2>1, EnoughSame
  <2> QED
    BY <1>3, <1>5, <2>2 DEF NoRoomStranded, Enough
<1> QED
  BY <1>2, <1>4, <1>7, <1>8 DEF IInv, CallInv

-----------------------------------------------------------------------------
(* One lemma per kind of action.                                           *)

\* A mail is sent or received at once, or by a thread that was woken.
LEMMA SendInv ==
    ASSUME IInv, NEW t \in Thread, NEW m \in Mail, Send(t, m)
    PROVE  IInv'
<1>1. At(t, "app") /\ Put(m) /\ ThreadWakes(t, Receivers) /\ UNCHANGED <<pc, left>>
  BY DEF Send
<1>2. KernelInv' /\ Wakes(Receivers)
  BY <1>1, ListNames, ThreadWakesStep DEF IInv
<1>3. Finish("send")
  BY <1>1, ZenonT(60) DEF Finish
<1> QED
  BY <1>1, <1>2, <1>3, PutStep

LEMMA SendRetryInv ==
    ASSUME IInv, NEW t \in Thread, SendRetry(t)
    PROVE  IInv'
<1>1. At(t, "send") /\ Put(pc[t].mail) /\ ThreadWakes(t, Receivers) /\ Return(t)
  BY ZenonT(60) DEF SendRetry
<1>2. KernelInv' /\ Wakes(Receivers)
  BY <1>1, ListNames, ThreadWakesStep DEF IInv
<1>3. stat[t] = "READY" /\ delay[t] = Off /\ pc[t].op = "send"
  BY <1>1, RunnerFacts DEF IInv
<1>4. Finish("send")
  BY <1>1, <1>3 DEF Finish
<1>5. pc[t].mail \in Mail
  BY <1>3, CallFacts DEF IInv, CallInv
<1> QED
  BY <1>1, <1>2, <1>4, <1>5, PutStep

LEMMA SendFromISRInv ==
    ASSUME IInv, NEW m \in Mail, SendFromISR(m)
    PROVE  IInv'
<1>1. Put(m) /\ HandlerWakes(Receivers) /\ UNCHANGED <<pc, left>>
  BY DEF SendFromISR
<1>2. KernelInv' /\ Wakes(Receivers)
  BY <1>1, ListNames, HandlerWakesStep DEF IInv
<1>3. Finish("send")
  BY <1>1 DEF Finish
<1> QED
  BY <1>1, <1>2, <1>3, PutStep

LEMMA RecvInv ==
    ASSUME IInv, NEW t \in Thread, Recv(t) \/ RecvRetry(t)
    PROVE  IInv'
<1>1. PICK op : At(t, op) /\ Get /\ ThreadWakes(t, Senders)
                /\ (UNCHANGED <<pc, left>> \/ (op = "recv" /\ Return(t)))
  BY DEF Recv, RecvRetry
<1>2. KernelInv' /\ Wakes(Senders)
  BY <1>1, ListNames, ThreadWakesStep DEF IInv
<1>3. stat[t] = "READY" /\ delay[t] = Off /\ pc[t].op = op
  BY <1>1, RunnerFacts DEF IInv
<1>4. Finish("recv")
  BY <1>1, <1>3 DEF Finish
<1> QED
  BY <1>1, <1>2, <1>4, GetStep

LEMMA RecvFromISRInv ==
    ASSUME IInv, RecvFromISR
    PROVE  IInv'
<1>1. Get /\ HandlerWakes(Senders) /\ UNCHANGED <<pc, left>>
  BY DEF RecvFromISR
<1>2. KernelInv' /\ Wakes(Senders)
  BY <1>1, ListNames, HandlerWakesStep DEF IInv
<1>3. Finish("recv")
  BY <1>1 DEF Finish
<1> QED
  BY <1>1, <1>2, <1>3, GetStep

\* A thread suspends, for the first time or again: t waits in q, while the
\* other list o and its threads are left alone.
LEMMA WaitKeeps ==
    ASSUME IInv, NEW t \in Thread, t # Idle, NEW from, At(t, from),
           NEW q \in {Receivers, Senders}, NEW time \in Delay \cup {Forever},
           NEW c \in Calls, Wait(t, q, time, c),
           c.op = IF q = Receivers THEN "recv" ELSE "send", from = "app" \/ from = c.op,
           entry = IF q = Receivers THEN 0 ELSE Size,
           left' = [left EXCEPT ![t] = time], UNCHANGED mbVars
    PROVE  IInv'
<1>1. KernelInv /\ RingInv /\ CallInv /\ TimeInv /\ NoMailStranded /\ NoRoomStranded
  BY DEF IInv
<1>2. /\ error' = [error EXCEPT ![t] = "EOK"] /\ delay' = [delay EXCEPT ![t] = time]
      /\ pc' = [pc EXCEPT ![t] = c]
  BY DEF Wait, Goto
<1>3. /\ q \in WaitList /\ Receivers \in WaitList /\ Senders \in WaitList
      /\ Receivers # Senders /\ Size \in Nat \ {0}
  BY MailboxAssumption
<1>4. /\ KernelInv' /\ stat'[t] = "SUSPEND"
      /\ \A u \in Thread \ {t} : stat'[u] = stat[u]
      /\ \A r \in WaitList : \A u \in Thread :
            u \in Range(list'[r]) <=> IF u = t THEN r = q ELSE u \in Range(list[r])
  BY <1>1, <1>3, WaitStep, ZenonT(60)
<1>5. pc[t].op = from
  BY <1>1, RunnerFacts
<1>6. /\ error \in [Thread -> Error] /\ delay \in [Thread -> {Off} \cup 0 .. MaxDelay]
      /\ list \in Lists /\ list' \in Lists
  BY <1>1, <1>4, InvParts, InvPartsNext, ZenonT(60) DEF QueuesOK, Queues, Rest
<1>7. pc \in [Thread -> Calls] /\ pc' \in [Thread -> Calls]
  BY <1>1, <1>2 DEF CallInv
<1>8. /\ \A r \in WaitList : /\ Range(list'[r]) \subseteq Thread /\ Range(list[r]) \subseteq Thread
                             /\ list[r] = <<>> <=> Range(list[r]) = {}
                             /\ list'[r] = <<>> <=> Range(list'[r]) = {}
  BY <1>6, ListFacts, Heads, ZenonT(60)
<1>9. CallInv'
  <2>1. ASSUME NEW r \in {Receivers, Senders}, NEW op, op = IF r = Receivers THEN "recv" ELSE "send"
        PROVE  Waiters(r, op)'
    <3>1. Waiters(r, op)
      BY <1>1, <1>3, <2>1 DEF CallInv
    <3> QED
      BY <1>2, <1>3, <1>4, <1>6, <1>7, <1>8, <2>1, <3>1 DEF Waiters
  <2> QED
    BY <1>3, <1>7, <2>1 DEF CallInv
<1>10. TimeInv'
  BY <1>1, <1>2, <1>6 DEF TimeInv, TimeoutKept, Delay, Forever
<1>11. UNCHANGED <<msg_pool, in_offset, out_offset, entry>>
  BY DEF mbVars
<1>12. RingInv'
  BY <1>1, <1>11 DEF RingInv
<1>13. ASSUME NEW op \in {"recv", "send"}, op # c.op PROVE Retrying(op) \subseteq Retrying(op)'
  <2>1. ASSUME NEW u \in Thread, u \in Retrying(op) PROVE u # t
    BY <1>5, <1>13, <2>1 DEF Retrying
  <2>2. \A u \in Thread \ {t} : stat'[u] = stat[u] /\ error'[u] = error[u] /\ pc'[u] = pc[u]
    BY <1>2, <1>4, <1>6, <1>7
  <2> QED
    BY <2>1, <2>2 DEF Retrying
<1>14. PICK n \in Nat, r \in Nat : n = entry /\ r = Size - entry
  <2>1. entry \in Nat /\ Size - entry \in Nat
    BY <1>1, <1>3 DEF RingInv
  <2> QED
    BY <2>1, Zenon
<1>15. CASE q = Receivers
  <2>1. c.op = "recv" /\ entry = 0 /\ entry' = 0
    BY <1>11, <1>15, ZenonT(60)
  <2>2. NoMailStranded'
    BY <2>1, EnoughNone, ZenonT(60) DEF NoMailStranded, Enough
  <2>3. list'[Senders] # <<>> => list[Senders] # <<>>
    BY <1>3, <1>4, <1>8, <1>15, ZenonT(60)
  <2>4. Enough(Senders, "send", r)
    BY <1>1, <1>14, ZenonT(60) DEF NoRoomStranded, Enough
  <2>5. Enough(Senders, "send", r)'
    BY <1>13, <2>1, <2>3, <2>4, EnoughSame, ZenonT(60)
  <2>6. NoRoomStranded'
    BY <1>11, <1>14, <2>5, ZenonT(60) DEF NoRoomStranded, Enough
  <2> QED
    BY <1>4, <1>9, <1>10, <1>12, <2>2, <2>6, ZenonT(60) DEF IInv
<1>16. CASE q = Senders
  <2>1. c.op = "send" /\ Size - entry = 0 /\ Size' - entry' = 0
    BY <1>3, <1>11, <1>16
  <2>2. NoRoomStranded'
    BY <2>1, EnoughNone, ZenonT(60) DEF NoRoomStranded, Enough
  <2>3. list'[Receivers] # <<>> => list[Receivers] # <<>>
    BY <1>3, <1>4, <1>8, <1>16, ZenonT(60)
  <2>4. Enough(Receivers, "recv", n)
    BY <1>1, <1>14, ZenonT(60) DEF NoMailStranded, Enough
  <2>5. Enough(Receivers, "recv", n)'
    BY <1>13, <2>1, <2>3, <2>4, EnoughSame, ZenonT(60)
  <2>6. NoMailStranded'
    BY <1>11, <1>14, <2>5, ZenonT(60) DEF NoMailStranded, Enough
  <2> QED
    BY <1>4, <1>9, <1>10, <1>12, <2>2, <2>6, ZenonT(60) DEF IInv
<1> QED
  BY <1>15, <1>16

\* Both calls, the first time and after they have been woken for nothing.
LEMMA SendWaitInv ==
    ASSUME IInv, NEW t \in Thread \ {Idle},
           SendWaitAgain(t) \/ \E m \in Mail, time \in Timeout : SendWait(t, m, time)
    PROVE  IInv'
<1>1. /\ TimeInv /\ CallInv /\ KernelInv /\ Receivers # Senders
      /\ Timeout \subseteq Delay \cup {Forever}
  BY MailboxAssumption DEF IInv
<1>2. ASSUME NEW m \in Mail, NEW time \in Timeout, SendWait(t, m, time) PROVE IInv'
  <2>1. /\ At(t, "app") /\ entry = Size /\ left' = [left EXCEPT ![t] = time]
        /\ Wait(t, Senders, time, [op |-> "send", mail |-> m]) /\ UNCHANGED mbVars
    BY <1>2 DEF SendWait
  <2>2. [op |-> "send", mail |-> m] \in Calls /\ [op |-> "send", mail |-> m].op = "send"
    BY DEF Calls
  <2> QED
    BY <1>1, <2>1, <2>2, WaitKeeps, ZenonT(60)
<1>3. CASE SendWaitAgain(t)
  <2>1. /\ At(t, "send") /\ entry = Size /\ left[t] # 0
        /\ Wait(t, Senders, left[t], pc[t]) /\ UNCHANGED <<mbVars, left>>
    BY <1>3, ZenonT(60) DEF SendWaitAgain
  <2>2. pc[t] \in Calls /\ pc[t].op = "send"
    BY <1>1, <2>1, RunnerFacts, ZenonT(60) DEF CallInv
  <2>3. left[t] \in Delay \cup {Forever} /\ left' = [left EXCEPT ![t] = left[t]]
    BY <1>1, <2>1, TimeAssumption DEF TimeInv, Delay, Forever
  <2> QED
    BY <1>1, <2>1, <2>2, <2>3, WaitKeeps, ZenonT(60)
<1> QED
  BY <1>2, <1>3

LEMMA RecvWaitInv ==
    ASSUME IInv, NEW t \in Thread \ {Idle},
           RecvWaitAgain(t) \/ \E time \in Timeout : RecvWait(t, time)
    PROVE  IInv'
<1>1. /\ TimeInv /\ CallInv /\ KernelInv /\ Timeout \subseteq Delay \cup {Forever}
  BY MailboxAssumption DEF IInv
<1>2. ASSUME NEW time \in Timeout, RecvWait(t, time) PROVE IInv'
  <2>1. /\ At(t, "app") /\ entry = 0 /\ left' = [left EXCEPT ![t] = time]
        /\ Wait(t, Receivers, time, [op |-> "recv"]) /\ UNCHANGED mbVars
    BY <1>2 DEF RecvWait
  <2>2. [op |-> "recv"] \in Calls /\ [op |-> "recv"].op = "recv"
    BY DEF Calls
  <2> QED
    BY <1>1, <2>1, <2>2, WaitKeeps, ZenonT(60)
<1>3. CASE RecvWaitAgain(t)
  <2>1. /\ At(t, "recv") /\ entry = 0 /\ left[t] # 0
        /\ Wait(t, Receivers, left[t], pc[t]) /\ UNCHANGED <<mbVars, left>>
    BY <1>3, ZenonT(60) DEF RecvWaitAgain
  <2>2. pc[t] \in Calls /\ pc[t].op = "recv"
    BY <1>1, <2>1, RunnerFacts, ZenonT(60) DEF CallInv
  <2>3. left[t] \in Delay \cup {Forever} /\ left' = [left EXCEPT ![t] = left[t]]
    BY <1>1, <2>1, TimeAssumption DEF TimeInv, Delay, Forever
  <2> QED
    BY <1>1, <2>1, <2>2, <2>3, WaitKeeps, ZenonT(60)
<1> QED
  BY <1>2, <1>3

\* A call gives up: it has failed, or there is nothing to go on with.
LEMMA FailKeeps ==
    ASSUME IInv, KernelInv', NEW t \in Thread, NEW op, At(t, op), Return(t),
           \/ error[t] # "EOK"
           \/ op = "recv" /\ entry = 0
           \/ op = "send" /\ entry = Size,
           \A u \in Thread \ {t} : error'[u] = error[u],
           UNCHANGED <<stat, list, delay, mbVars>>
    PROVE  IInv'
<1>1. KernelInv /\ RingInv /\ CallInv /\ TimeInv /\ NoMailStranded /\ NoRoomStranded
  BY DEF IInv
<1>2. /\ stat[t] = "READY" /\ delay[t] = Off /\ pc[t].op = op
      /\ t \notin Range(list[Receivers]) /\ t \notin Range(list[Senders])
  BY <1>1, RunnerFacts, ListNames, ZenonT(60)
<1>3. /\ pc' \in [Thread -> Calls] /\ left' \in [Thread -> {Off} \cup 0 .. MaxDelay]
      /\ \A u \in Thread : left'[u] = left[u] \/ delay[u] = Off
      /\ \A u \in Thread \ {t} : pc'[u] = pc[u]
  BY <1>1, <1>2, ZenonT(60) DEF CallInv, TimeInv, Return, Goto, Calls
<1>4. UNCHANGED <<msg_pool, in_offset, out_offset, entry>>
  BY ZenonT(60) DEF mbVars
<1>5. RingInv' /\ TimeInv'
  BY <1>1, <1>3, <1>4, TimeKept, ZenonT(60) DEF RingInv
<1>6. CallInv'
  <2>1. Range(list[Receivers]) \subseteq Thread /\ Range(list[Senders]) \subseteq Thread
    <3>1. list \in Lists
      BY <1>1, InvParts, ZenonT(60) DEF QueuesOK, Queues
    <3> QED
      BY <3>1, ListFacts, ListNames, Heads, ZenonT(60)
  <2> QED
    BY <1>1, <1>2, <1>3, <2>1, ZenonT(60) DEF CallInv, Waiters
<1>7. ASSUME NEW o, o # op \/ error[t] # "EOK" PROVE Retrying(o) \subseteq Retrying(o)'
  <2>1. t \notin Retrying(o)
    BY <1>2, <1>7, ZenonT(60) DEF Retrying
  <2> QED
    BY <1>3, <2>1 DEF Retrying
<1>8. PICK n \in Nat, r \in Nat : n = entry /\ r = Size - entry
  <2>1. entry \in Nat /\ Size - entry \in Nat
    BY <1>1, ListNames DEF RingInv
  <2> QED
    BY <2>1, Zenon
<1>9. NoMailStranded'
  <2>1. CASE entry = 0
    BY <1>4, <2>1, EnoughNone DEF NoMailStranded, Enough
  <2>2. CASE "recv" # op \/ error[t] # "EOK"
    <3>1. Enough(Receivers, "recv", n)
      BY <1>1, <1>8 DEF NoMailStranded, Enough
    <3>2. Enough(Receivers, "recv", n)'
      BY <1>7, <2>2, <3>1, EnoughSame
    <3> QED
      BY <1>4, <1>8, <3>2 DEF NoMailStranded, Enough
  <2> QED
    BY <2>1, <2>2
<1>10. NoRoomStranded'
  <2>1. CASE entry = Size
    <3>1. Size' - entry' = 0
      BY <1>4, <2>1, ListNames
    <3> QED
      BY <3>1, EnoughNone, ZenonT(60) DEF NoRoomStranded, Enough
  <2>2. CASE "send" # op \/ error[t] # "EOK"
    <3>1. Enough(Senders, "send", r)
      BY <1>1, <1>8 DEF NoRoomStranded, Enough
    <3>2. Enough(Senders, "send", r)'
      BY <1>7, <2>2, <3>1, EnoughSame, ZenonT(60)
    <3> QED
      BY <1>4, <1>8, <3>2 DEF NoRoomStranded, Enough
  <2> QED
    BY <2>1, <2>2
<1> QED
  BY <1>5, <1>6, <1>9, <1>10 DEF IInv

\* The kernel's invariant does not depend on errors, nor on anything that is
\* not the kernel's.
LEMMA KernelUnchanged ==
    ASSUME KernelInv, error' \in [Thread -> Error],
           UNCHANGED <<stat, current_priority, list, group, current, lock_nest,
                       delay, remaining_tick, irq, resched>>
    PROVE  KernelInv'
BY ZenonT(60) DEF KernelInv, KernelTypeOK, NodeLinkedOnce, ListMatchesStat, BitmapMatchesQueues,
       IdleIsReady, TimerImpliesSuspended, RunningIsReady

LEMMA FailInv ==
    ASSUME IInv, NEW t \in Thread, SendFail(t) \/ RecvFail(t)
    PROVE  IInv'
<1>1. KernelInv /\ error \in [Thread -> Error]
  BY InvParts DEF IInv, Rest
<1>2. CASE SendFail(t)
  <2>1. /\ At(t, "send") /\ Return(t) /\ (error[t] # "EOK" \/ entry = Size)
        /\ UNCHANGED <<stat, current_priority, list, group, current, lock_nest,
                       delay, error, remaining_tick, irq, resched, mbVars>>
    BY <1>2, ZenonT(60) DEF SendFail, kernelVars
  <2>2. KernelInv'
    BY <1>1, <2>1, KernelUnchanged
  <2> QED
    BY <2>1, <2>2, FailKeeps
<1>3. CASE RecvFail(t)
  <2>1. /\ At(t, "recv") /\ Return(t) /\ (error[t] # "EOK" \/ entry = 0)
        /\ error' = [error EXCEPT ![t] = IF @ = "EOK" THEN "ETIMEOUT" ELSE @]
        /\ UNCHANGED <<stat, current_priority, list, group, current, lock_nest,
                       delay, remaining_tick, irq, resched, mbVars>>
    BY <1>3 DEF RecvFail
  <2>2. error' \in [Thread -> Error] /\ \A u \in Thread \ {t} : error'[u] = error[u]
    BY <1>1, <2>1 DEF Error
  <2>3. KernelInv'
    BY <1>1, <2>1, <2>2, KernelUnchanged, ZenonT(60)
  <2> QED
    BY <2>1, <2>2, <2>3, FailKeeps
<1> QED
  BY <1>2, <1>3

\* A reset: its begin,
LEMMA ResetBeginInv ==
    ASSUME IInv, NEW t \in Thread, ResetBegin(t), UNCHANGED <<mbVars, left>>
    PROVE  IInv'
<1>1. /\ At(t, "app") /\ irq = "on" /\ irq' = "masked" /\ pc' = [pc EXCEPT ![t] = [op |-> "reset"]]
      /\ UNCHANGED <<stat, current_priority, list, group, current, lock_nest,
                      delay, error, remaining_tick, resched>>
  BY DEF ResetBegin, Goto, At, Runs
<1>2. QueuesOK /\ Rest /\ TimeInv /\ pc \in [Thread -> Calls] /\ KernelInv
  BY InvParts DEF IInv, CallInv
<1>3. QueuesOK'
  BY <1>1, <1>2 DEF QueuesOK
<1>4. Rest'
  BY <1>1, <1>2, ZenonT(60) DEF Rest, TimerImpliesSuspended, RunningIsReady
<1>5. KernelInv' /\ TimeInv'
  BY <1>1, <1>2, <1>3, <1>4, InvPartsNext DEF TimeInv, TimeoutKept
<1>6. pc[t].op = "app" /\ stat[t] = "READY"
  BY <1>1, <1>2, RunnerFacts, ZenonT(60)
<1>7. /\ pc' \in [Thread -> Calls]
      /\ \A u \in Thread : stat[u] = "SUSPEND" => pc'[u] = pc[u]
      /\ \A u \in Thread : pc[u].op \in {"recv", "send"} => pc'[u] = pc[u]
  BY <1>1, <1>2, <1>6, ZenonT(60) DEF Calls
<1>8. \A u \in Thread : Kept(u)
  BY <1>1, ZenonT(60) DEF Kept
<1> QED
  BY <1>5, <1>7, <1>8, QuietStep

\* ... each thread it wakes,
LEMMA ResetResumeInv ==
    ASSUME IInv, NEW t \in Thread, NEW q \in WaitList, ResetResume(t, q),
           UNCHANGED <<mbVars, left>>
    PROVE  IInv'
<1>1. PICK w : w = Head(list[q])
  OBVIOUS
<1>2. /\ current = t /\ list[q] # <<>> /\ error' = [error EXCEPT ![w] = "ERROR"]
      /\ ResumeThread(w) /\ delay' = [delay EXCEPT ![w] = Off]
      /\ UNCHANGED <<current_priority, current, lock_nest, remaining_tick, irq, resched, pc>>
  BY <1>1, ZenonT(60) DEF ResetResume, Masked
<1>3. QueuesOK /\ Rest /\ TimeInv /\ pc \in [Thread -> Calls] /\ KernelInv
  BY InvParts DEF IInv, CallInv
<1>4. error' \in [Thread -> Error] /\ \A u \in Thread \ {w} : error'[u] = error[u]
  BY <1>2, <1>3, ZenonT(60) DEF Rest, Error
<1>5. /\ QueuesOK' /\ \A u \in Thread : Kept(u) \/ Woken(u)
      /\ delay' \in [Thread -> {Off} \cup 0 .. MaxDelay] /\ TimerImpliesSuspended'
      /\ stat[current] = "READY" => stat'[current] = "READY"
      /\ stat'[current] = "READY" => current \in Range(list'[current_priority'[current]])
  BY <1>1, <1>2, <1>3, <1>4, WakeStep, ZenonT(60)
<1>6. RunningIsReady'
  BY <1>2, <1>3, <1>5, ZenonT(60) DEF Rest, RunningIsReady
<1>7. Rest'
  BY <1>2, <1>3, <1>4, <1>5, <1>6, ZenonT(60) DEF Rest
<1>8. TimeInv'
  BY <1>2, <1>3, ZenonT(60) DEF TimeInv, TimeoutKept, Rest
<1> QED
  BY <1>2, <1>3, <1>5, <1>7, <1>8, InvPartsNext, QuietStep, ZenonT(60)

\* ... and its end, when nobody waits.
LEMMA ResetInv ==
    ASSUME IInv, NEW t \in Thread, Reset(t)
    PROVE  IInv'
<1>1. /\ list[Receivers] = <<>> /\ list[Senders] = <<>>
      /\ in_offset' = 0 /\ out_offset' = 0 /\ entry' = 0
      /\ irq' = "on" /\ pc' = [pc EXCEPT ![t] = App] /\ resched' = resched \cup {t}
      /\ current = t /\ irq = "masked"
      /\ UNCHANGED <<stat, current_priority, list, group, current, lock_nest,
                      delay, error, remaining_tick, msg_pool, left>>
  BY DEF Reset, ResetEnd, Masked, Goto
<1>2. QueuesOK /\ Rest /\ TimeInv /\ CallInv /\ RingInv
  BY InvParts DEF IInv
<1>3. QueuesOK'
  BY <1>1, <1>2 DEF QueuesOK
<1>4. Rest'
  BY <1>1, <1>2 DEF Rest, TimerImpliesSuspended, RunningIsReady
<1>5. TimeInv'
  BY <1>1, <1>2 DEF TimeInv, TimeoutKept
<1>6. CallInv'
  <2>1. Range(list'[Receivers]) = {} /\ Range(list'[Senders]) = {}
    <3>1. list \in Lists
      BY <1>2 DEF QueuesOK, Queues
    <3> QED
      BY <1>1, <3>1, ListFacts, ListNames, Heads, ZenonT(60)
  <2> QED
    BY <1>1, <1>2, <2>1 DEF CallInv, Waiters, Calls
<1>7. RingInv'
  <2>1. (0 + 0) % Size = 0
    BY ListNames, Places
  <2> QED
    BY <1>1, <1>2, <2>1, ListNames DEF RingInv
<1> QED
  BY <1>1, <1>3, <1>4, <1>5, <1>6, <1>7, InvPartsNext, ZenonT(60) DEF IInv, NoMailStranded, NoRoomStranded

\* A tick counts down the timers and what is left of the calls alike: a timer
\* that has expired is handled before the next tick.
LEMMA TimePassesInv ==
    ASSUME IInv, TimePasses
    PROVE  IInv'
<1>1. /\ Tick /\ delay' = Pass(delay) /\ irq = "on" /\ UNCHANGED <<pc, mbVars>>
      /\ left' = [t \in Thread |-> IF left[t] > 0 THEN left[t] - 1 ELSE left[t]]
  BY DEF TimePasses, Tick, TickBegin
<1>2. KernelInv /\ Rest /\ TimeInv /\ pc \in [Thread -> Calls]
  BY InvParts DEF IInv, CallInv
<1>3. KernelInv' /\ \A u \in Thread : Kept(u) \/ Woken(u)
  BY <1>1, <1>2, KernelStepInv, KernelStepWaiters DEF KernelStep, TimedOut
<1>4. left' \in [Thread -> {Off} \cup 0 .. MaxDelay]
  BY <1>1, <1>2, TimeAssumption DEF TimeInv, Off
<1>5. ASSUME NEW u \in Thread, delay'[u] # Off PROVE delay'[u] = left'[u]
  <2>1. delay[u] # Off /\ delay'[u] = delay[u] - 1
    BY <1>1, <1>5 DEF Pass
  <2>2. delay[u] \in 0 .. MaxDelay /\ delay[u] # 0 /\ delay[u] = left[u]
    BY <1>1, <1>2, <2>1 DEF Rest, TimerImpliesSuspended, TimeInv, TimeoutKept
  <2>3. delay[u] > 0 /\ left[u] > 0
    BY <2>2, TimeAssumption
  <2> QED
    BY <1>1, <2>1, <2>2, <2>3
<1>6. TimeInv'
  BY <1>4, <1>5 DEF TimeInv, TimeoutKept
<1> QED
  BY <1>1, <1>2, <1>3, <1>6, QuietStep

\* The timers that expire and the scheduler.
LEMMA KernelOwnInv ==
    ASSUME IInv, TimerCheckDone \/ \E t \in Thread : TimerExpire(t) \/ Schedule(t),
           UNCHANGED <<pc, mbVars, left>>
    PROVE  IInv'
<1>1. KernelInv /\ Rest /\ TimeInv /\ pc \in [Thread -> Calls]
  BY InvParts DEF IInv, CallInv
<1>2. KernelInv' /\ \A u \in Thread : Kept(u) \/ Woken(u)
  BY <1>1, KernelStepInv, KernelStepWaiters DEF KernelStep, TimedOut
<1>3. \A u \in Thread : delay'[u] = delay[u] \/ delay'[u] = Off
  BY <1>1 DEF TimerCheckDone, TimerExpire, Schedule, Rest
<1>4. TimeInv'
  BY <1>1, <1>3, TimeKept DEF TimeInv
<1> QED
  BY <1>1, <1>2, <1>4, QuietStep

-----------------------------------------------------------------------------
\* The invariant holds initially,
LEMMA InitIInv == Init => IInv
<1> SUFFICES ASSUME Init PROVE IInv
  OBVIOUS
<1>1. KernelInv
  BY KernelInitInv DEF Init
<1>2. /\ pc = [t \in Thread |-> App] /\ left = [t \in Thread |-> Off]
      /\ in_offset = 0 /\ out_offset = 0 /\ entry = 0
      /\ \E m \in Mail : msg_pool = [i \in 0 .. Size - 1 |-> m]
      /\ list = [h \in ListHead |-> IF h \in Prio THEN InitReady[h] ELSE <<>>]
      /\ delay = [t \in Thread |-> Off]
  BY ZenonT(60) DEF Init, KernelInit
<1>3. list[Receivers] = <<>> /\ list[Senders] = <<>>
  BY <1>2, ListNames, Heads
<1>4. Range(list[Receivers]) = {} /\ Range(list[Senders]) = {}
  <2>1. list \in Lists
    BY <1>1, InvParts DEF QueuesOK, Queues
  <2> QED
    BY <1>3, <2>1, ListFacts, ListNames, Heads, ZenonT(60)
<1>5. CallInv
  BY <1>2, <1>4, ZenonT(60) DEF CallInv, Waiters, Calls
<1>6. TimeInv
  BY <1>2 DEF TimeInv, TimeoutKept
<1>7. RingInv
  <2>1. (0 + 0) % Size = 0
    BY ListNames, Places
  <2> QED
    BY <1>2, <2>1, ListNames DEF RingInv
<1> QED
  BY <1>1, <1>3, <1>5, <1>6, <1>7 DEF IInv, NoMailStranded, NoRoomStranded

\* ... every step keeps it,
LEMMA NextIInv == IInv /\ [Next]_vars => IInv'
<1> SUFFICES ASSUME IInv, [Next]_vars PROVE IInv'
  OBVIOUS
<1>1. ASSUME NEW t \in Thread \ {Idle}, MailboxCall(t) PROVE IInv'
  <2>1. ASSUME NEW q \in {Receivers, Senders}, ResetResume(t, q), UNCHANGED <<mbVars, left>>
        PROVE  IInv'
    BY <2>1, ListNames, ResetResumeInv
  <2> QED
    BY <1>1, <2>1, SendInv, SendRetryInv, SendWaitInv, RecvInv, RecvWaitInv, FailInv, ZenonT(60),
       ResetBeginInv, ResetInv DEF MailboxCall, ResetReceivers, ResetSenders
<1>2. CASE UNCHANGED vars
  <2>1. UNCHANGED <<stat, current_priority, list, group, current, lock_nest, delay, error,
                    remaining_tick, irq, resched, pc, mbVars, left>>
    BY <1>2, ZenonT(60) DEF vars, kernelVars
  <2>2. KernelInv /\ error \in [Thread -> Error] /\ TimeInv /\ pc \in [Thread -> Calls]
    BY InvParts DEF IInv, Rest, CallInv
  <2>3. KernelInv' /\ TimeInv'
    BY <2>1, <2>2, KernelUnchanged DEF TimeInv, TimeoutKept
  <2>4. \A u \in Thread : Kept(u)
    BY <2>1 DEF Kept
  <2> QED
    BY <2>1, <2>2, <2>3, <2>4, QuietStep
<1> QED
  BY <1>1, <1>2, TimePassesInv, KernelOwnInv, SendFromISRInv, RecvFromISRInv DEF Next

\* ... so it always holds.
LEMMA Inductive == Spec => []IInv
BY InitIInv, NextIInv, PTL DEF Spec

\* No mail is left beside a receiver that sleeps, and no free place beside a
\* sender that does, however sends and receives of threads and interrupt
\* handlers, resets and time-outs meet: for every thread that has to look, one
\* has been woken and is on its way.
THEOREM MailboxWakesEnough == Spec => []NothingStranded
<1>1. IInv => NothingStranded
  BY DEF IInv, RingInv, CallInv, TimeInv, NothingStranded, TypeOK, KernelInv
<1> QED
  BY <1>1, Inductive, PTL

\* rt_mb_send_wait and rt_mb_recv that are woken for nothing wait again for
\* what is left of their timeout, not for all of it.
THEOREM MailboxKeepsTimeouts == Spec => []TimeoutKept
<1>1. IInv => TimeoutKept
  BY DEF IInv, TimeInv
<1> QED
  BY <1>1, Inductive, PTL

-----------------------------------------------------------------------------
(* The refinement.  Queue is what Fifo puts for the queue of BoundedQueue:  *)
(* the mails from the read offset on, around the end of the ring.           *)

INSTANCE SequenceTheorems

Queue == [i \in 1 .. entry |-> msg_pool[(out_offset + i - 1) % Size]]

QueueOK ==
    /\ Queue \in Seq(Mail) /\ Len(Queue) = entry
    /\ \A i \in 1 .. entry : Queue[i] = msg_pool[(out_offset + (i - 1)) % Size]

\* Where the i-th mail is.
LEMMA PlaceOf ==
    ASSUME NEW n \in Nat \ {0}, NEW o \in 0 .. n - 1, NEW i \in 1 .. n
    PROVE  /\ (o + (i - 1)) % n = IF o + i <= n THEN o + i - 1 ELSE o + i - 1 - n
           /\ (o + (i - 1)) % n \in 0 .. n - 1
<1>1. i - 1 \in 0 .. n
  OBVIOUS
<1>2. (o + (i - 1)) % n = IF o + (i - 1) < n THEN o + (i - 1) ELSE o + (i - 1) - n
  BY <1>1, Places, ZenonT(60)
<1> QED
  BY <1>2

LEMMA QueueFacts == RingInv => QueueOK
<1> SUFFICES ASSUME RingInv PROVE QueueOK
  OBVIOUS
<1>1. /\ entry \in Nat /\ entry <= Size /\ Size \in Nat \ {0}
      /\ out_offset \in 0 .. Size - 1 /\ msg_pool \in [0 .. Size - 1 -> Mail]
  BY ListNames DEF RingInv
<1>2. \A i \in 1 .. entry : (out_offset + (i - 1)) % Size \in 0 .. Size - 1
  <2> SUFFICES ASSUME NEW i \in 1 .. entry PROVE (out_offset + (i - 1)) % Size \in 0 .. Size - 1
    OBVIOUS
  <2>1. i \in 1 .. Size
    BY <1>1
  <2> QED
    BY <1>1, <2>1, PlaceOf
<1>3. \A i \in 1 .. entry : out_offset + i - 1 = out_offset + (i - 1)
  OBVIOUS
<1>4. \A i \in 1 .. entry : /\ Queue[i] = msg_pool[(out_offset + (i - 1)) % Size]
                            /\ Queue[i] \in Mail
  BY <1>1, <1>2, <1>3 DEF Queue
<1>5. Queue \in [1 .. entry -> Mail]
  BY <1>4 DEF Queue
<1>6. Queue \in Seq(Mail) /\ Len(Queue) = entry
  BY <1>1, <1>5
<1> QED
  BY <1>4, <1>6 DEF QueueOK

LEMMA QueueFactsNext == RingInv' => QueueOK'
BY QueueFacts, PTL

\* A mail that is put is the last one,
LEMMA PutAppends ==
    ASSUME RingInv, NEW m \in Mail, Put(m)
    PROVE  Queue' = Append(Queue, m) /\ Len(Queue) < Size
<1>1. QueueOK /\ RingInv' /\ QueueOK'
  BY PutRing, QueueFacts, QueueFactsNext
<1>2. /\ entry \in Nat /\ entry \in 0 .. Size /\ entry < Size /\ Size \in Nat \ {0} /\ entry' = entry + 1
      /\ out_offset \in 0 .. Size - 1 /\ msg_pool \in [0 .. Size - 1 -> Mail]
      /\ in_offset = (out_offset + entry) % Size /\ out_offset' = out_offset
      /\ in_offset \in 0 .. Size - 1
      /\ msg_pool' = [msg_pool EXCEPT ![in_offset] = m]
  BY ListNames DEF RingInv, Put
<1>3. /\ Append(Queue, m) \in Seq(Mail) /\ Len(Append(Queue, m)) = entry + 1
      /\ \A i \in 1 .. entry + 1 : Append(Queue, m)[i] = IF i = entry + 1 THEN m ELSE Queue[i]
  BY <1>1, <1>2 DEF QueueOK
<1>4. /\ Queue' \in Seq(Mail) /\ Len(Queue') = entry + 1
      /\ \A i \in 1 .. entry + 1 : Queue'[i] = msg_pool'[(out_offset + (i - 1)) % Size]
  BY <1>1, <1>2 DEF QueueOK
<1>5. ASSUME NEW i \in 1 .. entry + 1 PROVE Queue'[i] = Append(Queue, m)[i]
  <2>1. Queue'[i] = msg_pool'[(out_offset + (i - 1)) % Size]
    BY <1>4
  <2>2. CASE i = entry + 1
    <3>1. i - 1 = entry
      BY <1>2, <2>2
    <3>2. Queue'[i] = m
      BY <1>2, <2>1, <3>1
    <3> QED
      BY <1>3, <2>2, <3>2
  <2>3. CASE i # entry + 1
    <3>1. i \in 1 .. entry /\ i \in 1 .. Size
      BY <1>2, <2>3
    <3>2. (out_offset + (i - 1)) % Size = (IF out_offset + i <= Size THEN out_offset + i - 1
                                                                   ELSE out_offset + i - 1 - Size)
      BY <1>2, <3>1, PlaceOf, ZenonT(60)
    <3>3. in_offset = IF out_offset + entry < Size THEN out_offset + entry
                                                   ELSE out_offset + entry - Size
      BY <1>2, Places, ZenonT(60)
    <3>4. (out_offset + (i - 1)) % Size # in_offset
      BY <1>2, <3>1, <3>2, <3>3
    <3>5. (out_offset + (i - 1)) % Size \in 0 .. Size - 1
      BY <1>2, <3>1, PlaceOf
    <3>6. Queue'[i] = msg_pool[(out_offset + (i - 1)) % Size]
      BY <1>2, <2>1, <3>4, <3>5
    <3>7. Queue[i] = msg_pool[(out_offset + (i - 1)) % Size]
      BY <1>1, <3>1 DEF QueueOK
    <3> QED
      BY <1>3, <2>3, <3>6, <3>7
  <2> QED
    BY <2>2, <2>3, ZenonT(60)
<1>6. Queue' = Append(Queue, m)
  BY <1>3, <1>4, <1>5, SeqEqual
<1> QED
  BY <1>1, <1>2, <1>6 DEF QueueOK

\* ... and the mail that is taken is the first.
LEMMA GetTakesHead ==
    ASSUME RingInv, Get
    PROVE  Queue' = Tail(Queue) /\ Queue # <<>>
<1>1. QueueOK /\ RingInv' /\ QueueOK'
  BY GetRing, QueueFacts, QueueFactsNext
<1>2. /\ entry \in Nat /\ entry > 0 /\ entry <= Size /\ Size \in Nat \ {0} /\ entry' = entry - 1
      /\ out_offset \in 0 .. Size - 1 /\ out_offset' = Advance(out_offset)
      /\ msg_pool' = msg_pool /\ out_offset' \in 0 .. Size - 1
  BY <1>1, ListNames DEF RingInv, Get
<1>3. Queue # <<>>
  BY <1>1, <1>2 DEF QueueOK
<1>4. /\ Tail(Queue) \in Seq(Mail) /\ Len(Tail(Queue)) = entry - 1
      /\ \A i \in 1 .. entry - 1 : Tail(Queue)[i] = Queue[i + 1]
  BY <1>1, <1>2, <1>3 DEF QueueOK
<1>5. /\ Queue' \in Seq(Mail) /\ Len(Queue') = entry - 1
      /\ \A i \in 1 .. entry - 1 : Queue'[i] = msg_pool[(out_offset' + (i - 1)) % Size]
  BY <1>1, <1>2 DEF QueueOK
<1>6. ASSUME NEW i \in 1 .. entry - 1 PROVE Queue'[i] = Tail(Queue)[i]
  <2>1. i \in 1 .. Size /\ i \in 0 .. Size /\ i + 1 \in 1 .. Size /\ i + 1 \in 1 .. entry /\ (i + 1) - 1 = i
    BY <1>2
  <2>2. (out_offset' + (i - 1)) % Size = (IF out_offset' + i <= Size THEN out_offset' + i - 1
                                                                   ELSE out_offset' + i - 1 - Size)
    BY <1>2, <2>1, PlaceOf
  <2>3. (out_offset + i) % Size = IF out_offset + i < Size THEN out_offset + i
                                                           ELSE out_offset + i - Size
    BY <1>2, <2>1, Places, ZenonT(60)
  <2>4. (out_offset' + (i - 1)) % Size = (out_offset + i) % Size
    BY <1>2, <2>1, <2>2, <2>3 DEF Advance
  <2>5. Queue[i + 1] = msg_pool[(out_offset + i) % Size]
    BY <1>1, <2>1 DEF QueueOK
  <2> QED
    BY <1>4, <1>5, <2>4, <2>5
<1>7. Queue' = Tail(Queue)
  BY <1>4, <1>5, <1>6, SeqEqual
<1> QED
  BY <1>3, <1>7

\* Every step puts one mail, takes one, empties the ring or leaves it alone.
LEMMA RingSteps ==
    ASSUME [Next]_vars
    PROVE  \/ \E m \in Mail \cup {pc[t].mail : t \in {u \in Thread : pc[u].op = "send"}} : Put(m)
           \/ Get \/ entry' = 0 \/ UNCHANGED mbVars
BY ZenonT(60) DEF Next, vars, MailboxCall, Send, SendWait, SendRetry, SendWaitAgain, SendFail, SendFromISR,
       Recv, RecvWait, RecvRetry, RecvWaitAgain, RecvFail, RecvFromISR, Reset, TimePasses, At

LEMMA StepRefines == IInv /\ [Next]_vars => [Fifo!Put \/ Fifo!Get \/ Fifo!Clear]_Queue
<1> SUFFICES ASSUME IInv, [Next]_vars PROVE [Fifo!Put \/ Fifo!Get \/ Fifo!Clear]_Queue
  OBVIOUS
<1>1. RingInv /\ \A t \in Thread : pc[t].op = "send" => pc[t].mail \in Mail
  BY CallFacts DEF IInv, CallInv
<1>2. ASSUME NEW m \in Mail, Put(m) PROVE Fifo!Put
  BY <1>1, <1>2, PutAppends, ZenonT(60) DEF Fifo!Put, Queue
<1>3. CASE Get
  BY <1>1, <1>3, GetTakesHead, ZenonT(60) DEF Fifo!Get, Queue
<1>4. CASE entry' = 0
  <2>1. Queue' = <<>>
    BY <1>4 DEF Queue
  <2> QED
    BY <2>1 DEF Fifo!Clear, Queue
<1>5. CASE UNCHANGED mbVars
  BY <1>5 DEF mbVars, Queue
<1> QED
  BY <1>1, <1>2, <1>3, <1>4, <1>5, RingSteps

\* The mailbox implements the bounded queue: mails come out once each and in the
\* order they went in, for every size of the ring.
THEOREM MailboxIsFifo == Spec => ImplementsFifo
<1>1. Init => Fifo!Init
  <2> SUFFICES ASSUME Init PROVE Queue = <<>>
    BY DEF Fifo!Init, Queue
  <2> QED
    BY DEF Init, Queue
<1>2. IInv /\ [Next]_vars => [Fifo!Put \/ Fifo!Get \/ Fifo!Clear]_Queue
  BY StepRefines
<1> QED
  BY <1>1, <1>2, Inductive, PTL DEF Spec, ImplementsFifo, Fifo!FifoSpec, Queue
=============================================================================
