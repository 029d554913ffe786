----------------------------- MODULE MessageQueue ---------------------------
(***************************************************************************)
(* A message queue (src/src/ipc.c:1792-2337): message slots linked by      *)
(* `next' into a queue, with a head and a tail pointer, and a free list.   *)
(* Interrupts are unmasked while a message is copied: a sender takes a     *)
(* free slot in one masked section and links it in another, a receiver     *)
(* unlinks a slot in one and frees it in another, and everything else may  *)
(* happen in between, a reset included.                                    *)
(*                                                                         *)
(* A send that finds no free slot, a message that is too long, and a       *)
(* receive from an empty queue with timeout 0 change nothing and have no   *)
(* action.                                                                 *)
(***************************************************************************)
EXTENDS Ipc

CONSTANTS Slot,        \* the slots of msg_pool
          Null,        \* RT_NULL
          Message,     \* the messages
          InitFree,    \* the free list as rt_mq_init links it
          Timeout,     \* the timeouts of the calls that wait
          Receivers    \* the head of mq->parent.suspend_thread

ASSUME QueueAssumption ==
    /\ Null \notin Slot /\ IsFiniteSet(Slot)
    /\ InitFree \in Seq(Slot) /\ IsInjective(InitFree) /\ Range(InitFree) = Slot
    /\ Timeout \subseteq Delay \cup {Forever}
    /\ Receivers \in WaitList

VARIABLES msg_queue_head, msg_queue_tail, msg_queue_free, entry,
          next,    \* msg->next of every slot
          data,    \* the message in every slot
          left     \* the part of a pending call's timeout that is left

mqVars == <<msg_queue_head, msg_queue_tail, msg_queue_free, entry, next, data>>
vars == <<kernelVars, pc, mqVars, left>>

Pointer == Slot \cup {Null}
Kind == {"send", "urgent"}
Calls == {App, [op |-> "recv"], [op |-> "reset"]}
           \cup [op : {"copy_in", "link"}, kind : Kind, slot : Slot, msg : Message]
           \cup [op : {"copy_out"}, slot : Slot]

Init ==
    /\ KernelInit
    /\ pc = [t \in Thread |-> App]
    /\ msg_queue_head = Null /\ msg_queue_tail = Null /\ entry = 0
    /\ msg_queue_free = Head(InitFree \o <<Null>>)
    /\ next = [s \in Slot |-> (InitFree \o <<Null>>)[1 + CHOOSE i \in DOMAIN InitFree : InitFree[i] = s]]
    /\ data \in {[s \in Slot |-> m] : m \in Message}
    /\ left = [t \in Thread |-> Off]

-----------------------------------------------------------------------------
(* The lists, for a `next' map n.                                          *)

\* rt_mq_send: slot becomes the tail of the queue.
LinkLast(n, slot) ==
    /\ next' = [s \in Slot |-> IF s = msg_queue_tail THEN slot ELSE n[s]]
    /\ msg_queue_tail' = slot
    /\ msg_queue_head' = IF msg_queue_head = Null THEN slot ELSE msg_queue_head

\* rt_mq_urgent: slot becomes the head.
LinkFirst(n, slot) ==
    /\ next' = [n EXCEPT ![slot] = msg_queue_head]
    /\ msg_queue_head' = slot
    /\ msg_queue_tail' = IF msg_queue_tail = Null THEN slot ELSE msg_queue_tail

Link(kind, n, slot) ==
    /\ IF kind = "send" THEN LinkLast(n, slot) ELSE LinkFirst(n, slot)
    /\ entry' = entry + 1

\* The head is unlinked.
Unlink ==
    /\ msg_queue_head' = next[msg_queue_head]
    /\ msg_queue_tail' = IF msg_queue_tail = msg_queue_head THEN Null ELSE msg_queue_tail

\* slot goes to the front of the free list.
PutFree(slot) ==
    /\ next' = [next EXCEPT ![slot] = msg_queue_free]
    /\ msg_queue_free' = slot

Return(t) == Goto(t, App) /\ left' = [left EXCEPT ![t] = Off]

-----------------------------------------------------------------------------
\* rt_mq_send and rt_mq_urgent: a free slot is taken off the free list,
SendAlloc(t, kind, m) ==
    /\ At(t, "app") /\ msg_queue_free # Null
    /\ msg_queue_free' = next[msg_queue_free]
    /\ Goto(t, [op |-> "copy_in", kind |-> kind, slot |-> msg_queue_free, msg |-> m])
    /\ UNCHANGED <<kernelVars, msg_queue_head, msg_queue_tail, entry, next, data, left>>

\* Mutant of SendCopy: a message longer than msg_size is not refused and runs
\* into the following slot (rt_mq_init links the slots from the last one on).
SendCopyOverrun(t) ==
    /\ At(t, "copy_in")
    /\ LET i == CHOOSE j \in DOMAIN InitFree : InitFree[j] = pc[t].slot
       IN  data' = [s \in Slot |-> IF s \in {InitFree[j] : j \in {i - 1, i} \cap DOMAIN InitFree}
                                  THEN pc[t].msg ELSE data[s]]
    /\ next' = IF pc[t].kind = "send" THEN [next EXCEPT ![pc[t].slot] = Null] ELSE next
    /\ Goto(t, [pc[t] EXCEPT !.op = "link"])
    /\ UNCHANGED <<kernelVars, msg_queue_head, msg_queue_tail, msg_queue_free, entry, left>>

\* ... the message is copied, with interrupts unmasked,
SendCopy(t) ==
    /\ At(t, "copy_in")
    /\ data' = [data EXCEPT ![pc[t].slot] = pc[t].msg]
    /\ next' = IF pc[t].kind = "send" THEN [next EXCEPT ![pc[t].slot] = Null] ELSE next
    /\ Goto(t, [pc[t] EXCEPT !.op = "link"])
    /\ UNCHANGED <<kernelVars, msg_queue_head, msg_queue_tail, msg_queue_free, entry, left>>

\* Mutant of SendLink: no receiver is woken.
SendLinkNoWake(t) ==
    /\ At(t, "link")
    /\ Link(pc[t].kind, next, pc[t].slot)
    /\ Goto(t, App)
    /\ UNCHANGED <<kernelVars, msg_queue_free, data, left>>

\* ... the slot is linked and the first receiver woken.
SendLink(t) ==
    /\ At(t, "link")
    /\ Link(pc[t].kind, next, pc[t].slot)
    /\ ThreadWakes(t, Receivers)
    /\ Goto(t, App)
    /\ UNCHANGED <<msg_queue_free, data, left>>

\* The whole of rt_mq_send or rt_mq_urgent in an interrupt handler.
SendFromISR(kind, m) ==
    /\ irq = "on" /\ msg_queue_free # Null
    /\ msg_queue_free' = next[msg_queue_free]
    /\ data' = [data EXCEPT ![msg_queue_free] = m]
    /\ Link(kind, [next EXCEPT ![msg_queue_free] = Null], msg_queue_free)
    /\ HandlerWakes(Receivers)
    /\ UNCHANGED <<pc, left>>

-----------------------------------------------------------------------------
\* Mutant of Recv: the slot is freed before it is copied.
RecvFreesFirst(t) ==
    /\ At(t, "app") \/ (At(t, "recv") /\ error[t] = "EOK")
    /\ entry > 0
    /\ Unlink
    /\ PutFree(msg_queue_head)
    /\ entry' = entry - 1
    /\ Goto(t, [op |-> "copy_out", slot |-> msg_queue_head])
    /\ left' = [left EXCEPT ![t] = Off]
    /\ UNCHANGED <<kernelVars, data>>

\* rt_mq_recv: a message is there, at once or when the receiver is woken.
Recv(t) ==
    /\ At(t, "app") \/ (At(t, "recv") /\ error[t] = "EOK")
    /\ entry > 0
    /\ Unlink
    /\ entry' = entry - 1
    /\ Goto(t, [op |-> "copy_out", slot |-> msg_queue_head])
    /\ left' = [left EXCEPT ![t] = Off]
    /\ UNCHANGED <<kernelVars, msg_queue_free, next, data>>

\* ... it is copied with interrupts unmasked, and the slot is freed.
RecvFree(t) ==
    /\ At(t, "copy_out")
    /\ PutFree(pc[t].slot)
    /\ Goto(t, App)
    /\ UNCHANGED <<kernelVars, msg_queue_head, msg_queue_tail, entry, data, left>>

\* ... the queue is empty;
RecvWait(t, time) ==
    /\ At(t, "app") /\ entry = 0
    /\ Wait(t, Receivers, time, [op |-> "recv"])
    /\ left' = [left EXCEPT ![t] = time]
    /\ UNCHANGED mqVars

\* Mutant of RecvWaitAgain: the timeout starts again.
RecvWaitAgainAnew(t) ==
    /\ At(t, "recv") /\ error[t] = "EOK" /\ entry = 0 /\ left[t] # 0
    /\ Wait(t, Receivers, IF left[t] = Forever THEN Forever ELSE MaxDelay, pc[t])
    /\ UNCHANGED <<mqVars, left>>

\* ... the receiver was woken, but another one was faster;
RecvWaitAgain(t) ==
    /\ At(t, "recv") /\ error[t] = "EOK" /\ entry = 0 /\ left[t] # 0
    /\ Wait(t, Receivers, left[t], pc[t])
    /\ UNCHANGED <<mqVars, left>>

\* ... it timed out, the queue was reset, or no time is left.
RecvFail(t) ==
    /\ At(t, "recv")
    /\ error[t] # "EOK" \/ (entry = 0 /\ left[t] = 0)
    /\ error' = [error EXCEPT ![t] = IF @ = "EOK" THEN "ETIMEOUT" ELSE @]
    /\ Return(t)
    /\ UNCHANGED <<stat, current_priority, list, group, current, lock_nest,
                   delay, remaining_tick, irq, resched, mqVars>>

-----------------------------------------------------------------------------
\* rt_mq_control(RT_IPC_CMD_RESET): when all receivers are woken, the queued
\* slots are freed one by one,
ResetFree(t) ==
    /\ Masked(t, "reset") /\ list[Receivers] = <<>> /\ msg_queue_head # Null
    /\ Unlink
    /\ PutFree(msg_queue_head)
    /\ UNCHANGED <<kernelVars, pc, entry, data, left>>

\* ... and the counter is cleared.
Reset(t) ==
    /\ list[Receivers] = <<>> /\ msg_queue_head = Null
    /\ entry' = 0
    /\ ResetEnd(t)
    /\ UNCHANGED <<msg_queue_head, msg_queue_tail, msg_queue_free, next, data, left>>

QueueCall(t) ==
    \/ \E kind \in Kind, m \in Message : SendAlloc(t, kind, m)
    \/ SendCopy(t) \/ SendLink(t)
    \/ Recv(t) \/ RecvFree(t)
    \/ \E time \in Timeout : RecvWait(t, time)
    \/ RecvWaitAgain(t) \/ RecvFail(t)
    \/ (ResetBegin(t) \/ ResetResume(t, Receivers)) /\ UNCHANGED <<mqVars, left>>
    \/ ResetFree(t) \/ Reset(t)

TimePasses ==
    /\ Tick
    /\ left' = [t \in Thread |-> IF left[t] > 0 THEN left[t] - 1 ELSE left[t]]
    /\ UNCHANGED <<pc, mqVars>>

Next ==
    \/ TimePasses
    \/ /\ TimerCheckDone \/ \E t \in Thread : TimerExpire(t) \/ Schedule(t)
       /\ UNCHANGED <<pc, mqVars, left>>
    \/ \E t \in Thread \ {Idle} : QueueCall(t)
    \/ \E kind \in Kind, m \in Message : SendFromISR(kind, m)

Spec == Init /\ [][Next]_vars

-----------------------------------------------------------------------------
TypeOK ==
    /\ KernelTypeOK
    /\ pc \in [Thread -> Calls]
    /\ msg_queue_head \in Pointer /\ msg_queue_tail \in Pointer
    /\ msg_queue_free \in Pointer
    /\ entry \in 0 .. Cardinality(Slot)
    /\ next \in [Slot -> Pointer]
    /\ data \in [Slot -> Message]
    /\ left \in [Thread -> {Off} \cup 0 .. MaxDelay]

\* The n-th slot of the list that starts at p, or Null behind its end.
Nth(p, n) ==
    LET at[i \in 0 .. n] ==
            IF i = 0 THEN p ELSE IF at[i - 1] = Null THEN Null ELSE next[at[i - 1]]
    IN  at[n]

Linked(p) == {Nth(p, n) : n \in 0 .. Cardinality(Slot)} \ {Null}
Ends(p) == Nth(p, Cardinality(Slot)) = Null
Held == {pc[t].slot : t \in {u \in Thread : pc[u].op \in {"copy_in", "link", "copy_out"}}}

\* No slot is lost or used twice: each is in the queue, in the free list, or
\* in the hands of exactly one thread, which copies a message to or from it
\* with interrupts unmasked; both lists end.
SlotsConserved ==
    LET busy == {t \in Thread : pc[t].op \in {"copy_in", "link", "copy_out"}}
        queued == Linked(msg_queue_head)
        free == Linked(msg_queue_free)
    IN  /\ Ends(msg_queue_head) /\ Ends(msg_queue_free)
        /\ queued \cup free \cup Held = Slot
        /\ Cardinality(queued) + Cardinality(free) + Cardinality(busy) = Cardinality(Slot)

\* Outside a reset the tail pointer and the counter agree with the list: the
\* tail is its last slot and entry its length, however sends, urgent sends
\* and receives to an empty, a short and a full queue follow one another.
QueueExact ==
    irq = "masked" \/
        /\ entry = Cardinality(Linked(msg_queue_head))
        /\ msg_queue_tail = IF entry = 0 THEN Null ELSE Nth(msg_queue_head, entry - 1)

\* Both, and the lists of the kernel.
SlotsExact == TypeOK /\ KernelInv /\ SlotsConserved /\ QueueExact

\* As long as receivers sleep, at least as many woken ones are on their way as
\* there are messages in the queue.
NoMessageStranded ==
    list[Receivers] # <<>> => Cardinality(Retrying("recv")) >= entry

\* A receive that waits several times waits no longer than its timeout.
TimeoutKept == \A t \in Thread : delay[t] # Off => delay[t] = left[t]

\* The linked slots implement a bounded queue with urgent messages: messages
\* come out once each, urgent ones last in, first out and before the others,
\* the others in the order in which they were linked.
Queue ==
    INSTANCE BoundedQueue
        WITH Bound <- Cardinality(Slot),
             queue <- [i \in 1 .. Cardinality(Linked(msg_queue_head)) |->
                          data[Nth(msg_queue_head, i - 1)]]

ImplementsQueue == Queue!UrgentSpec
=============================================================================
