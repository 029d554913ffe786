------------------------------- MODULE Mailbox ------------------------------
(***************************************************************************)
(* A mailbox (src/src/ipc.c:1305-1769): a ring of Size mails with a list   *)
(* of waiting receivers and one of waiting senders.  Unlike a semaphore    *)
(* it hands nothing over: a thread that is woken looks again, may find     *)
(* that another thread was faster, and then waits for what is left of its  *)
(* timeout.                                                                *)
(*                                                                         *)
(* A send to a full mailbox, or a receive from an empty one, with timeout  *)
(* 0 changes nothing and has no action.                                    *)
(***************************************************************************)
EXTENDS Ipc

CONSTANTS Mail,        \* the mails
          Size,        \* mb->size
          Timeout,     \* the timeouts of the calls that wait
          Receivers,   \* the head of mb->parent.suspend_thread
          Senders      \* the head of mb->suspend_sender_thread

ASSUME MailboxAssumption ==
    /\ Size \in Nat \ {0}
    /\ Timeout \subseteq Delay \cup {Forever}
    /\ Receivers \in WaitList /\ Senders \in WaitList /\ Receivers # Senders

VARIABLES msg_pool, in_offset, out_offset, entry,   \* the fields of rt_mailbox
          left     \* the part of a pending call's timeout that is left

mbVars == <<msg_pool, in_offset, out_offset, entry>>
vars == <<kernelVars, pc, mbVars, left>>

Calls == {App, [op |-> "recv"], [op |-> "reset"]} \cup [op : {"send"}, mail : Mail]

Init ==
    /\ KernelInit
    /\ pc = [t \in Thread |-> App]
    /\ msg_pool \in {[i \in 0 .. Size - 1 |-> m] : m \in Mail}
    /\ in_offset = 0 /\ out_offset = 0 /\ entry = 0
    /\ left = [t \in Thread |-> Off]

Advance(offset) == IF offset + 1 >= Size THEN 0 ELSE offset + 1

Put(m) ==
    /\ entry < Size
    /\ msg_pool' = [msg_pool EXCEPT ![in_offset] = m]
    /\ in_offset' = Advance(in_offset)
    /\ entry' = entry + 1
    /\ UNCHANGED out_offset

Get ==
    /\ entry > 0
    /\ out_offset' = Advance(out_offset)
    /\ entry' = entry - 1
    /\ UNCHANGED <<msg_pool, in_offset>>

Return(t) == Goto(t, App) /\ left' = [left EXCEPT ![t] = Off]

-----------------------------------------------------------------------------
\* Mutant of Send: no receiver is woken.
SendNoWake(t, m) ==
    /\ At(t, "app")
    /\ Put(m)
    /\ UNCHANGED <<kernelVars, pc, left>>

\* rt_mb_send_wait: the mailbox has room; the first receiver is woken.
Send(t, m) ==
    /\ At(t, "app")
    /\ Put(m)
    /\ ThreadWakes(t, Receivers)
    /\ UNCHANGED <<pc, left>>

\* ... it is full;
SendWait(t, m, time) ==
    /\ At(t, "app") /\ entry = Size
    /\ Wait(t, Senders, time, [op |-> "send", mail |-> m])
    /\ left' = [left EXCEPT ![t] = time]
    /\ UNCHANGED mbVars

\* ... the sender was woken and finds room,
SendRetry(t) ==
    /\ At(t, "send") /\ error[t] = "EOK"
    /\ Put(pc[t].mail)
    /\ ThreadWakes(t, Receivers)
    /\ Return(t)

\* ... or finds it full again, and waits for the rest of its timeout,
SendWaitAgain(t) ==
    /\ At(t, "send") /\ error[t] = "EOK" /\ entry = Size /\ left[t] # 0
    /\ Wait(t, Senders, left[t], pc[t])
    /\ UNCHANGED <<mbVars, left>>

\* ... or gives up: it timed out, the mailbox was reset, or no time is left.
SendFail(t) ==
    /\ At(t, "send")
    /\ error[t] # "EOK" \/ (entry = Size /\ left[t] = 0)
    /\ Return(t)
    /\ UNCHANGED <<kernelVars, mbVars>>

\* rt_mb_send in an interrupt handler.
SendFromISR(m) ==
    /\ irq = "on"
    /\ Put(m)
    /\ HandlerWakes(Receivers)
    /\ UNCHANGED <<pc, left>>

-----------------------------------------------------------------------------
\* rt_mb_recv, likewise.
Recv(t) ==
    /\ At(t, "app")
    /\ Get
    /\ ThreadWakes(t, Senders)
    /\ UNCHANGED <<pc, left>>

RecvWait(t, time) ==
    /\ At(t, "app") /\ entry = 0
    /\ Wait(t, Receivers, time, [op |-> "recv"])
    /\ left' = [left EXCEPT ![t] = time]
    /\ UNCHANGED mbVars

RecvRetry(t) ==
    /\ At(t, "recv") /\ error[t] = "EOK"
    /\ Get
    /\ ThreadWakes(t, Senders)
    /\ Return(t)

\* Mutant of RecvWaitAgain: the timeout starts again.
RecvWaitAgainAnew(t) ==
    /\ At(t, "recv") /\ error[t] = "EOK" /\ entry = 0 /\ left[t] # 0
    /\ Wait(t, Receivers, IF left[t] = Forever THEN Forever ELSE MaxDelay, pc[t])
    /\ UNCHANGED <<mbVars, left>>

RecvWaitAgain(t) ==
    /\ At(t, "recv") /\ error[t] = "EOK" /\ entry = 0 /\ left[t] # 0
    /\ Wait(t, Receivers, left[t], pc[t])
    /\ UNCHANGED <<mbVars, left>>

RecvFail(t) ==
    /\ At(t, "recv")
    /\ error[t] # "EOK" \/ (entry = 0 /\ left[t] = 0)
    /\ error' = [error EXCEPT ![t] = IF @ = "EOK" THEN "ETIMEOUT" ELSE @]
    /\ Return(t)
    /\ UNCHANGED <<stat, current_priority, list, group, current, lock_nest,
                   delay, remaining_tick, irq, resched, mbVars>>

\* rt_mb_recv with timeout 0 in an interrupt handler.
RecvFromISR ==
    /\ irq = "on"
    /\ Get
    /\ HandlerWakes(Senders)
    /\ UNCHANGED <<pc, left>>

-----------------------------------------------------------------------------
\* rt_mb_control(RT_IPC_CMD_RESET): first the receivers, then the senders.
ResetReceivers(t) == ResetResume(t, Receivers)
ResetSenders(t) == list[Receivers] = <<>> /\ ResetResume(t, Senders)

\* Mutant of Reset: the read offset is left where it was.
ResetKeepsOut(t) ==
    /\ list[Receivers] = <<>> /\ list[Senders] = <<>>
    /\ in_offset' = 0 /\ entry' = 0
    /\ ResetEnd(t)
    /\ UNCHANGED <<msg_pool, out_offset, left>>

\* ... then the mailbox is empty.
Reset(t) ==
    /\ list[Receivers] = <<>> /\ list[Senders] = <<>>
    /\ in_offset' = 0 /\ out_offset' = 0 /\ entry' = 0
    /\ ResetEnd(t)
    /\ UNCHANGED <<msg_pool, left>>

MailboxCall(t) ==
    \/ \E m \in Mail : Send(t, m)
    \/ \E m \in Mail, time \in Timeout : SendWait(t, m, time)
    \/ SendRetry(t) \/ SendWaitAgain(t) \/ SendFail(t)
    \/ Recv(t)
    \/ \E time \in Timeout : RecvWait(t, time)
    \/ RecvRetry(t) \/ RecvWaitAgain(t) \/ RecvFail(t)
    \/ ResetBegin(t) /\ UNCHANGED <<mbVars, left>>
    \/ (ResetReceivers(t) \/ ResetSenders(t)) /\ UNCHANGED <<mbVars, left>>
    \/ Reset(t)

\* The tick also counts what is left of the timeouts: rt_mb_send_wait and
\* rt_mb_recv subtract the ticks that have passed, down to 0.
TimePasses ==
    /\ Tick
    /\ left' = [t \in Thread |-> IF left[t] > 0 THEN left[t] - 1 ELSE left[t]]
    /\ UNCHANGED <<pc, mbVars>>

Next ==
    \/ TimePasses
    \/ /\ TimerCheckDone \/ \E t \in Thread : TimerExpire(t) \/ Schedule(t)
       /\ UNCHANGED <<pc, mbVars, left>>
    \/ \E t \in Thread \ {Idle} : MailboxCall(t)
    \/ \E m \in Mail : SendFromISR(m)
    \/ RecvFromISR

Spec == Init /\ [][Next]_vars

-----------------------------------------------------------------------------
TypeOK ==
    /\ KernelTypeOK
    /\ pc \in [Thread -> Calls]
    /\ msg_pool \in [0 .. Size - 1 -> Mail]
    /\ in_offset \in 0 .. Size - 1 /\ out_offset \in 0 .. Size - 1
    /\ entry \in 0 .. Size
    /\ left \in [Thread -> {Off} \cup 0 .. MaxDelay]

\* No mail lies in the box next to a sleeping receiver that nobody will wake:
\* as long as receivers wait, there are at least as many woken ones on their
\* way as there are mails.  Threads that come in between and take the mail,
\* woken threads that wait again and time-outs do not break this.
NoMailStranded == list[Receivers] # <<>> => Cardinality(Retrying("recv")) >= entry

\* The same for free places and waiting senders.
NoRoomStranded == list[Senders] # <<>> => Cardinality(Retrying("send")) >= Size - entry

\* Both; and a thread that waits again and again, in either list, is in one
\* list at a time and never has a timer while it is ready.
NothingStranded == TypeOK /\ KernelInv /\ NoMailStranded /\ NoRoomStranded

\* A call that waits several times waits no longer than its timeout: the timer
\* always runs for what is left of it.
TimeoutKept == \A t \in Thread : delay[t] # Off => delay[t] = left[t]

\* The ring implements a bounded queue: mails come out once each and in the
\* order in which they went in, also around the end of the ring and a reset.
Fifo ==
    INSTANCE BoundedQueue
        WITH Message <- Mail, Bound <- Size,
             queue <- [i \in 1 .. entry |-> msg_pool[(out_offset + i - 1) % Size]]

ImplementsFifo == Fifo!FifoSpec
=============================================================================
