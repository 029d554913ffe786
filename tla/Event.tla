-------------------------------- MODULE Event -------------------------------
(***************************************************************************)
(* An event object (src/src/ipc.c:926-1288): a set of event bits.  A       *)
(* receiver waits for all (AND) or any (OR) of a set of bits and may ask   *)
(* for the bits it received to be cleared (CLEAR).  rt_event_send decides  *)
(* which waiters go on, walking the wait list with interrupts masked: what *)
(* one waiter clears the waiters behind it do not see.                     *)
(***************************************************************************)
EXTENDS Ipc, SequencesExt

CONSTANTS Bits,        \* the event bits
          Timeout,     \* the timeouts of the calls that wait
          Waiters      \* the head of event->parent.suspend_thread

ASSUME EventAssumption ==
    /\ IsFiniteSet(Bits)
    /\ Timeout \subseteq Delay \cup {Forever}
    /\ Waiters \in WaitList

VARIABLE set           \* event->set

vars == <<kernelVars, pc, set>>

Events == SUBSET Bits \ {{}}
Option == [mode : {"AND", "OR"}, clear : BOOLEAN]
\* A pending call has the fields event_set and event_info of the thread, which
\* are only used while it waits.
Calls == {App, [op |-> "reset"]} \cup [op : {"recv"}, event_set : Events, event_info : Option]

Init ==
    /\ KernelInit
    /\ pc = [t \in Thread |-> App]
    /\ set = {}

Satisfied(s, interest, option) ==
    IF option.mode = "AND" THEN interest \subseteq s ELSE interest \cap s # {}

Pending(interest, option) ==
    [op |-> "recv", event_set |-> interest, event_info |-> option]

-----------------------------------------------------------------------------
\* rt_event_recv: the events are there,
Recv(t, interest, option) ==
    /\ At(t, "app") /\ Satisfied(set, interest, option)
    /\ set' = IF option.clear THEN set \ interest ELSE set
    /\ error' = [error EXCEPT ![t] = "EOK"]
    /\ UNCHANGED <<stat, current_priority, list, group, current, lock_nest, delay,
                   remaining_tick, irq, resched, pc>>

\* ... they are not, and the caller does not wait,
RecvNone(t, interest, option) ==
    /\ At(t, "app") /\ ~Satisfied(set, interest, option)
    /\ error' = [error EXCEPT ![t] = "ETIMEOUT"]
    /\ UNCHANGED <<stat, current_priority, list, group, current, lock_nest, delay,
                   remaining_tick, irq, resched, pc, set>>

\* Mutant of RecvWait: the events are not looked at first.
RecvWaitBlind(t, interest, option, time) ==
    /\ At(t, "app")
    /\ Wait(t, Waiters, time, Pending(interest, option))
    /\ UNCHANGED set

\* ... or does.
RecvWait(t, interest, option, time) ==
    /\ At(t, "app") /\ ~Satisfied(set, interest, option)
    /\ Wait(t, Waiters, time, Pending(interest, option))
    /\ UNCHANGED set

\* It returns, with event_set if it was woken by a send and with its error if
\* not.
RecvReturn(t) ==
    /\ At(t, "recv")
    /\ Goto(t, App)
    /\ UNCHANGED <<kernelVars, set>>

-----------------------------------------------------------------------------
\* One iteration of the loop of rt_event_send: if waiter t is satisfied it is
\* resumed, with the events it received in event_set, and these are cleared
\* if it asked for it.  acc holds the events, the calls and the woken threads.
\* Mutant of SendTo: events are not cleared.
SendToNoClear(t, acc) ==
    LET c == pc[t]
        got == IF c.event_info.mode = "AND" THEN c.event_set ELSE c.event_set \cap acc.set
    IN  IF Satisfied(acc.set, c.event_set, c.event_info)
        THEN [acc EXCEPT !.pc[t].event_set = got, !.woken = Append(@, t)]
        ELSE acc

\* Mutant of SendTo: the received events are not saved.
SendToNoSave(t, acc) ==
    LET c == pc[t]
    IN  IF Satisfied(acc.set, c.event_set, c.event_info)
        THEN [acc EXCEPT !.set = IF c.event_info.clear THEN @ \ c.event_set ELSE @,
                         !.woken = Append(@, t)]
        ELSE acc

SendTo(t, acc) ==
    LET c == pc[t]
        got == IF c.event_info.mode = "AND" THEN c.event_set ELSE c.event_set \cap acc.set
    IN  IF Satisfied(acc.set, c.event_set, c.event_info)
        THEN [set |-> IF c.event_info.clear THEN acc.set \ got ELSE acc.set,
              pc |-> [acc.pc EXCEPT ![t].event_set = got],
              woken |-> Append(acc.woken, t)]
        ELSE acc

\* What the loop makes of the list of waiters when the events s are sent.
SendLoop(s) ==
    FoldLeft(LAMBDA acc, t : SendTo(t, acc),
             [set |-> set \cup s, pc |-> pc, woken |-> <<>>], list[Waiters])

\* rt_thread_resume of the threads in ts, one after the other.
ResumeAll(ts) ==
    LET off == FoldLeft(ListRemove, list, ts)
    IN  /\ stat' = [t \in Thread |-> IF t \in Range(ts) THEN "READY" ELSE stat[t]]
        /\ list' = FoldLeft(LAMBDA L, t : ReadyInsert(L, t, current_priority[t]), off, ts)
        /\ group' = group \cup {current_priority[t] : t \in Range(ts)}
        /\ delay' = [t \in Thread |-> IF t \in Range(ts) THEN Off ELSE delay[t]]

\* rt_event_send.
Deliver(s) ==
    LET end == SendLoop(s)
    IN  /\ set' = end.set
        /\ pc' = end.pc
        /\ ResumeAll(end.woken)

Send(t, s) ==
    /\ At(t, "app")
    /\ Deliver(s)
    /\ resched' = IF SendLoop(s).woken # <<>> THEN resched \cup {t} ELSE resched
    /\ UNCHANGED <<current_priority, current, lock_nest, error, remaining_tick, irq>>

\* ... in an interrupt handler.
SendFromISR(s) ==
    /\ irq = "on"
    /\ Deliver(s)
    /\ IF SendLoop(s).woken # <<>> THEN RtSchedule ELSE UNCHANGED current
    /\ UNCHANGED <<current_priority, lock_nest, error, remaining_tick, irq, resched>>

\* rt_event_control(RT_IPC_CMD_RESET).
Reset(t) ==
    /\ list[Waiters] = <<>>
    /\ set' = {}
    /\ ResetEnd(t)

EventCall(t) ==
    \/ \E interest \in Events, option \in Option :
           \/ Recv(t, interest, option)
           \/ RecvNone(t, interest, option)
           \/ \E time \in Timeout : RecvWait(t, interest, option, time)
    \/ RecvReturn(t)
    \/ \E s \in Events : Send(t, s)
    \/ (ResetBegin(t) \/ ResetResume(t, Waiters)) /\ UNCHANGED set
    \/ Reset(t)

Next ==
    \/ KernelStep /\ UNCHANGED <<pc, set>>
    \/ \E t \in Thread \ {Idle} : EventCall(t)
    \/ \E s \in Events : SendFromISR(s)

Spec == Init /\ [][Next]_vars

-----------------------------------------------------------------------------
TypeOK ==
    /\ KernelTypeOK
    /\ pc \in [Thread -> Calls]
    /\ set \subseteq Bits

\* No thread sleeps on events that are there: the walk of rt_event_send sees
\* every waiter, and what it clears for one can only take events away from
\* the others.
NoSatisfiedWaiter ==
    \A t \in Range(list[Waiters]) : ~Satisfied(set, pc[t].event_set, pc[t].event_info)

\* ... and the walk of rt_event_send, which resumes waiters from the middle of
\* the list, leaves lists, bitmap, stat and timers in agreement.
EventInv == TypeOK /\ KernelInv /\ NoSatisfiedWaiter

\* The waiters that a step has woken with events.
WokenNow == {t \in Range(list[Waiters]) : stat[t] = "SUSPEND" /\ stat'[t] = "READY" /\ error'[t] = "EOK"}

\* A receiver that a send wakes gets events it asked for and that are set: all
\* it asked for with AND, at least one with OR, none that nobody sent.
ReceivesWhatItAskedFor ==
    [][\A t \in WokenNow :
          /\ pc'[t].event_set # {}
          /\ pc'[t].event_set \subseteq pc[t].event_set
          /\ pc[t].event_info.mode = "AND" => pc'[t].event_set = pc[t].event_set
          /\ \A s \in Events :
                SendFromISR(s) \/ (\E u \in Thread : Send(u, s)) =>
                    pc'[t].event_set \subseteq set \cup s]_vars

\* An event that is to be cleared is received once: two CLEAR receivers woken
\* by one send share no event, and what they received is no longer set.
ClearedOnce ==
    [][\A t, u \in WokenNow :
          pc[t].event_info.clear =>
              /\ t # u /\ pc[u].event_info.clear => pc'[t].event_set \cap pc'[u].event_set = {}
              /\ pc'[t].event_set \cap set' = {}]_vars
=============================================================================
