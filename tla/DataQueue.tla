----------------------------- MODULE DataQueue ------------------------------
(* Data queues: src/components/drivers/src/dataqueue.c.                    *)
EXTENDS Waiting

CONSTANTS Size, Lwm,
          IndexMod,      \* put_index and get_index are rt_uint16_t: 2^16
          MaxPushed      \* bound: the items pushed

ASSUME DataQueueAssumption ==
    /\ Size \in Nat \ {0} /\ Lwm \in 0 .. Size - 1
    /\ IndexMod \in Nat \ {0} /\ MaxPushed \in Nat

VARIABLES put_index, get_index, queue,
          pushed, popped,    \* history: the items pushed are 1, 2, ...; the last one popped
          dq_stray           \* the head of an empty list was taken for a thread

queueVars == <<put_index, get_index, queue, pushed, popped, dq_stray>>

QueueInit ==
    /\ put_index = 0 /\ get_index = 0
    /\ queue = [i \in 0 .. Size - 1 |-> 0]
    /\ pushed = 0 /\ popped = 0 /\ dq_stray = FALSE

\* Mutant of QueueFull: one item too many.
QueueFullLate == put_index - get_index > Size

\* The difference is an int: it is negative when only put_index has wrapped.
QueueFull == put_index - get_index = Size
QueueEmpty == get_index = put_index

\* rt_data_queue_push from the head of its loop on.
PushItem(t) ==
    /\ ~QueueFull /\ pushed < MaxPushed
    /\ queue' = [queue EXCEPT ![put_index % Size] = pushed + 1]
    /\ put_index' = (put_index + 1) % IndexMod
    /\ pushed' = pushed + 1
    /\ IF suspended["pop"] # <<>> THEN ResumeFirst("pop") ELSE UNCHANGED <<suspended, timer>>
    /\ Finish(t)
    /\ UNCHANGED <<error, get_index, popped, dq_stray>>

\* (With timeout 0 it returns -RT_ETIMEOUT and changes nothing.)
PushFull(t, time) ==
    /\ QueueFull /\ time # "no"
    /\ SuspendOn(t, "push", Append(suspended["push"], t), time)
    /\ Enter(t, [op |-> "push", time |-> time])
    /\ UNCHANGED queueVars

\* Mutant of PopItem: a pusher is resumed only when the low-water mark is met exactly.
PopItemAtMark(t) ==
    /\ ~QueueEmpty
    /\ popped' = queue[get_index % Size]
    /\ get_index' = (get_index + 1) % IndexMod
    /\ IF put_index - get_index' = Lwm /\ suspended["push"] # <<>>
       THEN ResumeFirst("push") ELSE UNCHANGED <<suspended, timer>>
    /\ Finish(t)
    /\ UNCHANGED <<error, put_index, queue, pushed, dq_stray>>

\* rt_data_queue_pop from the head of its loop on.
PopItem(t) ==
    /\ ~QueueEmpty
    /\ popped' = queue[get_index % Size]
    /\ get_index' = (get_index + 1) % IndexMod
    /\ IF put_index - get_index' <= Lwm /\ suspended["push"] # <<>>
       THEN ResumeFirst("push") ELSE UNCHANGED <<suspended, timer>>
    /\ Finish(t)
    /\ UNCHANGED <<error, put_index, queue, pushed, dq_stray>>

PopEmpty(t, time) ==
    /\ QueueEmpty /\ time # "no"
    /\ SuspendOn(t, "pop", Append(suspended["pop"], t), time)
    /\ Enter(t, [op |-> "pop", time |-> time])
    /\ UNCHANGED queueVars

Push(t) == call[t] = Idle /\ \E time \in Time : PushItem(t) \/ PushFull(t, time)
Pop(t) == call[t] = Idle /\ \E time \in Time : PopItem(t) \/ PopEmpty(t, time)

\* Woken up: again with the same timeout, or out with the error.
PushAgain(t) == At(t, "push") /\ error[t] = "EOK" /\ (PushItem(t) \/ PushFull(t, call[t].time))
PopAgain(t) == At(t, "pop") /\ error[t] = "EOK" /\ (PopItem(t) \/ PopEmpty(t, call[t].time))
QueueFails(t) ==
    /\ At(t, "push") \/ At(t, "pop")
    /\ error[t] # "EOK"
    /\ Finish(t)
    /\ UNCHANGED <<suspended, timer, error, queueVars>>

\* rt_data_queue_reset resumes all waiting threads, poppers first, with the
\* scheduler locked: only interrupts come in between.  Each time the list is
\* tested with interrupts enabled,
Resetting(l, step) == [op |-> "reset", list |-> l, step |-> step]
Locked == \E t \in Thread : call[t].op = "reset"

ResetBegin(t) ==
    /\ call[t] = Idle
    /\ Enter(t, Resetting("pop", "test"))
    /\ UNCHANGED <<suspended, timer, error, queueVars>>

ResetTest(t) ==
    /\ At(t, "reset") /\ call[t].step = "test"
    /\ \/ suspended[call[t].list] # <<>> /\ Enter(t, Resetting(call[t].list, "wake"))
       \/ suspended["pop"] = <<>> /\ call[t].list = "pop" /\ Enter(t, Resetting("push", "test"))
       \/ suspended["push"] = <<>> /\ call[t].list = "push" /\ Finish(t)
    /\ UNCHANGED <<suspended, timer, error, queueVars>>

\* ... and then its first thread is resumed, if a time-out has not emptied it.
ResetWake(t) ==
    /\ At(t, "reset") /\ call[t].step = "wake"
    /\ LET l == call[t].list IN
        \/ /\ suspended[l] # <<>>
           /\ error' = [error EXCEPT ![Head(suspended[l])] = "ERROR"]
           /\ ResumeFirst(l)
           /\ Enter(t, Resetting(l, "test"))
           /\ UNCHANGED queueVars
        \/ /\ suspended[l] = <<>>
           /\ dq_stray' = TRUE
           /\ UNCHANGED <<waitVars, put_index, get_index, queue, pushed, popped>>

\* A handler pushes and pops without waiting; any idle thread stands for it.
Handler(t) == Locked /\ call[t] = Idle /\ (PushItem(t) \/ PopItem(t))

QueueNext ==
    \E t \in Thread :
        /\ ~dq_stray
        /\ \/ /\ ~Locked
              /\ \/ Push(t) \/ PushAgain(t) \/ Pop(t) \/ PopAgain(t) \/ QueueFails(t)
                 \/ ResetBegin(t)
           \/ Handler(t)
           \/ ResetTest(t) \/ ResetWake(t)

\* A data queue and the threads that use it.
QueueSystem == QueueNext \/ \E t \in Thread : Timeout(t) /\ UNCHANGED queueVars

QueueSpec == WaitingInit /\ QueueInit /\ [][QueueSystem]_<<waitVars, queueVars>>

-----------------------------------------------------------------------------
Items == put_index - get_index

\* Items come out once each, in the order they went in, and no more than Size
\* are in the queue, as long as put_index has not wrapped.
DataInOrder ==
    pushed < IndexMod =>
        /\ Items \in 0 .. Size
        /\ popped = pushed - Items
        /\ \A i \in 0 .. Items - 1 : queue[(get_index + i) % Size] = popped + 1 + i

\* A thread sleeps in pop only if those already resumed will take all items;
\* one sleeps in push only while more items than the low-water mark are in the
\* queue or about to be put there.
NoDataStranded ==
    ~dq_stray /\ pushed < IndexMod =>
        /\ suspended["pop"] # <<>> => Cardinality(Woken("pop")) >= Items
        /\ suspended["push"] # <<>> => Items + Cardinality(Woken("push")) > Lwm
=============================================================================
