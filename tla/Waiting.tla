------------------------------ MODULE Waiting -------------------------------
(***************************************************************************)
(* How the services above the kernel wait: a thread suspends itself on a   *)
(* list of the service, possibly with its timer, until another thread      *)
(* resumes it or the timer fires.  Kernel and Ipc model the same calls     *)
(* with priorities; here any ready thread may take the next step, and a    *)
(* section with interrupts masked is one step, so that the services are    *)
(* checked for every assignment of priorities.                             *)
(***************************************************************************)
EXTENDS Integers, Sequences, FiniteSets, NodeList

CONSTANTS Thread

ASSUME ThreadAssumption == IsFiniteSet(Thread)

VARIABLES suspended,   \* the suspended-thread list of each object
          timer,       \* which thread timers run
          error,       \* thread->error
          call         \* the call a thread is executing

waitVars == <<suspended, timer, error, call>>

Idle == [op |-> "none"]
Lists == {"pool", "completion", "push", "pop", "cancel", "reader", "writer"}

\* A waiting time: RT_WAITING_NO, a number of ticks, RT_WAITING_FOREVER; what
\* is left of it after a wait.
Time == {"no", "ticks", "forever"}
TimeLeft(time) == IF time = "ticks" THEN {"ticks", "no"} ELSE {time}

WaitingInit ==
    /\ suspended = [l \in Lists |-> <<>>]
    /\ timer = [t \in Thread |-> FALSE]
    /\ error = [t \in Thread |-> "EOK"]
    /\ call = [t \in Thread |-> Idle]

Waits(t) == \E l \in Lists : t \in Range(suspended[l])
At(t, op) == call[t].op = op /\ ~Waits(t)

\* The threads that are inside a call, resumed without an error: they are on
\* their way to try again.
Woken(op) == {t \in Thread : At(t, op) /\ error[t] = "EOK"}

\* rt_thread_suspend on a list, which becomes s, and rt_timer_start.
SuspendOn(t, l, s, time) ==
    /\ suspended' = [suspended EXCEPT ![l] = s]
    /\ timer' = [timer EXCEPT ![t] = (time = "ticks")]
    /\ error' = [error EXCEPT ![t] = "EOK"]

\* rt_thread_resume of the first thread of a list that is not empty.
ResumeFirst(l) ==
    /\ suspended' = [suspended EXCEPT ![l] = Tail(@)]
    /\ timer' = [timer EXCEPT ![Head(suspended[l])] = FALSE]

Finish(t) == call' = [call EXCEPT ![t] = Idle]
Enter(t, c) == call' = [call EXCEPT ![t] = c]

\* rt_thread_timeout.
Timeout(t) ==
    /\ timer[t]
    /\ timer' = [timer EXCEPT ![t] = FALSE]
    /\ error' = [error EXCEPT ![t] = "ETIMEOUT"]
    /\ suspended' = [l \in Lists |-> NodeRemove(suspended[l], t)]
    /\ UNCHANGED call

WaitingTypeOK ==
    /\ suspended \in [Lists -> Seq(Thread)]
    /\ timer \in [Thread -> BOOLEAN]
    /\ error \in [Thread -> {"EOK", "ETIMEOUT", "ERROR"}]

\* A thread is in at most one list, once, and its timer runs only there.
OneListEach ==
    /\ \A l, m \in Lists : \A i \in DOMAIN suspended[l], j \in DOMAIN suspended[m] :
        suspended[l][i] = suspended[m][j] => l = m /\ i = j
    /\ \A t \in Thread : timer[t] => Waits(t)
=============================================================================
