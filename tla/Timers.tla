------------------------------- MODULE Timers -------------------------------
(***************************************************************************)
(* The hard timers (src/src/timer.c:82-554): a list of running timers      *)
(* sorted by the tick at which they fire, on a tick counter that wraps     *)
(* around, and rt_timer_check, which the tick interrupt calls and which    *)
(* runs the timeout functions.                                             *)
(*                                                                         *)
(* rt_timer_start and rt_timer_stop mask interrupts only in parts, so a    *)
(* tick, with all the timeout functions it runs, may come in the middle of *)
(* either.  A timeout function may start, stop and set any timer.  One     *)
(* context at a time operates on a timer.                                  *)
(*                                                                         *)
(* RT_TIMER_SKIP_LIST_LEVEL is 1: the list has one row.                    *)
(***************************************************************************)
EXTENDS Integers, FiniteSets, Sequences, SequencesExt

CONSTANTS Timer,
          RT_TICK_MAX,   \* the largest value of the tick counter
          MaxInit,       \* bound: the largest init_tick
          Setting,       \* the settings an application gives each timer
          MaxLate,       \* bound: how long after its timeout a timer is
                         \* inserted by a rt_timer_start that is held up
          RestartsItself \* a timeout function may start its own timer

Half == RT_TICK_MAX \div 2

\* A periodic timer of period 0 would fire for ever in one tick.
\* rt_timer_start asserts init_tick < RT_TICK_MAX / 2.  A bound on how long a
\* thread is held up inside rt_timer_start is needed as well.
ASSUME TickAssumption ==
    /\ RT_TICK_MAX \in Nat /\ MaxInit \in Nat \ {0} /\ MaxLate \in Nat
    /\ MaxInit + MaxLate < Half
    /\ Setting \in [Timer -> SUBSET [time : 0 .. MaxInit, periodic : BOOLEAN]]
    /\ \A t \in Timer : \A s \in Setting[t] : s.periodic => s.time > 0
    /\ RestartsItself \in BOOLEAN

Ticks == 0 .. RT_TICK_MAX

VARIABLES tick,           \* rt_tick
          timer_list,     \* rt_timer_list
          activated,      \* the timers with RT_TIMER_FLAG_ACTIVATED
          periodic,       \* the timers with RT_TIMER_FLAG_PERIODIC
          init_tick,      \* timer->init_tick
          timeout_tick,   \* timer->timeout_tick
          op,             \* the call on each timer a thread is in
          phase           \* "thread"; in rt_timer_check "check", or the timer
                          \* whose timeout function runs

vars == <<tick, timer_list, activated, periodic, init_tick, timeout_tick, op, phase>>

Op == {"none", "idle", "unlinked", "timed", "stop", "stopped"}

\* rt_tick_t arithmetic.
Minus(a, b) == (a - b) % (RT_TICK_MAX + 1)
Plus(a, b) == (a + b) % (RT_TICK_MAX + 1)

Init ==
    /\ tick = 0 /\ timer_list = <<>> /\ activated = {} /\ periodic = {}
    /\ init_tick = [t \in Timer |-> 1] /\ timeout_tick = [t \in Timer |-> 0]
    /\ op = [t \in Timer |-> "none"]
    /\ phase = "thread"

-----------------------------------------------------------------------------
(* The list.                                                               *)

Listed == Range(timer_list)

\* Behind all timers that fire at the same tick or before: before the first
\* one whose timeout_tick is less than half the counter's range ahead.
InsertPos(L, timeouts, t) ==
    Min({i \in DOMAIN L : Minus(timeouts[L[i]], timeouts[t]) \in 1 .. Half - 1}
          \cup {Len(L) + 1})

Insert(L, timeouts, t) == InsertAt(L, InsertPos(L, timeouts, t), t)

\* _rt_timer_remove.  The code leaves timeout_tick as it is; the model clears
\* it, as rt_timer_init does: nothing reads it until rt_timer_start sets it.
Unlink(t) ==
    /\ timer_list' = Remove(timer_list, t)
    /\ timeout_tick' = [timeout_tick EXCEPT ![t] = 0]

\* All of rt_timer_start, where nothing can come in between.
StartAt(t, now) ==
    /\ timeout_tick' = [timeout_tick EXCEPT ![t] = Plus(now, init_tick[t])]
    /\ timer_list' = Insert(Remove(timer_list, t), timeout_tick', t)
    /\ activated' = activated \cup {t}

Goto(t, o) == op' = [op EXCEPT ![t] = o]

-----------------------------------------------------------------------------
(* Calls by threads.                                                       *)

\* rt_timer_init, rt_timer_create.
TimerInit(t, s) ==
    /\ phase = "thread" /\ op[t] = "none"
    /\ activated' = activated \ {t}
    /\ periodic' = IF s.periodic THEN periodic \cup {t} ELSE periodic \ {t}
    /\ init_tick' = [init_tick EXCEPT ![t] = s.time]
    /\ timeout_tick' = [timeout_tick EXCEPT ![t] = 0]
    /\ Goto(t, "idle")
    /\ UNCHANGED <<tick, timer_list, phase>>

\* rt_timer_detach, rt_timer_delete.
TimerDetach(t) ==
    /\ phase = "thread" /\ op[t] = "idle"
    /\ Unlink(t)
    /\ Goto(t, "none")
    /\ UNCHANGED <<tick, activated, periodic, init_tick, phase>>

\* rt_timer_start: the timer is unlinked,
StartRemove(t) ==
    /\ phase = "thread" /\ op[t] = "idle"
    /\ Unlink(t)
    /\ activated' = activated \ {t}
    /\ Goto(t, "unlinked")
    /\ UNCHANGED <<tick, periodic, init_tick, phase>>

\* ... its timeout computed, with interrupts unmasked,
StartTime(t) ==
    /\ phase = "thread" /\ op[t] = "unlinked"
    /\ timeout_tick' = [timeout_tick EXCEPT ![t] = Plus(tick, init_tick[t])]
    /\ Goto(t, "timed")
    /\ UNCHANGED <<tick, timer_list, activated, periodic, init_tick, phase>>

\* ... and the timer inserted.
StartInsert(t) ==
    /\ phase = "thread" /\ op[t] = "timed"
    /\ timer_list' = Insert(timer_list, timeout_tick, t)
    /\ activated' = activated \cup {t}
    /\ Goto(t, "idle")
    /\ UNCHANGED <<tick, periodic, init_tick, timeout_tick, phase>>

\* rt_timer_stop: the flag is looked at,
StopCheck(t) ==
    /\ phase = "thread" /\ op[t] = "idle" /\ t \in activated
    /\ Goto(t, "stop")
    /\ UNCHANGED <<tick, timer_list, activated, periodic, init_tick, timeout_tick, phase>>

\* ... the timer unlinked, with interrupts masked,
StopRemove(t) ==
    /\ phase = "thread" /\ op[t] = "stop"
    /\ Unlink(t)
    /\ Goto(t, "stopped")
    /\ UNCHANGED <<tick, activated, periodic, init_tick, phase>>

\* ... and the flag cleared.
StopEnd(t) ==
    /\ phase = "thread" /\ op[t] = "stopped"
    /\ activated' = activated \ {t}
    /\ Goto(t, "idle")
    /\ UNCHANGED <<tick, timer_list, periodic, init_tick, timeout_tick, phase>>

\* rt_timer_control, by a thread or a timeout function.
Control(t, s) ==
    /\ phase # "check" /\ op[t] = "idle"
    /\ init_tick' = [init_tick EXCEPT ![t] = s.time]
    /\ periodic' = IF s.periodic THEN periodic \cup {t} ELSE periodic \ {t}
    /\ UNCHANGED <<tick, timer_list, activated, timeout_tick, op, phase>>

-----------------------------------------------------------------------------
(* The tick interrupt.                                                     *)

\* How far off the timeout of t is; negative when it has passed.
Due(t) == LET d == Minus(timeout_tick[t], tick) IN IF d > Half THEN d - (RT_TICK_MAX + 1) ELSE d

\* rt_tick_increase, and the entry of rt_timer_check.
TickIncrease ==
    /\ phase = "thread"
    /\ \A t \in Timer : op[t] = "timed" => Due(t) > - MaxLate
    /\ tick' = Plus(tick, 1)
    /\ phase' = "check"
    /\ UNCHANGED <<timer_list, activated, periodic, init_tick, timeout_tick, op>>

\* Mutant of Expired: the ticks are compared as if they did not wrap.
ExpiredNoWrap(t) == tick >= timeout_tick[t]

Expired(t) == Minus(tick, timeout_tick[t]) < Half

\* rt_timer_check: the first timer has expired and is unlinked,
CheckFire ==
    /\ phase = "check" /\ timer_list # <<>> /\ Expired(Head(timer_list))
    /\ phase' = Head(timer_list)
    /\ Unlink(Head(timer_list))
    /\ UNCHANGED <<tick, activated, periodic, init_tick, op>>

\* ... its timeout function starts
TimeoutStart(t) ==
    /\ phase \in Timer /\ op[t] = "idle" /\ (t = phase => RestartsItself)
    /\ StartAt(t, tick)
    /\ UNCHANGED <<tick, periodic, init_tick, op, phase>>

\* ... or stops timers,
TimeoutStop(t) ==
    /\ phase \in Timer /\ op[t] = "idle" /\ t \in activated
    /\ Unlink(t)
    /\ activated' = activated \ {t}
    /\ UNCHANGED <<tick, periodic, init_tick, op, phase>>

\* Mutant of TimeoutReturn: a periodic timer is started without its period.
TimeoutReturnNow ==
    /\ phase \in Timer
    /\ IF phase \in periodic \cap activated
       THEN /\ timeout_tick' = [timeout_tick EXCEPT ![phase] = tick]
            /\ timer_list' = Insert(timer_list, timeout_tick', phase)
            /\ UNCHANGED activated
       ELSE activated' = activated \ {phase} /\ UNCHANGED <<timer_list, timeout_tick>>
    /\ phase' = "check"
    /\ UNCHANGED <<tick, periodic, init_tick, op>>

\* ... and returns: a periodic timer is started again, another one is marked
\* as stopped.
TimeoutReturn ==
    /\ phase \in Timer
    /\ IF phase \in periodic \cap activated
       THEN StartAt(phase, tick)
       ELSE activated' = activated \ {phase} /\ UNCHANGED <<timer_list, timeout_tick>>
    /\ phase' = "check"
    /\ UNCHANGED <<tick, periodic, init_tick, op>>

\* ... until the first timer has not expired.
CheckDone ==
    /\ phase = "check" /\ (timer_list # <<>> => ~Expired(Head(timer_list)))
    /\ phase' = "thread"
    /\ UNCHANGED <<tick, timer_list, activated, periodic, init_tick, timeout_tick, op>>

TimerCall(t) ==
    \/ \E s \in Setting[t] : TimerInit(t, s) \/ Control(t, s)
    \/ TimerDetach(t)
    \/ StartRemove(t) \/ StartTime(t) \/ StartInsert(t)
    \/ StopCheck(t) \/ StopRemove(t) \/ StopEnd(t)
    \/ TimeoutStart(t) \/ TimeoutStop(t)

Next ==
    \/ TickIncrease \/ CheckFire \/ TimeoutReturn \/ CheckDone
    \/ \E t \in Timer : TimerCall(t)

\* rt_timer_check runs to its end: timeout functions return, and nothing can
\* interrupt the loop.
FairSpec ==
    /\ Init /\ [][Next]_vars
    /\ WF_vars(CheckFire \/ CheckDone) /\ WF_vars(TimeoutReturn)

-----------------------------------------------------------------------------
TypeOK ==
    /\ tick \in Ticks
    /\ timer_list \in Seq(Timer) /\ IsInjective(timer_list)
    /\ activated \subseteq Timer /\ periodic \subseteq Timer
    /\ init_tick \in [Timer -> 0 .. MaxInit]
    /\ timeout_tick \in [Timer -> Ticks]
    /\ op \in [Timer -> Op]
    /\ phase \in {"thread", "check"} \cup Timer

\* A timer is marked as active exactly when it is in the list, except inside a
\* call on it and while its timeout function runs.  Were it not, rt_timer_stop
\* would refuse to stop a running timer.
ActiveIffListed ==
    \A t \in Timer :
        op[t] = "idle" /\ t # phase => (t \in activated <=> t \in Listed)

\* rt_timer_check, with its timeout functions, comes to an end.
CheckEnds == phase # "thread" ~> phase = "thread"

\* The timers count down: a timer fires exactly at its timeout_tick, none that
\* is due is passed over, and one that was inserted late fires at the next
\* tick.
Countdown ==
    INSTANCE CountdownTimers
        WITH remaining <-
            [t \in Timer |->
                CASE t \notin Listed -> -1
                  [] phase = "thread" -> IF Due(t) < 1 THEN 1 ELSE Due(t)
                  [] OTHER -> IF Due(t) < 0 THEN 0 ELSE Due(t)]

ImplementsCountdown == Countdown!Spec
=============================================================================
