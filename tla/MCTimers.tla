------------------------------ MODULE MCTimers ------------------------------
(* Model of Timers for TLC: two timers that are set in two ways and a      *)
(* periodic one, on a tick counter of twelve values.                       *)
EXTENDS Timers

CONSTANTS t1, t2, t3

MCTimer == {t1, t2, t3}
MCSetting ==
    [t \in MCTimer |->
        CASE t = t1 -> {[time |-> 1, periodic |-> FALSE], [time |-> 2, periodic |-> TRUE]}
          [] t = t2 -> {[time |-> 0, periodic |-> FALSE], [time |-> 2, periodic |-> FALSE]}
          [] t = t3 -> {[time |-> 1, periodic |-> TRUE]}]
=============================================================================
