------------------------------- MODULE Ticks -------------------------------
(***************************************************************************)
(* What the timing of a job promises.  A task has ticks: the instants      *)
(* start, start + every, start + 2 * every, ... of a rate, the one instant *)
(* of a one-time job.  A watcher looks at the clock; the job is started    *)
(* when a tick has come since it looked last, once for all that have.      *)
(* Nothing is promised of a "wild" task.  FireTimes implements this.       *)
(***************************************************************************)
EXTENDS Integers

CONSTANTS Instants,  \* a set of integers
          Tasks,     \* what jobs ask for
          Never      \* the watcher has not looked

VARIABLES now, task, seen

vars == <<now, task, seen>>

NoTask == [kind |-> "none"]

IsTick(t, k) ==
    \/ t.kind = "once" /\ k = t.start
    \/ /\ t.kind = "rate" /\ k >= t.start
       /\ \E n \in 0..(k - t.start) : k = t.start + n * t.every

IsDue(t, since, until) == \E k \in (since + 1)..until : IsTick(t, k)

Init == now \in Instants /\ task = NoTask /\ seen = Never

\* A job is taken on, with a task known from then on, or given up.
Take == task' \in Tasks \cup {NoTask} /\ seen' = Never /\ UNCHANGED now

Look == task # NoTask /\ seen = Never /\ seen' = now /\ UNCHANGED <<now, task>>

Deliver == /\ task # NoTask /\ seen # Never
           /\ task.kind = "wild" \/ IsDue(task, seen, now)
           /\ seen' = now
           /\ UNCHANGED <<now, task>>

Pass == now' \in Instants /\ now' > now /\ UNCHANGED <<task, seen>>

Next == Take \/ Look \/ Deliver \/ Pass

Spec == Init /\ [][Next]_vars
============================================================================
