---------------------------- MODULE MCFireTimes ----------------------------
(* A clock that starts before and after the times of the jobs; the days of  *)
(* the last rate do not fit a duration.                                     *)
EXTENDS FireTimes

Rate(at, interval, unit) ==
    [type |-> "rate", at |-> at, interval |-> interval, unit |-> unit]

MCJobs == {Rate(3, 1, "minutes"), Rate(-7, 2, "minutes"), Rate(0, 1, "days"),
           Rate(-60, 1, "minutes"), [type |-> "once", at |-> 5]}
MCMinTime == -1
============================================================================
