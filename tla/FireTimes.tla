----------------------------- MODULE FireTimes -----------------------------
(***************************************************************************)
(* When a rate or one-time job is started: cronSchedule, rateSchedule.Next *)
(* and onceSchedule.Next of internal/engine, and the loop of the cron      *)
(* library that calls them.  One job stands for all: the entries of the    *)
(* library do not touch each other.  Instants are integers, and durations  *)
(* integers of a width, as int64 nanoseconds are.                          *)
(*                                                                         *)
(* A cron expression is the library's own business and not modelled.       *)
(***************************************************************************)
EXTENDS Integers

CONSTANTS
    Jobs,       \* rate and one-time jobs
    NoJob, Never,
    Second, Minute,
    Half,       \* durations are -Half..Half-1
    Lag,        \* the scheduler looks at an entry before this long has passed
    MinTime, MaxTime  \* bounds on the clock

Instants == MinTime..MaxTime

\* rate_unit; days are fixed 24-hour intervals.
Unit(name) == CASE name = "minutes" -> Minute
                [] name = "hours" -> 60 * Minute
                [] name = "days" -> 1440 * Minute

\* at is run_at or starts_at; interval and unit are those of a rate.
IsJob(j) == /\ j.type \in {"rate", "once"} /\ j.at \in Int
            /\ j.type = "rate" => /\ j.interval \in Nat \ {0}
                                  /\ j.unit \in {"minutes", "hours", "days"}

ASSUME TimingAssumption ==
    /\ \A j \in Jobs : IsJob(j)
    /\ NoJob \notin Jobs /\ Never \notin Int
    /\ {Second, Minute, Half} \subseteq Nat \ {0}
    /\ Lag \in Nat
    /\ MinTime \in Int /\ MaxTime \in Int /\ MinTime <= MaxTime

VARIABLES
    now,      \* the clock
    running,  \* cron.Start has been called
    job,      \* the job with a cron entry
    made,     \* when its entry was made
    plan,     \* the cron.Schedule of the entry
    seen,     \* when the scheduler last looked at it
    next      \* entry.Next

vars == <<now, running, job, made, plan, seen, next>>

----------------------------------------------------------------------------
\* Durations.

Wrap(d) == ((d + Half) % (2 * Half)) - Half

\* time.Time.Sub does not wrap.
Sub(t, u) == IF t - u < -Half THEN -Half ELSE IF t - u >= Half THEN Half - 1 ELSE t - u

rateDuration(j) == Wrap(j.interval * Unit(j.unit))

\* Mutant: a time that is past is left as it is.
cronScheduleAsAsked(j) ==
    IF j.type = "rate"
    THEN [kind |-> "rate", start |-> j.at, interval |-> rateDuration(j)]
    ELSE [kind |-> "once", start |-> j.at]

\* A one-time job whose time is past is planned for a second from now.
cronSchedule(j) ==
    IF j.type = "rate"
    THEN [kind |-> "rate", start |-> j.at, interval |-> rateDuration(j)]
    ELSE [kind |-> "once", start |-> IF j.at > now THEN j.at ELSE now + Second]

\* Mutant: the interval that is under way is not added.
RateNextAgain(start, interval, t) ==
    IF interval <= 0 THEN Never
    ELSE IF t < start THEN start
    ELSE start + Wrap((Sub(t, start) \div interval) * interval)

\* Mutant: intervals are counted from the last look and not from the start.
RateNextFromLook(start, interval, t) ==
    IF interval <= 0 THEN Never
    ELSE IF t < start THEN start
    ELSE t + interval

RateNext(start, interval, t) ==
    IF interval <= 0 THEN Never
    ELSE IF t < start THEN start
    ELSE start + Wrap(Wrap(Sub(t, start) \div interval + 1) * interval)

OnceNext(at, t) == IF at > t THEN at ELSE Never

NextOf(p, t) == IF p.kind = "rate" THEN RateNext(p.start, p.interval, t)
                                   ELSE OnceNext(p.start, t)

----------------------------------------------------------------------------

Init ==
    /\ now \in Instants
    /\ running = FALSE
    /\ job = NoJob /\ made = now /\ plan = NoJob
    /\ seen = Never /\ next = Never

\* registerScheduleLocked, at a start or by a request; an entry of the same
\* name is replaced.
Register(j) ==
    /\ job' = j /\ plan' = cronSchedule(j) /\ made' = now
    /\ seen' = Never /\ next' = Never
    /\ UNCHANGED <<now, running>>

\* Mutant: the job is forgotten, its cron entry is not.
RemoveKeepingEntry ==
    /\ job # NoJob
    /\ job' = NoJob /\ plan' = NoJob
    /\ UNCHANGED <<now, running, made, seen, next>>

\* A deletion, a pause, or a one-time job that is marked completed.
Remove ==
    /\ job # NoJob
    /\ job' = NoJob /\ plan' = NoJob
    /\ seen' = Never /\ next' = Never
    /\ UNCHANGED <<now, running, made>>

Start ==
    /\ ~running /\ running' = TRUE
    /\ UNCHANGED <<now, job, made, plan, seen, next>>

\* The process ends.
Exit ==
    /\ running /\ running' = FALSE
    /\ job' = NoJob /\ plan' = NoJob
    /\ seen' = Never /\ next' = Never
    /\ UNCHANGED <<now, made>>

\* The scheduler takes note of an entry that is new to it.
Look ==
    /\ running /\ job # NoJob /\ seen = Never
    /\ next' = NextOf(plan, now) /\ seen' = now
    /\ UNCHANGED <<now, running, job, made, plan>>

\* It wakes up, in time or late, starts the job and asks for the next time.
Fire ==
    /\ running /\ job # NoJob
    /\ next # Never /\ next <= now
    /\ next' = NextOf(plan, now) /\ seen' = now
    /\ UNCHANGED <<now, running, job, made, plan>>

Advance ==
    /\ now < MaxTime /\ now' = now + 1
    /\ job # NoJob /\ seen = Never => now' - made <= Lag
    /\ UNCHANGED <<running, job, made, plan, seen, next>>

Next == \/ \E j \in Jobs : Register(j)
        \/ Remove \/ Start \/ Exit \/ Look \/ Fire \/ Advance

Spec == Init /\ [][Next]_vars

----------------------------------------------------------------------------
\* Correctness.

\* What a job asks for, in numbers without a width.  A rate is wild whose
\* ticks up to the first one after the end of the clock do not fit a duration.
Every(j) == j.interval * Unit(j.unit)

Fits(j) == Every(j) + (MaxTime - j.at) < Half /\ Every(j) < Half

Task(j, at) ==
    IF j = NoJob THEN [kind |-> "none"]
    ELSE IF j.type = "once"
    THEN [kind |-> "once", start |-> IF j.at > at THEN j.at ELSE at + Second]
    ELSE IF Fits(j) THEN [kind |-> "rate", start |-> j.at, every |-> Every(j)]
                    ELSE [kind |-> "wild"]

task == Task(job, made)

TypeOK ==
    /\ now \in Instants /\ running \in BOOLEAN
    /\ job \in Jobs \cup {NoJob} /\ made \in Instants /\ made <= now
    /\ IF job = NoJob THEN plan = NoJob
       ELSE /\ plan.start \in Int
            /\ IF job.type = "once" THEN plan.kind = "once"
               ELSE plan.kind = "rate" /\ plan.interval \in (-Half)..(Half - 1)
    /\ seen \in Instants \cup {Never} /\ next \in Int \cup {Never}
    /\ job = NoJob => seen = Never
    /\ IF seen = Never THEN next = Never ELSE made <= seen /\ seen <= now

\* The job is started at its ticks and never twice for one, none is missed
\* but those that pass while the scheduler sleeps, and a one-time job runs at
\* its time or, when that is past, soon: the code implements Ticks.
Promise == INSTANCE Ticks WITH
    Tasks <- [kind : {"rate"}, start : Int, every : Nat \ {0}]
               \cup [kind : {"once"}, start : Int] \cup [kind : {"wild"}],
    now <- now, task <- task, seen <- seen
FiresAtTicks == Promise!Spec

\* The other half: a tick that has come since the last look is never
\* forgotten, whatever is edited, paused, restarted or slept through.
WhatIsDueFires ==
    seen # Never /\ task.kind # "wild" /\ Promise!IsDue(task, seen, now)
      => next # Never /\ next <= now

\* "run one time at run_at": a one-time job that the scheduler has seen for the
\* first time is going to be started, provided that it has looked within the
\* second that cronSchedule allows for an overdue one.
OnceIsPlanned ==
    [][Lag < Second /\ job # NoJob /\ seen = Never /\ seen' # Never
         /\ job.type = "once" /\ job.at \notin (made + 1)..now
       => next' # Never]_vars
============================================================================
