------------------------------- MODULE Engine -------------------------------
(***************************************************************************)
(* internal/engine: the schedules in memory, the cron entries that fire    *)
(* them, and the attempts to run a job.  A fire of the scheduler and a     *)
(* manual run are both one attempt: a goroutine that walks through Trigger *)
(* and then executeRun.  It is split where another goroutine may come      *)
(* between two of its accesses to shared state (e.mu, the store, the       *)
(* pruning counter).  Operations on the schedules hold e.mu throughout and *)
(* are one step here.                                                      *)
(*                                                                         *)
(* A crash ends every attempt and loses the memory; a restart is NewEngine *)
(* on what the store kept.  Time is a count of minutes, the resolution of  *)
(* a scheduled time; cron and rate schedules, which the engine does not    *)
(* tell apart once an entry exists, are both of kind "recurring".          *)
(***************************************************************************)
EXTENDS Naturals, FiniteSets

CONSTANTS
    ScheduleNames,   \* names a schedule can have
    NoName,          \* the empty original_name of a save that creates
    Attempts,        \* fires and manual runs, each used once
    Inputs,          \* schedules that requests submit
    SeedNames,       \* schedules of the YAML file ...
    SeedSchedule,    \* ... and their definition
    MaxRecords,      \* run_retention.max_records
    MaxAge,          \* run_retention.max_age_days, in minutes here
    PruneEveryN,     \* runPruneEveryN
    FiresPerMinute,  \* how often one recurring schedule can fire in a minute
    ClearAllowed,    \* whether the run log is ever cleared by hand
    MaxMinutes,      \* bound on the clock
    MaxOps,          \* bound on schedule operations and clearings
    MaxCrashes,      \* bound on crashes
    MaxFaults        \* bound on failing store operations of attempts

\* A schedule: its kind, run_at, allow_concurrent_runs, paused, and whether
\* completed_at is set.
Kinds == {"recurring", "once"}
RunAts == {s.runAt : s \in Inputs \cup {SeedSchedule}}
Schedule == [kind : Kinds, runAt : RunAts, overlap : BOOLEAN,
             paused : BOOLEAN, completed : BOOLEAN]

Minutes == 1..MaxMinutes
Sources == {"scheduler", "manual"}

\* runID hashes these three; an attempt stands for the instant of its request.
RunIds == [schedule : ScheduleNames, by : Sources,
           at : RunAts \cup Minutes \cup Attempts]

Times == Minutes
Outcomes == {"finished", "skipped"}  \* "finished" is succeeded or failed
INSTANCE RunRecords

ASSUME EngineAssumption ==
    /\ NoName \notin ScheduleNames
    /\ SeedNames \subseteq ScheduleNames
    /\ Inputs \cup {SeedSchedule} \subseteq Schedule
    /\ IsFiniteSet(Attempts)
    /\ {MaxRecords, MaxAge} \subseteq Nat \ {0}  \* ApplyDefaults replaces 0
    /\ {PruneEveryN, FiresPerMinute, MaxMinutes} \subseteq Nat \ {0}
    /\ {MaxOps, MaxCrashes, MaxFaults} \subseteq Nat
    /\ ClearAllowed \in BOOLEAN

VARIABLES
    up,              \* the process runs
    schedules,       \* e.schedules
    entries,         \* cron entries, by schedule name
    stored,          \* the schedules in the store
    runs,            \* the run log in the store
    runsSincePrune,  \* e.runsSincePrune
    pc,              \* where each attempt is
    job,             \* what each attempt knows
    minute,          \* the clock
    fires,           \* fires of each name in this minute
    ops, crashes, faults  \* how often each happened, for the bounds

vars == <<up, schedules, entries, stored, runs, runsSincePrune, pc, job,
          minute, fires, ops, crashes, faults>>

catalog == <<schedules, entries, stored>>
world == <<up, minute, fires, ops, crashes>>

\* The locals of an attempt: schedule name, source and scheduled time, which
\* make the run id; the schedule Trigger read; started_at of the running
\* record it saved, 0 before that.
NoJob == [name |-> NoName, by |-> "scheduler", at |-> 0,
          sched |-> SeedSchedule, startedAt |-> 0]

\* registerScheduleLocked gives an entry to no other schedule.
Active(s) == ~s.paused /\ ~(s.kind = "once" /\ s.completed)

Entry(s) == [copy |-> s, armed |-> TRUE]

\* Mutant: a schedule that needs no entry keeps the one it had.
RegisterKeepingEntry(es, name, s) ==
    IF Active(s) THEN Put(es, name, Entry(s)) ELSE es

Register(es, name, s) ==
    IF Active(s) THEN Put(es, name, Entry(s)) ELSE Without(es, {name})

\* Mutant: a start registers completed schedules too.
RegisterUnpaused(ss) ==
    [n \in {m \in DOMAIN ss : ~ss[m].paused} |-> Entry(ss[n])]

RegisterAll(ss) ==
    [n \in {m \in DOMAIN ss : Active(ss[m])} |-> Entry(ss[n])]

NoSchedules == [n \in {} |-> SeedSchedule]
NoEntries == [n \in {} |-> Entry(SeedSchedule)]

\* What NewEngine registers: the stored schedules, or those of the YAML file
\* when none is stored.
Loaded == IF DOMAIN stored = {} THEN [n \in SeedNames |-> SeedSchedule]
                                ELSE stored

----------------------------------------------------------------------------

Init ==
    /\ up = TRUE
    /\ schedules = [n \in SeedNames |-> SeedSchedule]
    /\ stored = schedules
    /\ entries = RegisterAll(schedules)
    /\ runs = EmptyLog
    /\ runsSincePrune = 0
    /\ pc = [a \in Attempts |-> "idle"]
    /\ job = [a \in Attempts |-> NoJob]
    /\ minute = 1
    /\ fires = [n \in ScheduleNames |-> 0]
    /\ ops = 0 /\ crashes = 0 /\ faults = 0

----------------------------------------------------------------------------
\* The attempts.

Goto(a, l) == pc' = [pc EXCEPT ![a] = l]

\* A store operation of an attempt fails.
Fault == faults < MaxFaults /\ faults' = faults + 1

ScheduledAt(s) == IF s.kind = "once" THEN s.runAt ELSE minute

\* The cron library starts the job of an entry.  The entry of a one-time
\* schedule has no next time after that and stays until it is removed.
Fire(a, name) ==
    /\ up /\ pc[a] = "idle"
    /\ name \in DOMAIN entries
    /\ entries[name].armed
    /\ IF entries[name].copy.kind = "once"
       THEN /\ entries' = [entries EXCEPT ![name].armed = FALSE]
            /\ UNCHANGED fires
       ELSE /\ fires[name] < FiresPerMinute
            /\ fires' = [fires EXCEPT ![name] = @ + 1]
            /\ UNCHANGED entries
    /\ job' = [job EXCEPT ![a] =
                 [NoJob EXCEPT !.name = name,
                               !.at = ScheduledAt(entries[name].copy)]]
    /\ Goto(a, "called")
    /\ UNCHANGED <<up, schedules, stored, runs, runsSincePrune, minute, ops,
                   crashes, faults>>

\* TriggerManual looks the schedule up once, to reject a paused one.
TriggerManual(a, name) ==
    /\ up /\ pc[a] = "idle"
    /\ name \in DOMAIN schedules
    /\ ~schedules[name].paused
    /\ job' = [job EXCEPT ![a] = [NoJob EXCEPT !.name = name,
                                               !.by = "manual", !.at = a]]
    /\ Goto(a, "called")
    /\ UNCHANGED <<catalog, runs, runsSincePrune, world, faults>>

\* Trigger looks it up again, under a read lock of its own.
Load(a) ==
    /\ up /\ pc[a] = "called"
    /\ IF job[a].name \in DOMAIN schedules
       THEN LET s == schedules[job[a].name]
            IN  /\ job' = [job EXCEPT ![a].sched = s]
                /\ Goto(a, IF s.overlap THEN "admitted" ELSE "checking")
       ELSE Goto(a, "done") /\ UNCHANGED job
    /\ UNCHANGED <<catalog, runs, runsSincePrune, world, faults>>

\* HasRunningRun.
Check(a) ==
    /\ up /\ pc[a] = "checking"
    /\ \/ /\ Goto(a, IF RunningOf(runs, job[a].name) = {} THEN "admitted"
                                                          ELSE "refused")
          /\ UNCHANGED faults
       \/ Goto(a, "done") /\ Fault
    /\ UNCHANGED <<catalog, runs, runsSincePrune, job, world>>

\* Mutant: the scheduled time of a manual run is cut to the minute too.
IdOfMinute(a) == [schedule |-> job[a].name, by |-> job[a].by, at |-> 1]

IdOf(a) == [schedule |-> job[a].name, by |-> job[a].by, at |-> job[a].at]

Record(a, status, startedAt) ==
    [schedule |-> job[a].name, status |-> status, startedAt |-> startedAt]

\* The record of a skipped attempt; Trigger goes on to maybePruneRuns.
SaveSkipped(a) ==
    /\ up /\ pc[a] = "refused"
    /\ \/ /\ runs' = Put(runs, IdOf(a), Record(a, "skipped", minute))
          /\ Goto(a, "counting")
          /\ UNCHANGED faults
       \/ Goto(a, "done") /\ Fault /\ UNCHANGED runs
    /\ UNCHANGED <<catalog, runsSincePrune, job, world>>

\* The record of an attempt that runs, before its target is called.
SaveRunning(a) ==
    /\ up /\ pc[a] = "admitted"
    /\ \/ /\ runs' = Put(runs, IdOf(a), Record(a, Running, minute))
          /\ job' = [job EXCEPT ![a].startedAt = minute]
          /\ Goto(a, IF job[a].sched.kind = "once" /\ job[a].by = "scheduler"
                     THEN "marking" ELSE "running")
          /\ UNCHANGED faults
       \/ Goto(a, "done") /\ Fault /\ UNCHANGED <<runs, job>>
    /\ UNCHANGED <<catalog, runsSincePrune, world>>

\* markOneTimeCompleted looks the schedule up by name a third time.  Its
\* errors are only logged.
MarkOneTimeCompleted(a) ==
    /\ up /\ pc[a] = "marking"
    /\ Goto(a, "running")
    /\ LET name == job[a].name
           pending == /\ name \in DOMAIN schedules
                      /\ schedules[name].kind = "once"
                      /\ ~schedules[name].completed
       IN  \/ /\ pending
              /\ LET s == [schedules[name] EXCEPT !.completed = TRUE]
                 IN  /\ stored' = Put(stored, name, s)
                     /\ schedules' = Put(schedules, name, s)
              /\ entries' = Without(entries, {name})
              /\ UNCHANGED faults
           \/ pending /\ Fault /\ UNCHANGED catalog
           \/ ~pending /\ UNCHANGED <<catalog, faults>>
    /\ UNCHANGED <<runs, runsSincePrune, job, world>>

\* Mutant: an attempt whose target fails returns without UpdateRun.
FinishWithoutUpdate(a) ==
    /\ up /\ pc[a] = "running"
    /\ Goto(a, "counting")
    /\ UNCHANGED <<catalog, runs, runsSincePrune, job, world, faults>>

\* The target answers or the timeout passes; UpdateRun writes the result.
Finish(a) ==
    /\ up /\ pc[a] = "running"
    /\ Goto(a, "counting")
    /\ \/ /\ runs' = Put(runs, IdOf(a),
                        Record(a, "finished", job[a].startedAt))
          /\ UNCHANGED faults
       \/ Fault /\ UNCHANGED runs
    /\ UNCHANGED <<catalog, runsSincePrune, job, world>>

\* Mutant: the counter is compared with > in place of >=.
CountRunLate(a) ==
    /\ up /\ pc[a] = "counting"
    /\ \E elapsed \in BOOLEAN :
         IF elapsed \/ runsSincePrune + 1 > PruneEveryN
         THEN runsSincePrune' = 0 /\ Goto(a, "pruning")
         ELSE runsSincePrune' = runsSincePrune + 1 /\ Goto(a, "done")
    /\ UNCHANGED <<catalog, runs, job, world, faults>>

\* First half of maybePruneRuns, under its mutex.  elapsed: five minutes
\* have passed since the last pruning was decided.
CountRun(a) ==
    /\ up /\ pc[a] = "counting"
    /\ \E elapsed \in BOOLEAN :
         IF elapsed \/ runsSincePrune + 1 >= PruneEveryN
         THEN runsSincePrune' = 0 /\ Goto(a, "pruning")
         ELSE runsSincePrune' = runsSincePrune + 1 /\ Goto(a, "done")
    /\ UNCHANGED <<catalog, runs, job, world, faults>>

Cutoff == IF minute > MaxAge THEN minute - MaxAge ELSE 0

Pruned == {Without(runs, victims) :
             victims \in PruneVictims(runs, Cutoff, MaxRecords)}

\* Second half, outside the mutex; its error is only logged.
Prune(a) ==
    /\ up /\ pc[a] = "pruning"
    /\ Goto(a, "done")
    /\ \/ runs' \in Pruned /\ UNCHANGED faults
       \/ Fault /\ UNCHANGED runs
    /\ UNCHANGED <<catalog, runsSincePrune, job, world>>

Step(a) == \/ Load(a) \/ Check(a) \/ SaveSkipped(a) \/ SaveRunning(a)
           \/ MarkOneTimeCompleted(a) \/ Finish(a) \/ CountRun(a) \/ Prune(a)

----------------------------------------------------------------------------
\* Requests of the operator, under e.mu.

attempts == <<pc, job, runsSincePrune>>

Request == up /\ ops < MaxOps /\ ops' = ops + 1

\* A save that creates (original = NoName), edits or renames.  An edit that
\* keeps run_at keeps completed_at.
SaveSchedule(original, name, input) ==
    /\ Request
    /\ original # NoName => original \in DOMAIN schedules
    /\ original # name => name \notin DOMAIN schedules
    /\ LET keeps == /\ original # NoName
                    /\ input.kind = "once" /\ ~input.completed
                    /\ schedules[original].kind = "once"
                    /\ schedules[original].runAt = input.runAt
           s == IF keeps
                THEN [input EXCEPT !.completed = schedules[original].completed]
                ELSE input
       IN  /\ stored' = Put(Without(stored, {original}), name, s)
           /\ schedules' = Put(Without(schedules, {original}), name, s)
           /\ entries' = Register(Without(entries, {original}), name, s)
    /\ UNCHANGED <<runs, attempts, up, minute, fires, crashes, faults>>

DeleteSchedule(name) ==
    /\ Request
    /\ name \in DOMAIN schedules
    /\ schedules' = Without(schedules, {name})
    /\ entries' = Without(entries, {name})
    /\ stored' = Without(stored, {name})
    /\ UNCHANGED <<runs, attempts, up, minute, fires, crashes, faults>>

TogglePause(name) ==
    /\ Request
    /\ name \in DOMAIN schedules
    /\ LET s == [schedules[name] EXCEPT !.paused = ~@]
       IN  /\ stored' = Put(stored, name, s)
           /\ schedules' = Put(schedules, name, s)
           /\ entries' = Register(entries, name, s)
    /\ UNCHANGED <<runs, attempts, up, minute, fires, crashes, faults>>

ClearRuns ==
    /\ ClearAllowed
    /\ Request
    /\ runs' = EmptyLog
    /\ UNCHANGED <<catalog, attempts, up, minute, fires, crashes, faults>>

----------------------------------------------------------------------------
\* The environment.

NextMinute ==
    /\ minute < MaxMinutes
    /\ minute' = minute + 1
    /\ fires' = [n \in ScheduleNames |-> 0]
    /\ UNCHANGED <<catalog, runs, attempts, up, ops, crashes, faults>>

Crash ==
    /\ up /\ crashes < MaxCrashes
    /\ up' = FALSE
    /\ crashes' = crashes + 1
    /\ pc' = [a \in Attempts |-> IF pc[a] \in {"idle", "done"} THEN pc[a]
                                                              ELSE "lost"]
    /\ schedules' = NoSchedules
    /\ entries' = NoEntries
    /\ UNCHANGED <<stored, runs, job, runsSincePrune, minute, fires, ops, faults>>

\* NewEngine: load or seed the schedules, prune, register.
Restart ==
    /\ ~up
    /\ up' = TRUE
    /\ schedules' = Loaded
    /\ stored' = Loaded
    /\ runs' \in Pruned
    /\ runsSincePrune' = 0
    /\ entries' = RegisterAll(Loaded)
    /\ UNCHANGED <<pc, job, minute, fires, ops, crashes, faults>>

Next ==
    \/ \E a \in Attempts, n \in ScheduleNames : Fire(a, n) \/ TriggerManual(a, n)
    \/ \E a \in Attempts : Step(a)
    \/ \E o \in ScheduleNames \cup {NoName}, n \in ScheduleNames, s \in Inputs :
           SaveSchedule(o, n, s)
    \/ \E n \in ScheduleNames : DeleteSchedule(n) \/ TogglePause(n)
    \/ ClearRuns
    \/ NextMinute
    \/ Crash
    \/ Restart

Spec == Init /\ [][Next]_vars

\* A goroutine that can go on does; the target call of Finish ends because
\* its context has the schedule's timeout.  (That the calls a Faktory client
\* makes without the context end is an assumption on the server.)  Nothing is
\* assumed of fires, requests, crashes or the clock.
FairSpec == Spec /\ \A a \in Attempts : WF_vars(Step(a))

----------------------------------------------------------------------------
\* Correctness.

Places == {"idle", "called", "checking", "admitted", "refused", "marking",
           "running", "counting", "pruning", "done", "lost"}

\* Type invariant; the pruning counter never reaches its limit.
TypeOK ==
    /\ up \in BOOLEAN
    /\ DOMAIN schedules \subseteq ScheduleNames
    /\ \A n \in DOMAIN schedules : schedules[n] \in Schedule
    /\ DOMAIN stored \subseteq ScheduleNames
    /\ \A n \in DOMAIN stored : stored[n] \in Schedule
    /\ DOMAIN entries \subseteq ScheduleNames
    /\ \A n \in DOMAIN entries :
           entries[n] \in [copy : Schedule, armed : BOOLEAN]
    /\ DOMAIN runs \subseteq RunIds
    /\ \A id \in DOMAIN runs : runs[id] \in Run
    /\ runsSincePrune \in 0..(PruneEveryN - 1)
    /\ pc \in [Attempts -> Places]
    /\ job \in [Attempts ->
                  [name : ScheduleNames \cup {NoName}, by : Sources,
                   at : RunAts \cup Minutes \cup Attempts \cup {0},
                   sched : Schedule, startedAt : Minutes \cup {0}]]
    /\ minute \in Minutes
    /\ fires \in [ScheduleNames -> 0..FiresPerMinute]
    /\ ops \in 0..MaxOps /\ crashes \in 0..MaxCrashes /\ faults \in 0..MaxFaults

\* A running process has a cron entry for exactly the schedules that are not
\* paused and not completed, and each entry works on a copy of the schedule
\* as it is now: no sequence of saves, renames, pauses, deletions, one-time
\* completions and restarts leaves a fire that the catalogue does not show.
EntriesFollowSchedules ==
    up => /\ DOMAIN entries =
               {n \in DOMAIN schedules :
                  /\ ~schedules[n].paused
                  /\ schedules[n].kind = "once" => ~schedules[n].completed}
          /\ \A n \in DOMAIN entries : entries[n].copy = schedules[n]

\* An attempt past SaveRun and before UpdateRun.
Live(a) == pc[a] \in {"marking", "running"}

IsRunning(id) == id \in DOMAIN runs /\ runs[id].status = Running

\* A one-time schedule that is armed again for the time it had (completed_at was
\* not stored, it was deleted and created anew, run_at was moved away and back)
\* fires under the id of its earlier fire.
SharesRecord(a) ==
    /\ job[a].at \in RunAts
    /\ \E b \in Attempts \ {a} : pc[b] \notin {"idle", "lost"} /\ IdOf(b) = IdOf(a)

\* Every live attempt is in the run log as running, unless its record is also
\* that of another fire for the same time of a one-time schedule: pruning and
\* other attempts never take its record from under it.  HasRunningRun relies
\* on it.
LiveRunsAreRecorded ==
    \A a \in Attempts : Live(a) => IsRunning(IdOf(a)) \/ SharesRecord(a)

\* Every running record in the log belongs to a live attempt, so that no
\* schedule is blocked by a run that nobody will finish.
RunningRecordHasOwner ==
    \A id \in DOMAIN runs :
        IsRunning(id) => \E a \in Attempts : Live(a) /\ IdOf(a) = id

\* The no-overlap check never admits an attempt while another attempt of the
\* same schedule is past its SaveRun: what can overlap is only what is
\* admitted before the other's SaveRun, and the fires of a one-time schedule
\* that share a record, since the one that ends first ends it for both.
GuardSeesLiveRuns ==
    [][\A a, b \in Attempts :
          /\ pc[a] = "checking" /\ pc'[a] = "admitted"
          /\ Live(b) /\ ~SharesRecord(b)
          => job[b].name # job[a].name]_vars

\* At any time the log of a running process holds at most max_records
\* completed records, plus those of one pruning period: the runs counted
\* since the last pruning was decided, the attempts not counted yet, and a
\* whole period for each pruning still to be carried out and each that failed.
RetentionBound ==
    up => Cardinality(Completed(runs)) <=
            MaxRecords + runsSincePrune
              + Cardinality({a \in Attempts : pc[a] = "counting"})
              + PruneEveryN * (faults + Cardinality({a \in Attempts : pc[a] = "pruning"}))

\* A record that says running, of which no attempt is live any more, was left by
\* an attempt that a crash ended or by an UpdateRun that failed, one by each:
\* nothing else blocks a schedule for good.
Unowned == {id \in DOMAIN runs :
              IsRunning(id) /\ ~\E a \in Attempts : Live(a) /\ IdOf(a) = id}
BlockedOnlyByFailures ==
    Cardinality(Unowned) <= faults + Cardinality({a \in Attempts : pc[a] = "lost"})

\* The fires of a name for one time of a one-time schedule that came to SaveRun.
\* Times of the clock are those of recurring schedules.
RunsFor(n, at) ==
    {a \in Attempts : /\ job[a].by = "scheduler" /\ job[a].name = n
                      /\ job[a].at = at /\ job[a].startedAt > 0}

\* A one-time schedule runs once for its time.  Besides a run that a crash cut
\* off, it takes a request of the operator or a failing store operation for every
\* further one: completed_at is marked before the target is called, is stored,
\* and is looked at by every start.
OnceRunsOnce ==
    \A n \in ScheduleNames, at \in RunAts \ Minutes :
        Cardinality({a \in RunsFor(n, at) : pc[a] # "lost"}) <=
            (IF n \in SeedNames THEN 1 ELSE 0) + ops + faults

\* A final record is removed by pruning or a clearing and never rewritten: no
\* result is lost under that of another run.  The fires of a one-time schedule
\* for one time do share a record.
RecordsAreFinal ==
    [][\A id \in DOMAIN runs :
          /\ runs[id].status # Running /\ id.at \notin RunAts
          /\ id \in DOMAIN runs'
          => runs'[id] = runs[id]]_vars

\* A record saved as running becomes final or is cleared.
RunningRecordsSettle ==
    \A id \in RunIds : IsRunning(id) ~> ~IsRunning(id)

\* "No overlap": of a schedule that does not allow concurrent runs, no two
\* run at once.
NoOverlap ==
    \A a, b \in Attempts :
        /\ Live(a) /\ Live(b)
        /\ job[a].name = job[b].name
        /\ ~job[a].sched.overlap /\ ~job[b].sched.overlap
        => a = b

\* "skipped because a previous run is still running": an attempt is refused
\* only behind a live attempt of its schedule.
RefusedOnlyBehindLiveRun ==
    [][\A a \in Attempts :
          pc[a] = "checking" /\ pc'[a] = "refused" =>
            \E b \in Attempts : Live(b) /\ job[b].name = job[a].name]_vars

\* "After Clock Relay creates the run attempt, it persists completed_at": a
\* one-time schedule that is completed was attempted for its own run_at.
CompletedAfterItsRun ==
    \A n \in DOMAIN schedules :
        schedules[n].kind = "once" /\ schedules[n].completed =>
          \E a \in Attempts : /\ job[a].startedAt > 0
                              /\ job[a].by = "scheduler"
                              /\ job[a].at = schedules[n].runAt
============================================================================
