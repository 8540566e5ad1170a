---------------------------- MODULE EngineProofs ----------------------------
(***************************************************************************)
(* Proofs about Engine, for every set of schedules and attempts and every  *)
(* value of the bounds.                                                    *)
(***************************************************************************)
EXTENDS Engine, FiniteSetTheorems, TLAPS

(* The two operations on functions that all state changes are made of. *)

LEMMA PutFacts ==
  ASSUME NEW f, NEW x, NEW v
  PROVE  /\ DOMAIN Put(f, x, v) = DOMAIN f \cup {x}
         /\ Put(f, x, v)[x] = v
         /\ \A y \in DOMAIN f \ {x} : Put(f, x, v)[y] = f[y]
  BY DEF Put

LEMMA WithoutFacts ==
  ASSUME NEW f, NEW S
  PROVE  /\ DOMAIN Without(f, S) = DOMAIN f \ S
         /\ \A y \in DOMAIN f \ S : Without(f, S)[y] = f[y]
  BY DEF Without

\* f is a partial function from S to T.
Partial(f, S, T) == DOMAIN f \subseteq S /\ \A x \in DOMAIN f : f[x] \in T

LEMMA PutPartial ==
  ASSUME NEW S, NEW T, NEW f, Partial(f, S, T), NEW x \in S, NEW v \in T
  PROVE  Partial(Put(f, x, v), S, T)
<1> DEFINE g == Put(f, x, v)
<1>1. /\ DOMAIN g = DOMAIN f \cup {x}
      /\ g[x] = v
      /\ \A y \in DOMAIN f \ {x} : g[y] = f[y]
  BY DEF Put
<1> HIDE DEF g
<1>2. Partial(g, S, T)
  BY <1>1 DEF Partial
<1> QED
  BY <1>2 DEF g

LEMMA WithoutPartial ==
  ASSUME NEW S, NEW T, NEW f, Partial(f, S, T), NEW X
  PROVE  Partial(Without(f, X), S, T)
<1> DEFINE g == Without(f, X)
<1>1. /\ DOMAIN g = DOMAIN f \ X
      /\ \A y \in DOMAIN f \ X : g[y] = f[y]
  BY WithoutFacts
<1> HIDE DEF g
<1>2. Partial(g, S, T)
  BY <1>1 DEF Partial
<1> QED
  BY <1>2 DEF g

\* Entries whose schedules are of type T.
EntryOf(T) == [copy : T, armed : BOOLEAN]
EntryType == EntryOf(Schedule)

LEMMA RegisterPartial ==
  ASSUME NEW T, NEW es, Partial(es, ScheduleNames, EntryOf(T)),
         NEW name \in ScheduleNames, NEW s \in T
  PROVE  Partial(Register(es, name, s), ScheduleNames, EntryOf(T))
<1>1. Entry(s) \in EntryOf(T)
  BY DEF Entry, EntryOf
<1> QED
  BY <1>1, PutPartial, WithoutPartial DEF Register

LEMMA RegisterAllPartial ==
  ASSUME NEW T, NEW ss, Partial(ss, ScheduleNames, T)
  PROVE  Partial(RegisterAll(ss), ScheduleNames, EntryOf(T))
  BY DEF Partial, RegisterAll, Entry, EntryOf

LEMMA LoadedPartial ==
  ASSUME NEW T, Partial(stored, ScheduleNames, T), SeedSchedule \in T
  PROVE  Partial(Loaded, ScheduleNames, T)
  BY EngineAssumption DEF Loaded, Partial

LEMMA PrunedPartial ==
  ASSUME Partial(runs, RunIds, Run), NEW new \in Pruned
  PROVE  Partial(new, RunIds, Run)
<1>1. PICK victims : new = Without(runs, victims)
  BY DEF Pruned
<1> QED
  BY <1>1, WithoutPartial

-----------------------------------------------------------------------------
(* Type correctness. *)

JobType == [name : ScheduleNames \cup {NoName}, by : Sources,
            at : RunAts \cup Minutes \cup Attempts \cup {0},
            sched : Schedule, startedAt : Minutes \cup {0}]

\* The conjuncts of TypeOK in the shape the lemmas use.
Types ==
    /\ Partial(schedules, ScheduleNames, Schedule)
    /\ Partial(stored, ScheduleNames, Schedule)
    /\ Partial(entries, ScheduleNames, EntryType)
    /\ Partial(runs, RunIds, Run)
    /\ up \in BOOLEAN
    /\ runsSincePrune \in 0..(PruneEveryN - 1)
    /\ pc \in [Attempts -> Places]
    /\ job \in [Attempts -> JobType]
    /\ minute \in Minutes
    /\ fires \in [ScheduleNames -> 0..FiresPerMinute]
    /\ ops \in 0..MaxOps /\ crashes \in 0..MaxCrashes /\ faults \in 0..MaxFaults

\* An attempt that has left idle knows its run id, one that has begun knows
\* when it began.
Informed ==
    \A a \in Attempts :
        /\ pc[a] # "idle" => IdOf(a) \in RunIds
        /\ pc[a] \in {"marking", "running"} => job[a].startedAt \in Minutes

LEMMA TypesAreTypeOK == Types <=> TypeOK
  BY DEF Types, TypeOK, Partial, EntryType, EntryOf, JobType

LEMMA NoJobType == NoJob \in JobType
  BY EngineAssumption DEF NoJob, JobType, Sources

LEMMA RecordType ==
  ASSUME Types, Informed, NEW a \in Attempts, pc[a] # "idle",
         NEW status \in Outcomes \cup {Running}, NEW m \in Minutes
  PROVE  IdOf(a) \in RunIds /\ Record(a, status, m) \in Run
<1>1. IdOf(a) \in RunIds
  BY DEF Informed
<1>2. job[a].name \in ScheduleNames
  BY <1>1 DEF RunIds, IdOf
<1> QED
  BY <1>1, <1>2 DEF Record, Run, Times

IInv == Types /\ Informed

LEMMA InitTypes == Init => IInv
<1> SUFFICES ASSUME Init PROVE IInv
  OBVIOUS
<1>1. SeedSchedule \in Schedule /\ SeedNames \subseteq ScheduleNames
  BY EngineAssumption
<1>2. Partial(schedules, ScheduleNames, Schedule) /\ stored = schedules
  BY <1>1 DEF Init, Partial
<1>3. Partial(entries, ScheduleNames, EntryType)
  BY <1>2, RegisterAllPartial DEF Init, EntryType
<1>4. Partial(runs, RunIds, Run)
  BY DEF Init, Partial, EmptyLog
<1>5. job \in [Attempts -> JobType]
  BY NoJobType DEF Init
<1>6. /\ runsSincePrune \in 0..(PruneEveryN - 1)
      /\ minute \in Minutes
      /\ fires \in [ScheduleNames -> 0..FiresPerMinute]
      /\ ops \in 0..MaxOps /\ crashes \in 0..MaxCrashes /\ faults \in 0..MaxFaults
  BY EngineAssumption DEF Init, Minutes
<1>7. pc \in [Attempts -> Places] /\ up \in BOOLEAN
  BY DEF Init, Places
<1>8. Informed
  BY DEF Init, Informed
<1> QED
  BY <1>2, <1>3, <1>4, <1>5, <1>6, <1>7, <1>8 DEF IInv, Types

(* Actions that change only where one attempt is. *)
LEMMA GotoTypes ==
  ASSUME NEW a \in Attempts, NEW l \in Places, pc \in [Attempts -> Places], Goto(a, l)
  PROVE  /\ pc' \in [Attempts -> Places]
         /\ pc'[a] = l
         /\ \A b \in Attempts \ {a} : pc'[b] = pc[b]
  BY DEF Goto

LEMMA FaultTypes ==
  ASSUME faults \in 0..MaxFaults, Fault \/ UNCHANGED faults
  PROVE  faults' \in 0..MaxFaults
  BY EngineAssumption DEF Fault

(* An attempt that moves on without changing what it knows stays informed. *)
LEMMA GotoInformed ==
  ASSUME Types, Informed, NEW a \in Attempts, NEW l \in Places, Goto(a, l),
         pc[a] # "idle", UNCHANGED job,
         l \in {"marking", "running"} => job[a].startedAt \in Minutes
  PROVE  Informed'
<1>1. /\ pc'[a] = l
      /\ \A b \in Attempts \ {a} : pc'[b] = pc[b]
  BY GotoTypes DEF Types
<1> QED
  BY <1>1 DEF Informed, IdOf

(* The attempts. *)

LEMMA FireTypes ==
  ASSUME IInv, NEW a \in Attempts, NEW name \in ScheduleNames, Fire(a, name)
  PROVE  IInv'
<1> DEFINE j == [NoJob EXCEPT !.name = name, !.at = ScheduledAt(entries[name].copy)]
<1>1. entries[name] \in EntryType
  BY DEF Fire, IInv, Types, Partial
<1>2. ScheduledAt(entries[name].copy) \in RunAts \cup Minutes
  BY <1>1 DEF ScheduledAt, EntryType, EntryOf, Schedule, IInv, Types
<1>3. /\ j \in JobType /\ j.name = name /\ j.by = "scheduler"
      /\ j.at = ScheduledAt(entries[name].copy)
  BY <1>2, NoJobType DEF NoJob, JobType
<1> HIDE DEF j
<1>4. /\ pc' \in [Attempts -> Places]
      /\ pc'[a] = "called"
      /\ \A b \in Attempts \ {a} : pc'[b] = pc[b]
  BY GotoTypes DEF Fire, IInv, Types, Places
<1>5. /\ job' = [job EXCEPT ![a] = j]
      /\ job' \in [Attempts -> JobType]
      /\ job'[a] = j
      /\ \A b \in Attempts \ {a} : job'[b] = job[b]
  BY <1>3 DEF Fire, IInv, Types, j
<1>6. Informed'
  <2>1. IdOf(a)' \in RunIds
    BY <1>2, <1>3, <1>5 DEF IdOf, RunIds, Sources
  <2>2. \A b \in Attempts \ {a} : IdOf(b)' = IdOf(b)
    BY <1>5 DEF IdOf
  <2>3. \A m : m \in Minutes' <=> m \in Minutes
    BY DEF Minutes
  <2> QED
    BY <1>4, <1>5, <2>1, <2>2, <2>3 DEF Informed, IInv
<1>7. Partial(entries', ScheduleNames, EntryType)
  <2> DEFINE e == [entries[name] EXCEPT !.armed = FALSE]
  <2>1. e \in EntryType
    BY <1>1 DEF EntryType, EntryOf
  <2>2. entries' = entries \/ entries' = [entries EXCEPT ![name] = e]
    BY DEF Fire
  <2> HIDE DEF e
  <2> QED
    BY <2>1, <2>2 DEF Fire, IInv, Types, Partial
<1>8. fires' \in [ScheduleNames -> 0..FiresPerMinute]
  BY EngineAssumption DEF Fire, IInv, Types
<1>9. /\ up' = up /\ schedules' = schedules /\ stored' = stored /\ runs' = runs
      /\ runsSincePrune' = runsSincePrune /\ minute' = minute /\ ops' = ops
      /\ crashes' = crashes /\ faults' = faults
  BY DEF Fire
<1> QED
  BY <1>4, <1>5, <1>6, <1>7, <1>8, <1>9 DEF IInv, Types

LEMMA TriggerManualTypes ==
  ASSUME IInv, NEW a \in Attempts, NEW name \in ScheduleNames, TriggerManual(a, name)
  PROVE  IInv'
<1> DEFINE j == [NoJob EXCEPT !.name = name, !.by = "manual", !.at = a]
<1>1. /\ j \in JobType /\ j.name = name /\ j.by = "manual" /\ j.at = a
  BY NoJobType DEF NoJob, JobType, Sources
<1> HIDE DEF j
<1>2. /\ pc' \in [Attempts -> Places]
      /\ pc'[a] = "called"
      /\ \A b \in Attempts \ {a} : pc'[b] = pc[b]
  BY GotoTypes DEF TriggerManual, IInv, Types, Places
<1>3. /\ job' = [job EXCEPT ![a] = j]
      /\ job' \in [Attempts -> JobType]
      /\ job'[a] = j
      /\ \A b \in Attempts \ {a} : job'[b] = job[b]
  BY <1>1 DEF TriggerManual, IInv, Types, j
<1>4. Informed'
  BY <1>1, <1>2, <1>3 DEF Informed, IdOf, RunIds, Sources, IInv
<1>5. UNCHANGED <<catalog, runs, runsSincePrune, world, faults>>
  BY DEF TriggerManual
<1> QED
  BY <1>2, <1>3, <1>4, <1>5 DEF IInv, Types, catalog, world

LEMMA LoadTypes ==
  ASSUME IInv, NEW a \in Attempts, Load(a)
  PROVE  IInv'
<1>1. UNCHANGED <<catalog, runs, runsSincePrune, world, faults>>
  BY DEF Load
<1>2. CASE job[a].name \in DOMAIN schedules
  <2> DEFINE s == schedules[job[a].name]
             l == IF s.overlap THEN "admitted" ELSE "checking"
  <2>1. s \in Schedule
    BY <1>2 DEF IInv, Types, Partial
  <2>2. job' = [job EXCEPT ![a].sched = s] /\ Goto(a, l)
    BY <1>2 DEF Load
  <2> HIDE DEF s
  <2>3. l \in Places /\ l \notin {"idle", "marking", "running"}
    BY DEF Places
  <2>4. pc[a] = "called"
    BY DEF Load
  <2> HIDE DEF l
  <2>5. /\ pc' \in [Attempts -> Places]
        /\ pc'[a] = l
        /\ \A b \in Attempts \ {a} : pc'[b] = pc[b]
    BY <2>2, <2>3, GotoTypes DEF IInv, Types
  <2>6. /\ job' \in [Attempts -> JobType]
        /\ job'[a].name = job[a].name /\ job'[a].by = job[a].by
        /\ job'[a].at = job[a].at
        /\ \A b \in Attempts \ {a} : job'[b] = job[b]
    BY <2>1, <2>2 DEF IInv, Types, JobType
  <2>7. Informed'
    BY <2>3, <2>4, <2>5, <2>6 DEF Informed, IdOf, IInv
  <2> QED
    BY <1>1, <2>5, <2>6, <2>7 DEF IInv, Types, catalog, world
<1>3. CASE job[a].name \notin DOMAIN schedules
  <2>1. Goto(a, "done") /\ UNCHANGED job /\ pc[a] # "idle"
    BY <1>3 DEF Load
  <2>2. Informed'
    BY <2>1, GotoInformed DEF IInv, Places
  <2>3. pc' \in [Attempts -> Places]
    BY <2>1, GotoTypes DEF IInv, Types, Places
  <2> QED
    BY <1>1, <2>1, <2>2, <2>3 DEF IInv, Types, catalog, world
<1> QED
  BY <1>2, <1>3

LEMMA CheckTypes ==
  ASSUME IInv, NEW a \in Attempts, Check(a)
  PROVE  IInv'
<1>1. UNCHANGED <<catalog, runs, runsSincePrune, job, world>> /\ pc[a] # "idle"
  BY DEF Check
<1>2. PICK l \in {"admitted", "refused", "done"} : Goto(a, l)
  BY DEF Check
<1>3. faults' \in 0..MaxFaults
  BY FaultTypes DEF Check, IInv, Types
<1>4. Informed' /\ pc' \in [Attempts -> Places]
  BY <1>1, <1>2, GotoInformed, GotoTypes DEF IInv, Types, Places
<1> QED
  BY <1>1, <1>3, <1>4 DEF IInv, Types, catalog, world

LEMMA SaveSkippedTypes ==
  ASSUME IInv, NEW a \in Attempts, SaveSkipped(a)
  PROVE  IInv'
<1>1. UNCHANGED <<catalog, runsSincePrune, job, world>> /\ pc[a] # "idle"
  BY DEF SaveSkipped
<1>2. PICK l \in {"counting", "done"} : Goto(a, l)
  BY DEF SaveSkipped
<1>3. faults' \in 0..MaxFaults
  BY FaultTypes DEF SaveSkipped, IInv, Types
<1>4. Informed' /\ pc' \in [Attempts -> Places]
  BY <1>1, <1>2, GotoInformed, GotoTypes DEF IInv, Types, Places
<1>5. Partial(runs', RunIds, Run)
  <2>1. IdOf(a) \in RunIds /\ Record(a, "skipped", minute) \in Run
    BY <1>1, RecordType DEF IInv, Types, Outcomes
  <2>2. Partial(Put(runs, IdOf(a), Record(a, "skipped", minute)), RunIds, Run)
    BY <2>1, PutPartial DEF IInv, Types
  <2> QED
    BY <2>2 DEF SaveSkipped, IInv, Types
<1> QED
  BY <1>1, <1>3, <1>4, <1>5 DEF IInv, Types, catalog, world

LEMMA SaveRunningTypes ==
  ASSUME IInv, NEW a \in Attempts, SaveRunning(a)
  PROVE  IInv'
<1>1. /\ UNCHANGED <<catalog, runsSincePrune, world>>
      /\ pc[a] = "admitted"
  BY DEF SaveRunning
<1>2. faults' \in 0..MaxFaults
  BY FaultTypes DEF SaveRunning, IInv, Types
<1>3. Partial(runs', RunIds, Run)
  <2>1. IdOf(a) \in RunIds /\ Record(a, Running, minute) \in Run
    BY <1>1, RecordType DEF IInv, Types
  <2>2. Partial(Put(runs, IdOf(a), Record(a, Running, minute)), RunIds, Run)
    BY <2>1, PutPartial DEF IInv, Types
  <2> QED
    BY <2>2 DEF SaveRunning, IInv, Types
<1>4. CASE UNCHANGED job /\ Goto(a, "done")
  <2>1. Informed' /\ pc' \in [Attempts -> Places]
    BY <1>1, <1>4, GotoInformed, GotoTypes DEF IInv, Types, Places
  <2> QED
    BY <1>1, <1>2, <1>3, <1>4, <2>1 DEF IInv, Types, catalog, world
<1>5. CASE /\ job' = [job EXCEPT ![a].startedAt = minute]
           /\ \E l \in {"marking", "running"} : Goto(a, l)
  <2>1. PICK l \in {"marking", "running"} : Goto(a, l)
    BY <1>5
  <2>2. /\ pc' \in [Attempts -> Places]
        /\ pc'[a] = l
        /\ \A b \in Attempts \ {a} : pc'[b] = pc[b]
    BY <2>1, GotoTypes DEF IInv, Types, Places
  <2>3. /\ job' \in [Attempts -> JobType]
        /\ job'[a].name = job[a].name /\ job'[a].by = job[a].by
        /\ job'[a].at = job[a].at
        /\ job'[a].startedAt = minute
        /\ \A b \in Attempts \ {a} : job'[b] = job[b]
    BY <1>5 DEF IInv, Types, JobType
  <2>4. minute \in Minutes
    BY DEF IInv, Types
  <2>5. Informed'
    <3>1. IdOf(a)' = IdOf(a) /\ IdOf(a) \in RunIds
      BY <1>1, <2>3 DEF IdOf, Informed, IInv
    <3>2. \A b \in Attempts \ {a} : IdOf(b)' = IdOf(b)
      BY <2>3 DEF IdOf
    <3>3. \A m : m \in Minutes' <=> m \in Minutes
      BY DEF Minutes
    <3> QED
      BY <2>2, <2>3, <2>4, <3>1, <3>2, <3>3 DEF Informed, IInv
  <2> QED
    BY <1>1, <1>2, <1>3, <2>2, <2>3, <2>5 DEF IInv, Types, catalog, world
<1> QED
  BY <1>4, <1>5 DEF SaveRunning

LEMMA MarkOneTimeCompletedTypes ==
  ASSUME IInv, NEW a \in Attempts, MarkOneTimeCompleted(a)
  PROVE  IInv'
<1>1. /\ UNCHANGED <<runs, runsSincePrune, job, world>>
      /\ pc[a] = "marking" /\ Goto(a, "running")
  BY DEF MarkOneTimeCompleted
<1>2. faults' \in 0..MaxFaults
  BY FaultTypes DEF MarkOneTimeCompleted, IInv, Types
<1>3. Informed' /\ pc' \in [Attempts -> Places]
  <2>1. job[a].startedAt \in Minutes
    BY <1>1 DEF IInv, Informed
  <2> QED
    BY <1>1, <2>1, GotoInformed, GotoTypes DEF IInv, Types, Places
<1>4. /\ Partial(schedules', ScheduleNames, Schedule)
      /\ Partial(stored', ScheduleNames, Schedule)
      /\ Partial(entries', ScheduleNames, EntryType)
  <2>1. CASE UNCHANGED catalog
    BY <2>1 DEF catalog, IInv, Types
  <2> DEFINE name == job[a].name
             s == [schedules[name] EXCEPT !.completed = TRUE]
  <2>2. CASE /\ name \in DOMAIN schedules
             /\ stored' = Put(stored, name, s)
             /\ schedules' = Put(schedules, name, s)
             /\ entries' = Without(entries, {name})
    <3>1. schedules[name] \in Schedule /\ name \in ScheduleNames
      BY <2>2 DEF IInv, Types, Partial
    <3>2. s \in Schedule
      BY <3>1 DEF Schedule
    <3> HIDE DEF s, name
    <3>3. /\ Partial(Put(stored, name, s), ScheduleNames, Schedule)
          /\ Partial(Put(schedules, name, s), ScheduleNames, Schedule)
      BY <3>1, <3>2, PutPartial DEF IInv, Types
    <3>4. Partial(Without(entries, {name}), ScheduleNames, EntryType)
      BY WithoutPartial DEF IInv, Types
    <3> QED
      BY <2>2, <3>3, <3>4
  <2> QED
    BY <2>1, <2>2 DEF MarkOneTimeCompleted
<1> QED
  BY <1>1, <1>2, <1>3, <1>4 DEF IInv, Types, world

LEMMA FinishTypes ==
  ASSUME IInv, NEW a \in Attempts, Finish(a)
  PROVE  IInv'
<1>1. /\ UNCHANGED <<catalog, runsSincePrune, job, world>>
      /\ pc[a] = "running" /\ Goto(a, "counting")
  BY DEF Finish
<1>2. faults' \in 0..MaxFaults
  BY FaultTypes DEF Finish, IInv, Types
<1>3. Informed' /\ pc' \in [Attempts -> Places]
  BY <1>1, GotoInformed, GotoTypes DEF IInv, Types, Places
<1>4. Partial(runs', RunIds, Run)
  <2>1. job[a].startedAt \in Minutes
    BY <1>1 DEF IInv, Informed
  <2>2. IdOf(a) \in RunIds /\ Record(a, "finished", job[a].startedAt) \in Run
    BY <1>1, <2>1, RecordType DEF IInv, Outcomes
  <2>3. Partial(Put(runs, IdOf(a), Record(a, "finished", job[a].startedAt)), RunIds, Run)
    BY <2>2, PutPartial DEF IInv, Types
  <2> QED
    BY <2>3 DEF Finish, IInv, Types
<1> QED
  BY <1>1, <1>2, <1>3, <1>4 DEF IInv, Types, catalog, world

LEMMA CountRunTypes ==
  ASSUME IInv, NEW a \in Attempts, CountRun(a)
  PROVE  IInv'
<1>1. /\ UNCHANGED <<catalog, runs, job, world, faults>>
      /\ pc[a] = "counting"
  BY DEF CountRun
<1>2. PICK l \in {"pruning", "done"} : Goto(a, l)
  BY DEF CountRun
<1>3. Informed' /\ pc' \in [Attempts -> Places]
  BY <1>1, <1>2, GotoInformed, GotoTypes DEF IInv, Types, Places
<1>4. runsSincePrune' \in 0..(PruneEveryN - 1)
  BY EngineAssumption DEF CountRun, IInv, Types
<1> QED
  BY <1>1, <1>3, <1>4 DEF IInv, Types, catalog, world

LEMMA PruneTypes ==
  ASSUME IInv, NEW a \in Attempts, Prune(a)
  PROVE  IInv'
<1>1. /\ UNCHANGED <<catalog, runsSincePrune, job, world>>
      /\ pc[a] = "pruning" /\ Goto(a, "done")
  BY DEF Prune
<1>2. faults' \in 0..MaxFaults
  BY FaultTypes DEF Prune, IInv, Types
<1>3. Informed' /\ pc' \in [Attempts -> Places]
  BY <1>1, GotoInformed, GotoTypes DEF IInv, Types, Places
<1>4. Partial(runs', RunIds, Run)
  BY PrunedPartial DEF Prune, IInv, Types
<1> QED
  BY <1>1, <1>2, <1>3, <1>4 DEF IInv, Types, catalog, world

LEMMA StepTypes ==
  ASSUME IInv, NEW a \in Attempts, Step(a)
  PROVE  IInv'
  BY LoadTypes, CheckTypes, SaveSkippedTypes, SaveRunningTypes,
     MarkOneTimeCompletedTypes, FinishTypes, CountRunTypes, PruneTypes DEF Step

(* Requests and the environment change no attempt, but for a crash. *)

LEMMA InformedKept ==
  ASSUME Informed, UNCHANGED <<pc, job>>
  PROVE  Informed'
<1>1. \A a \in Attempts : IdOf(a)' = IdOf(a)
  BY DEF IdOf
<1> QED
  BY <1>1 DEF Informed

LEMMA RequestTypes ==
  ASSUME ops \in 0..MaxOps, Request
  PROVE  ops' \in 0..MaxOps
  BY EngineAssumption DEF Request

LEMMA SaveScheduleTypes ==
  ASSUME IInv, NEW original \in ScheduleNames \cup {NoName},
         NEW name \in ScheduleNames, NEW input \in Inputs,
         SaveSchedule(original, name, input)
  PROVE  IInv'
<1> DEFINE keeps == /\ original # NoName
                    /\ input.kind = "once" /\ ~input.completed
                    /\ schedules[original].kind = "once"
                    /\ schedules[original].runAt = input.runAt
           s == IF keeps
                THEN [input EXCEPT !.completed = schedules[original].completed]
                ELSE input
<1>1. s \in Schedule
  <2>1. input \in Schedule
    BY EngineAssumption
  <2>2. ASSUME keeps PROVE schedules[original].completed \in BOOLEAN
    BY <2>2 DEF SaveSchedule, IInv, Types, Partial, Schedule
  <2>3. CASE keeps
    <3> DEFINE done == schedules[original].completed
    <3> HIDE DEF done
    <3>1. done \in BOOLEAN
      BY <2>2, <2>3 DEF done
    <3>2. [input EXCEPT !.completed = done] \in Schedule
      BY <2>1, <3>1 DEF Schedule
    <3> QED
      BY <2>3, <3>2 DEF done
  <2>4. CASE ~keeps
    BY <2>1, <2>4
  <2> QED
    BY <2>3, <2>4
<1>2. /\ stored' = Put(Without(stored, {original}), name, s)
      /\ schedules' = Put(Without(schedules, {original}), name, s)
      /\ entries' = Register(Without(entries, {original}), name, s)
  BY DEF SaveSchedule
<1> HIDE DEF s
<1>3. /\ Partial(Without(stored, {original}), ScheduleNames, Schedule)
      /\ Partial(Without(schedules, {original}), ScheduleNames, Schedule)
      /\ Partial(Without(entries, {original}), ScheduleNames, EntryType)
  BY WithoutPartial DEF IInv, Types
<1>4. /\ Partial(stored', ScheduleNames, Schedule)
      /\ Partial(schedules', ScheduleNames, Schedule)
  BY <1>1, <1>2, <1>3, PutPartial
<1>5. Partial(entries', ScheduleNames, EntryType)
  BY <1>1, <1>2, <1>3, RegisterPartial DEF EntryType
<1>6. /\ UNCHANGED <<runs, attempts, up, minute, fires, crashes, faults>>
      /\ ops' \in 0..MaxOps
  BY RequestTypes DEF SaveSchedule, IInv, Types
<1>7. Informed'
  BY <1>6, InformedKept DEF IInv, attempts
<1> QED
  BY <1>4, <1>5, <1>6, <1>7 DEF IInv, Types, attempts

LEMMA DeleteScheduleTypes ==
  ASSUME IInv, NEW name \in ScheduleNames, DeleteSchedule(name)
  PROVE  IInv'
<1>1. /\ Partial(stored', ScheduleNames, Schedule)
      /\ Partial(schedules', ScheduleNames, Schedule)
      /\ Partial(entries', ScheduleNames, EntryType)
  BY WithoutPartial DEF DeleteSchedule, IInv, Types
<1>2. /\ UNCHANGED <<runs, attempts, up, minute, fires, crashes, faults>>
      /\ ops' \in 0..MaxOps
  BY RequestTypes DEF DeleteSchedule, IInv, Types
<1>3. Informed'
  BY <1>2, InformedKept DEF IInv, attempts
<1> QED
  BY <1>1, <1>2, <1>3 DEF IInv, Types, attempts

LEMMA TogglePauseTypes ==
  ASSUME IInv, NEW name \in ScheduleNames, TogglePause(name)
  PROVE  IInv'
<1> DEFINE s == [schedules[name] EXCEPT !.paused = ~@]
<1>1. s \in Schedule
  BY DEF TogglePause, IInv, Types, Partial, Schedule
<1>2. /\ stored' = Put(stored, name, s)
      /\ schedules' = Put(schedules, name, s)
      /\ entries' = Register(entries, name, s)
  BY DEF TogglePause
<1> HIDE DEF s
<1>3. /\ Partial(stored', ScheduleNames, Schedule)
      /\ Partial(schedules', ScheduleNames, Schedule)
  BY <1>1, <1>2, PutPartial DEF IInv, Types
<1>4. Partial(entries', ScheduleNames, EntryType)
  BY <1>1, <1>2, RegisterPartial DEF IInv, Types, EntryType
<1>5. /\ UNCHANGED <<runs, attempts, up, minute, fires, crashes, faults>>
      /\ ops' \in 0..MaxOps
  BY RequestTypes DEF TogglePause, IInv, Types
<1>6. Informed'
  BY <1>5, InformedKept DEF IInv, attempts
<1> QED
  BY <1>3, <1>4, <1>5, <1>6 DEF IInv, Types, attempts

LEMMA ClearRunsTypes ==
  ASSUME IInv, ClearRuns
  PROVE  IInv'
<1>1. Partial(runs', RunIds, Run)
  BY DEF ClearRuns, Partial, EmptyLog
<1>2. /\ UNCHANGED <<catalog, attempts, up, minute, fires, crashes, faults>>
      /\ ops' \in 0..MaxOps
  BY RequestTypes DEF ClearRuns, IInv, Types
<1>3. Informed'
  BY <1>2, InformedKept DEF IInv, attempts
<1> QED
  BY <1>1, <1>2, <1>3 DEF IInv, Types, attempts, catalog

LEMMA NextMinuteTypes ==
  ASSUME IInv, NextMinute
  PROVE  IInv'
<1>1. /\ UNCHANGED <<catalog, runs, attempts, up, ops, crashes, faults>>
      /\ minute' \in Minutes
      /\ fires' \in [ScheduleNames -> 0..FiresPerMinute]
  BY EngineAssumption DEF NextMinute, IInv, Types, Minutes
<1>2. Informed'
  BY <1>1, InformedKept DEF IInv, attempts
<1> QED
  BY <1>1, <1>2 DEF IInv, Types, attempts, catalog

LEMMA CrashTypes ==
  ASSUME IInv, Crash
  PROVE  IInv'
<1>1. /\ UNCHANGED <<stored, runs, job, runsSincePrune, minute, fires, ops, faults>>
      /\ up' = FALSE /\ crashes < MaxCrashes /\ crashes' = crashes + 1
  BY DEF Crash
<1>2. \A a \in Attempts : pc'[a] \in {"idle", "done", "lost"}
                        /\ (pc'[a] = "idle" => pc[a] = "idle")
                        /\ (pc[a] = "idle" => pc'[a] = "idle")
  BY DEF Crash, IInv, Types
<1>3. pc' \in [Attempts -> Places]
  BY DEF Crash, IInv, Types, Places
<1>4. Informed'
  <2>1. \A a \in Attempts : IdOf(a)' = IdOf(a)
    BY <1>1 DEF IdOf
  <2> QED
    BY <1>2, <2>1 DEF Informed, IInv
<1>5. /\ Partial(schedules', ScheduleNames, Schedule)
      /\ Partial(entries', ScheduleNames, EntryType)
  BY DEF Crash, NoSchedules, NoEntries, Partial
<1>6. crashes' \in 0..MaxCrashes
  BY <1>1, EngineAssumption DEF IInv, Types
<1> QED
  BY <1>1, <1>3, <1>4, <1>5, <1>6 DEF IInv, Types

LEMMA RestartTypes ==
  ASSUME IInv, Restart
  PROVE  IInv'
<1>1. Partial(Loaded, ScheduleNames, Schedule)
  BY LoadedPartial, EngineAssumption DEF IInv, Types
<1>2. Partial(RegisterAll(Loaded), ScheduleNames, EntryType)
  BY <1>1, RegisterAllPartial DEF EntryType
<1>3. Partial(runs', RunIds, Run)
  BY PrunedPartial DEF Restart, IInv, Types
<1>4. /\ UNCHANGED <<pc, job, minute, fires, ops, crashes, faults>>
      /\ runsSincePrune' \in 0..(PruneEveryN - 1)
      /\ up' \in BOOLEAN
  BY EngineAssumption DEF Restart
<1>5. Informed'
  BY <1>4, InformedKept DEF IInv
<1> QED
  BY <1>1, <1>2, <1>3, <1>4, <1>5 DEF Restart, IInv, Types

LEMMA NextTypes == IInv /\ [Next]_vars => IInv'
<1> SUFFICES ASSUME IInv, [Next]_vars PROVE IInv'
  OBVIOUS
<1>1. CASE UNCHANGED vars
  <2>1. Informed'
    BY <1>1, InformedKept DEF IInv, vars
  <2> QED
    BY <1>1, <2>1 DEF IInv, Types, vars
<1>2. CASE \E a \in Attempts, n \in ScheduleNames : Fire(a, n) \/ TriggerManual(a, n)
  BY <1>2, FireTypes, TriggerManualTypes
<1>3. CASE \E a \in Attempts : Step(a)
  BY <1>3, StepTypes
<1>4. CASE \E o \in ScheduleNames \cup {NoName}, n \in ScheduleNames, s \in Inputs :
             SaveSchedule(o, n, s)
  BY <1>4, SaveScheduleTypes
<1>5. CASE \E n \in ScheduleNames : DeleteSchedule(n) \/ TogglePause(n)
  BY <1>5, DeleteScheduleTypes, TogglePauseTypes
<1>6. CASE ClearRuns \/ NextMinute \/ Crash \/ Restart
  BY <1>6, ClearRunsTypes, NextMinuteTypes, CrashTypes, RestartTypes
<1> QED
  BY <1>1, <1>2, <1>3, <1>4, <1>5, <1>6 DEF Next

\* Whatever requests, fires, crashes and failing store operations come in
\* which order: every value keeps its type, and the counter of maybePruneRuns
\* stays below runPruneEveryN.
THEOREM TypeCorrectness == Spec => []TypeOK
<1>1. Init => IInv
  BY InitTypes
<1>2. IInv /\ [Next]_vars => IInv'
  BY NextTypes
<1>3. IInv => TypeOK
  BY TypesAreTypeOK DEF IInv
<1> QED
  BY <1>1, <1>2, <1>3, PTL DEF Spec

-----------------------------------------------------------------------------
(* Cron entries follow the schedules. *)

Follow(es, ss) ==
    /\ DOMAIN es = {n \in DOMAIN ss : Active(ss[n])}
    /\ \A n \in DOMAIN es : es[n].copy = ss[n]

LEMMA RegisterFollows ==
  ASSUME NEW es, NEW ss, Follow(es, ss), NEW name, NEW s
  PROVE  Follow(Register(es, name, s), Put(ss, name, s))
<1>1. /\ DOMAIN Put(ss, name, s) = DOMAIN ss \cup {name}
      /\ Put(ss, name, s)[name] = s
      /\ \A n \in DOMAIN ss \ {name} : Put(ss, name, s)[n] = ss[n]
  BY DEF Put
<1>2. CASE Active(s)
  <2>1. /\ DOMAIN Put(es, name, Entry(s)) = DOMAIN es \cup {name}
        /\ Put(es, name, Entry(s))[name] = Entry(s)
        /\ \A n \in DOMAIN es \ {name} : Put(es, name, Entry(s))[n] = es[n]
    BY DEF Put
  <2>2. Entry(s).copy = s
    BY DEF Entry
  <2>3. Register(es, name, s) = Put(es, name, Entry(s))
    BY <1>2 DEF Register
  <2> QED
    BY <1>1, <1>2, <2>1, <2>2, <2>3 DEF Follow
<1>3. CASE ~Active(s)
  <2>1. /\ DOMAIN Without(es, {name}) = DOMAIN es \ {name}
        /\ \A n \in DOMAIN es \ {name} : Without(es, {name})[n] = es[n]
    BY WithoutFacts
  <2>2. Register(es, name, s) = Without(es, {name})
    BY <1>3 DEF Register
  <2> DEFINE g == Put(ss, name, s)
             h == Without(es, {name})
  <2> HIDE DEF g, h
  <2>3. /\ DOMAIN g = DOMAIN ss \cup {name}
        /\ g[name] = s
        /\ \A n \in DOMAIN ss \ {name} : g[n] = ss[n]
    BY <1>1 DEF g
  <2>4. /\ DOMAIN h = DOMAIN es \ {name}
        /\ \A n \in DOMAIN es \ {name} : h[n] = es[n]
    BY <2>1 DEF h
  <2>5. DOMAIN h = {n \in DOMAIN g : Active(g[n])}
    BY <1>3, <2>3, <2>4 DEF Follow
  <2>6. \A n \in DOMAIN h : h[n].copy = g[n]
    BY <2>3, <2>4 DEF Follow
  <2> QED
    BY <2>2, <2>5, <2>6 DEF Follow, g, h
<1> QED
  BY <1>2, <1>3

LEMMA WithoutFollows ==
  ASSUME NEW es, NEW ss, Follow(es, ss), NEW X
  PROVE  Follow(Without(es, X), Without(ss, X))
<1>1. /\ DOMAIN Without(es, X) = DOMAIN es \ X
      /\ \A n \in DOMAIN es \ X : Without(es, X)[n] = es[n]
  BY WithoutFacts
<1>2. /\ DOMAIN Without(ss, X) = DOMAIN ss \ X
      /\ \A n \in DOMAIN ss \ X : Without(ss, X)[n] = ss[n]
  BY WithoutFacts
<1> QED
  BY <1>1, <1>2 DEF Follow

LEMMA RegisterAllFollows ==
  ASSUME NEW ss
  PROVE  Follow(RegisterAll(ss), ss)
  BY DEF Follow, RegisterAll, Entry

\* What a running process keeps true of its entries.
Followed == up => Follow(entries, schedules)

LEMMA FollowedIsEntriesFollowSchedules == Followed <=> EntriesFollowSchedules
  BY DEF Followed, Follow, Active, EntriesFollowSchedules

LEMMA FollowedInit == Init => Followed
  BY RegisterAllFollows DEF Init, Followed

LEMMA FollowedNext == Types /\ Followed /\ [Next]_vars => Followed'
<1> SUFFICES ASSUME Types, Followed, [Next]_vars PROVE Followed'
  OBVIOUS
<1>1. CASE UNCHANGED <<up, schedules, entries>>
  BY <1>1 DEF Followed, Follow
<1>2. CASE \E a \in Attempts, n \in ScheduleNames : Fire(a, n)
  <2>1. PICK a \in Attempts, n \in ScheduleNames : Fire(a, n)
    BY <1>2
  <2>2. Follow(entries, schedules) /\ UNCHANGED <<up, schedules>>
    BY <2>1 DEF Fire, Followed
  <2>3. n \in DOMAIN entries /\ entries[n] \in EntryType
    BY <2>1 DEF Fire, Types, Partial
  <2> DEFINE e == [entries[n] EXCEPT !.armed = FALSE]
  <2>4. e.copy = entries[n].copy
    BY <2>3 DEF EntryType, EntryOf
  <2>5. entries' = entries \/ entries' = [entries EXCEPT ![n] = e]
    BY <2>1 DEF Fire
  <2> HIDE DEF e
  <2>6. /\ DOMAIN entries' = DOMAIN entries
        /\ \A m \in DOMAIN entries : entries'[m].copy = entries[m].copy
    BY <2>3, <2>4, <2>5
  <2> QED
    BY <2>2, <2>6 DEF Followed, Follow
<1>3. CASE \E a \in Attempts : MarkOneTimeCompleted(a)
  <2>1. PICK a \in Attempts : MarkOneTimeCompleted(a)
    BY <1>3
  <2>2. up /\ up' = up
    BY <2>1 DEF MarkOneTimeCompleted, world
  <2>3. CASE UNCHANGED catalog
    BY <2>2, <2>3 DEF Followed, Follow, catalog
  <2> DEFINE name == job[a].name
             s == [schedules[name] EXCEPT !.completed = TRUE]
  <2>4. CASE /\ name \in DOMAIN schedules
             /\ schedules[name].kind = "once"
             /\ schedules' = Put(schedules, name, s)
             /\ entries' = Without(entries, {name})
    <3>1. schedules[name] \in Schedule
      BY <2>4 DEF Types, Partial
    <3>2. ~Active(s)
      BY <2>4, <3>1 DEF Active, Schedule
    <3> HIDE DEF s, name
    <3>3. Follow(Register(entries, name, s), schedules')
      BY <2>2, <2>4, RegisterFollows DEF Followed
    <3> QED
      BY <2>4, <3>2, <3>3 DEF Register, Followed
  <2> QED
    BY <2>1, <2>3, <2>4 DEF MarkOneTimeCompleted
<1>4. CASE \E o \in ScheduleNames \cup {NoName}, n \in ScheduleNames, i \in Inputs :
             SaveSchedule(o, n, i)
  <2>1. PICK o \in ScheduleNames \cup {NoName}, n \in ScheduleNames, i \in Inputs :
             SaveSchedule(o, n, i)
    BY <1>4
  <2>2. PICK s : /\ schedules' = Put(Without(schedules, {o}), n, s)
                 /\ entries' = Register(Without(entries, {o}), n, s)
    BY <2>1 DEF SaveSchedule
  <2>3. up
    BY <2>1 DEF SaveSchedule, Request
  <2>4. Follow(Without(entries, {o}), Without(schedules, {o}))
    BY <2>3, WithoutFollows DEF Followed
  <2> QED
    BY <2>2, <2>4, RegisterFollows DEF Followed
<1>5. CASE \E n \in ScheduleNames : DeleteSchedule(n)
  BY <1>5, WithoutFollows DEF DeleteSchedule, Request, Followed
<1>6. CASE \E n \in ScheduleNames : TogglePause(n)
  <2>1. PICK n \in ScheduleNames : TogglePause(n)
    BY <1>6
  <2>2. PICK s : schedules' = Put(schedules, n, s) /\ entries' = Register(entries, n, s)
    BY <2>1 DEF TogglePause
  <2> QED
    BY <2>1, <2>2, RegisterFollows DEF TogglePause, Request, Followed
<1>7. CASE Crash
  BY <1>7 DEF Crash, Followed
<1>8. CASE Restart
  BY <1>8, RegisterAllFollows DEF Restart, Followed
<1>9. CASE ClearRuns \/ NextMinute
  BY <1>1, <1>9 DEF ClearRuns, NextMinute, catalog
<1>10. CASE \E a \in Attempts, n \in ScheduleNames : TriggerManual(a, n)
  BY <1>1, <1>10 DEF TriggerManual, catalog, world
<1>11. CASE \E a \in Attempts : Step(a) /\ ~MarkOneTimeCompleted(a)
  BY <1>1, <1>11 DEF Step, Load, Check, SaveSkipped, SaveRunning, Finish, CountRun,
                     Prune, catalog, world
<1>12. CASE UNCHANGED vars
  BY <1>1, <1>12 DEF vars
<1> QED
  BY <1>2, <1>3, <1>4, <1>5, <1>6, <1>7, <1>8, <1>9, <1>10, <1>11, <1>12 DEF Next

\* Whatever saves, renames, pauses, deletions, completions and restarts come in
\* which order: the cron entries of a running process are those of exactly the
\* schedules that are due to run, with their present definition.
THEOREM EntriesAlwaysFollow == Spec => []EntriesFollowSchedules
<1>1. Init => IInv /\ Followed
  BY InitTypes, FollowedInit
<1>2. (IInv /\ Followed) /\ [Next]_vars => (IInv /\ Followed)'
  BY NextTypes, FollowedNext DEF IInv
<1>3. Followed => EntriesFollowSchedules
  BY FollowedIsEntriesFollowSchedules
<1> QED
  BY <1>1, <1>2, <1>3, PTL DEF Spec
=============================================================================
