-------------------------- MODULE EngineRunsProofs --------------------------
(***************************************************************************)
(* Proofs about attempts and their records: what makes the check of        *)
(* HasRunningRun sound, what it takes for a running record to be owned and *)
(* for a final one to stay, how large the log can become, which failures   *)
(* can block a schedule, and how often a one-time schedule runs.  Each     *)
(* theorem names the circumstances it needs; the runs of MCEngine that     *)
(* expect a violation show that without them it fails.                     *)
(***************************************************************************)
EXTENDS EngineProofs

-----------------------------------------------------------------------------
(* What a step does to the attempts other than its own. *)

\* Only attempt a moves, and it keeps the run id it has.
Moves(a) ==
    /\ \A b \in Attempts \ {a} : pc'[b] = pc[b] /\ job'[b] = job[b]
    /\ pc[a] # "idle" => IdOf(a)' = IdOf(a)

LEMMA StepMoves ==
  ASSUME Types, NEW a \in Attempts, Step(a)
  PROVE  Moves(a) /\ pc[a] # "idle" /\ pc'[a] # "idle"
<1>1. CASE UNCHANGED job
  <2>1. PICK l \in Places \ {"idle"} : Goto(a, l)
    BY DEF Step, Load, Check, SaveSkipped, SaveRunning, MarkOneTimeCompleted,
           Finish, CountRun, Prune, Places
  <2>2. pc[a] # "idle"
    BY DEF Step, Load, Check, SaveSkipped, SaveRunning, MarkOneTimeCompleted,
           Finish, CountRun, Prune
  <2> QED
    BY <1>1, <2>1, <2>2, GotoTypes DEF Moves, Types, IdOf
<1>2. CASE Load(a)
  <2>1. pc[a] # "idle" /\ \E l \in Places \ {"idle"} : Goto(a, l)
    BY <1>2 DEF Load, Places
  <2>2. \/ UNCHANGED job
        \/ \E s : job' = [job EXCEPT ![a].sched = s]
    BY <1>2 DEF Load
  <2>3. /\ \A b \in Attempts \ {a} : job'[b] = job[b]
        /\ job'[a].name = job[a].name /\ job'[a].by = job[a].by
        /\ job'[a].at = job[a].at
    BY <2>2 DEF Types, JobType
  <2> QED
    BY <2>1, <2>3, GotoTypes DEF Moves, Types, IdOf
<1>3. CASE SaveRunning(a)
  <2>1. pc[a] # "idle" /\ \E l \in Places \ {"idle"} : Goto(a, l)
    BY <1>3 DEF SaveRunning, Places
  <2>2. \/ UNCHANGED job
        \/ job' = [job EXCEPT ![a].startedAt = minute]
    BY <1>3 DEF SaveRunning
  <2>3. /\ \A b \in Attempts \ {a} : job'[b] = job[b]
        /\ job'[a].name = job[a].name /\ job'[a].by = job[a].by
        /\ job'[a].at = job[a].at
    BY <2>2 DEF Types, JobType
  <2> QED
    BY <2>1, <2>3, GotoTypes DEF Moves, Types, IdOf
<1> QED
  BY <1>1, <1>2, <1>3 DEF Step, Check, SaveSkipped, MarkOneTimeCompleted,
                          Finish, CountRun, Prune

\* A new attempt starts from idle.
LEMMA BeginMoves ==
  ASSUME Types, NEW a \in Attempts, NEW n \in ScheduleNames,
         Fire(a, n) \/ TriggerManual(a, n)
  PROVE  /\ Moves(a) /\ pc[a] = "idle" /\ pc'[a] = "called"
         /\ UNCHANGED <<runs, minute>>
<1>1. pc[a] = "idle" /\ Goto(a, "called") /\ UNCHANGED <<runs, minute>>
  BY DEF Fire, TriggerManual, world
<1>2. \E j : job' = [job EXCEPT ![a] = j]
  BY DEF Fire, TriggerManual
<1>3. \A b \in Attempts \ {a} : job'[b] = job[b]
  BY <1>2 DEF Types
<1> QED
  BY <1>1, <1>3, GotoTypes DEF Moves, Types, Places

\* What requests and the clock leave alone.
LEMMA OthersKeep ==
  ASSUME NEW o, NEW n, NEW i,
         SaveSchedule(o, n, i) \/ DeleteSchedule(n) \/ TogglePause(n) \/ NextMinute
  PROVE  UNCHANGED <<pc, job, runs>>
  BY DEF SaveSchedule, DeleteSchedule, TogglePause, NextMinute, attempts

\* Pruning only removes records, and never one that is running.
LEMMA PrunedKeeps ==
  ASSUME NEW new \in Pruned
  PROVE  /\ DOMAIN new \subseteq DOMAIN runs
         /\ \A id \in DOMAIN new : new[id] = runs[id]
         /\ \A id : IsRunning(id) => id \in DOMAIN new
<1>1. PICK victims \in PruneVictims(runs, Cutoff, MaxRecords) : new = Without(runs, victims)
  BY DEF Pruned
<1>2. victims \subseteq Completed(runs)
  BY DEF PruneVictims
<1>3. /\ DOMAIN new = DOMAIN runs \ victims
      /\ \A id \in DOMAIN runs \ victims : new[id] = runs[id]
  BY <1>1, WithoutFacts
<1> QED
  BY <1>2, <1>3 DEF Completed, IsRunning

-----------------------------------------------------------------------------
(* A running record has an owner. *)

LEMMA NoFault ==
  ASSUME MaxFaults = 0, faults \in 0..MaxFaults
  PROVE  ~Fault
  BY DEF Fault

LEMMA OwnerNext ==
  ASSUME MaxCrashes = 0, MaxFaults = 0, Types, RunningRecordHasOwner, [Next]_vars
  PROVE  RunningRecordHasOwner'
<1> USE DEF RunningRecordHasOwner, IsRunning, Live
<1>1. ~Fault
  BY NoFault DEF Types
<1>2. ASSUME NEW a \in Attempts, Moves(a), ~Live(a), DOMAIN runs' \subseteq DOMAIN runs,
             \A id \in DOMAIN runs' : runs'[id] = runs[id]
      PROVE  RunningRecordHasOwner'
  BY <1>2 DEF Moves, IdOf
<1>3. CASE UNCHANGED <<pc, job, runs>>
  BY <1>3 DEF IdOf
<1>4. CASE \E a \in Attempts, n \in ScheduleNames : Fire(a, n) \/ TriggerManual(a, n)
  BY <1>2, <1>4, BeginMoves
<1>5. CASE \E a \in Attempts : Load(a) \/ Check(a) \/ CountRun(a)
  <2>1. PICK a \in Attempts : Load(a) \/ Check(a) \/ CountRun(a)
    BY <1>5
  <2>2. Moves(a) /\ ~Live(a) /\ runs' = runs
    BY <2>1, StepMoves DEF Step, Load, Check, CountRun
  <2> QED
    BY <1>2, <2>2
<1>6. CASE \E a \in Attempts : SaveSkipped(a)
  <2>1. PICK a \in Attempts : SaveSkipped(a)
    BY <1>6
  <2>2. Moves(a) /\ ~Live(a)
    BY <2>1, StepMoves DEF Step, SaveSkipped
  <2> DEFINE rec == Record(a, "skipped", minute)
             new == Put(runs, IdOf(a), rec)
  <2>3. runs' = new
    BY <1>1, <2>1 DEF SaveSkipped
  <2>4. rec.status # Running
    BY DEF Record, Running
  <2> HIDE DEF rec
  <2>5. /\ DOMAIN new = DOMAIN runs \cup {IdOf(a)}
        /\ new[IdOf(a)] = rec
        /\ \A id \in DOMAIN runs \ {IdOf(a)} : new[id] = runs[id]
    BY DEF Put
  <2> QED
    BY <2>2, <2>3, <2>4, <2>5 DEF Moves, IdOf
<1>7. CASE \E a \in Attempts : SaveRunning(a)
  <2>1. PICK a \in Attempts : SaveRunning(a)
    BY <1>7
  <2>2. /\ Moves(a) /\ pc[a] = "admitted" /\ IdOf(a)' = IdOf(a)
        /\ \E l \in {"marking", "running"} : Goto(a, l)
        /\ runs' = Put(runs, IdOf(a), Record(a, Running, minute))
    BY <1>1, <2>1, StepMoves DEF Step, SaveRunning, Moves
  <2>3. pc'[a] \in {"marking", "running"}
    BY <2>2 DEF Goto, Types
  <2>4. /\ DOMAIN runs' = DOMAIN runs \cup {IdOf(a)}
        /\ \A id \in DOMAIN runs \ {IdOf(a)} : runs'[id] = runs[id]
    BY <2>2 DEF Put
  <2> QED
    BY <2>2, <2>3, <2>4 DEF Moves, IdOf
<1>8. CASE \E a \in Attempts : MarkOneTimeCompleted(a)
  <2>1. PICK a \in Attempts : MarkOneTimeCompleted(a)
    BY <1>8
  <2>2. /\ Moves(a) /\ pc[a] = "marking" /\ IdOf(a)' = IdOf(a)
        /\ Goto(a, "running") /\ UNCHANGED runs
    BY <2>1, StepMoves DEF Step, MarkOneTimeCompleted, Moves
  <2>3. pc'[a] = "running"
    BY <2>2 DEF Goto, Types
  <2> QED
    BY <2>2, <2>3 DEF Moves, IdOf
<1>9. CASE \E a \in Attempts : Finish(a)
  <2>1. PICK a \in Attempts : Finish(a)
    BY <1>9
  <2>2. Moves(a)
    BY <2>1, StepMoves DEF Step
  <2> DEFINE rec == Record(a, "finished", job[a].startedAt)
  <2>3. runs' = Put(runs, IdOf(a), rec)
    BY <1>1, <2>1 DEF Finish
  <2>4. rec.status # Running
    BY DEF Record, Running
  <2> HIDE DEF rec
  <2>5. /\ DOMAIN runs' = DOMAIN runs \cup {IdOf(a)}
        /\ runs'[IdOf(a)] = rec
        /\ \A id \in DOMAIN runs \ {IdOf(a)} : runs'[id] = runs[id]
    BY <2>3 DEF Put
  <2> QED
    BY <2>2, <2>4, <2>5 DEF Moves, IdOf
<1>10. CASE \E a \in Attempts : Prune(a)
  <2>1. PICK a \in Attempts : Prune(a)
    BY <1>10
  <2>2. Moves(a) /\ ~Live(a) /\ runs' \in Pruned
    BY <1>1, <2>1, StepMoves DEF Step, Prune
  <2> QED
    BY <1>2, <2>2, PrunedKeeps
<1>11. CASE Restart
  <2>1. runs' \in Pruned /\ UNCHANGED <<pc, job>>
    BY <1>11 DEF Restart
  <2> QED
    BY <2>1, PrunedKeeps DEF IdOf
<1>12. CASE ClearRuns
  BY <1>12 DEF ClearRuns, EmptyLog
<1>13. ~Crash
  BY DEF Crash, Types
<1> QED
  BY <1>3, <1>4, <1>5, <1>6, <1>7, <1>8, <1>9, <1>10, <1>11, <1>12, <1>13, OthersKeep
     DEF Next, Step, vars

\* Without crashes and failing store operations, whatever else happens: every
\* record in the log that says running belongs to an attempt that still runs.
\* No schedule stays blocked by the no-overlap check, not even after the log
\* was cleared under a run, or two attempts shared an id.
THEOREM RunningRecordsAreOwned ==
  ASSUME MaxCrashes = 0, MaxFaults = 0
  PROVE  Spec => []RunningRecordHasOwner
<1>1. Init => IInv /\ RunningRecordHasOwner
  BY InitTypes DEF Init, RunningRecordHasOwner, IsRunning, EmptyLog
<1>2. (IInv /\ RunningRecordHasOwner) /\ [Next]_vars => (IInv /\ RunningRecordHasOwner)'
  BY NextTypes, OwnerNext DEF IInv
<1> QED
  BY <1>1, <1>2, PTL DEF Spec

-----------------------------------------------------------------------------
(* Every live run is recorded, and the check sees it. *)

\* The circumstances in which no two attempts share a run id but the fires of a
\* one-time schedule for one time.
Orderly == ~ClearAllowed /\ FiresPerMinute = 1

\* A manual run is named after its own request; a fire after a minute that is
\* past, or after this one, in which its schedule has then fired.  The times in
\* shared are excepted: those of one-time schedules, which can fire again.
Origins(shared) ==
    \A a \in Attempts : pc[a] # "idle" =>
        /\ job[a].by = "manual" => job[a].at = a
        /\ job[a].by = "scheduler" /\ job[a].at \notin shared =>
               /\ job[a].at \in Minutes /\ job[a].at <= minute
               /\ job[a].at = minute => fires[job[a].name] >= 1

UniqueIds(shared) ==
    \A a, b \in Attempts :
        /\ pc[a] # "idle" /\ pc[b] # "idle"
        /\ IdOf(a) = IdOf(b) /\ job[a].at \notin shared
        => a = b

\* The log files each record under an id of its own schedule.
Labelled == \A id \in DOMAIN runs : runs[id].schedule = id.schedule

\* The names and times of attempts that have begun are fixed.
LEMMA OriginsKept ==
  ASSUME NEW shared, UniqueIds(shared), Origins(shared), UNCHANGED <<minute, fires>>,
         \A a \in Attempts : pc'[a] # "idle" => pc[a] # "idle" /\ IdOf(a)' = IdOf(a)
  PROVE  UniqueIds(shared)' /\ Origins(shared)'
<1>1. \A a \in Attempts : IdOf(a)' = IdOf(a) =>
          job'[a].name = job[a].name /\ job'[a].by = job[a].by /\ job'[a].at = job[a].at
  BY DEF IdOf
<1>2. UniqueIds(shared)'
  BY <1>1 DEF UniqueIds
<1>3. ASSUME NEW a \in Attempts, pc'[a] # "idle"
      PROVE  /\ job'[a].by = "manual" => job'[a].at = a
             /\ job'[a].by = "scheduler" /\ job'[a].at \notin shared =>
                  /\ job'[a].at \in Minutes /\ job'[a].at <= minute
                  /\ job'[a].at = minute => fires[job'[a].name] >= 1
  BY <1>1, <1>3 DEF Origins
<1>4. \A m : m \in Minutes' <=> m \in Minutes
  BY DEF Minutes
<1>5. Origins(shared)'
  BY <1>3, <1>4 DEF Origins
<1> QED
  BY <1>2, <1>5

LEMMA FireOrigins ==
  ASSUME FiresPerMinute = 1, Types, Informed,
         NEW shared, UniqueIds(shared), Origins(shared),
         NEW a \in Attempts, NEW n \in ScheduleNames, Fire(a, n),
         entries[n].copy.kind = "once" => entries[n].copy.runAt \in shared
  PROVE  UniqueIds(shared)' /\ Origins(shared)'
<1> DEFINE t == ScheduledAt(entries[n].copy)
<1>1. /\ t \in shared \/ (t = minute /\ fires[n] = 0 /\ fires'[n] = 1)
      /\ \A m \in ScheduleNames : fires'[m] >= fires[m]
      /\ minute' = minute
  <2>1. \A m \in ScheduleNames : fires[m] \in 0..1
    BY DEF Types
  <2>2. CASE entries[n].copy.kind = "once"
    BY <2>1, <2>2 DEF Fire, ScheduledAt
  <2>3. CASE entries[n].copy.kind # "once"
    <3>1. fires[n] < 1 /\ fires' = [fires EXCEPT ![n] = @ + 1]
      BY <2>3 DEF Fire
    <3> QED
      BY <2>1, <2>3, <3>1 DEF Fire, ScheduledAt, Types
  <2> QED
    BY <2>2, <2>3
<1>2. /\ job'[a].name = n /\ job'[a].by = "scheduler" /\ job'[a].at = t
      /\ \A b \in Attempts \ {a} : job'[b] = job[b]
  <2> DEFINE j == [NoJob EXCEPT !.name = n, !.at = t]
  <2>1. j.name = n /\ j.by = "scheduler" /\ j.at = t
    BY DEF NoJob
  <2>2. job' = [job EXCEPT ![a] = j]
    BY DEF Fire
  <2> HIDE DEF j, t
  <2> QED
    BY <2>1, <2>2 DEF Types
<1> HIDE DEF t
<1>3. /\ pc'[a] = "called"
      /\ \A b \in Attempts \ {a} : pc'[b] = pc[b]
  BY GotoTypes DEF Fire, Types, Places
<1>4. ASSUME NEW b \in Attempts \ {a}, pc[b] # "idle", t \notin shared
      PROVE  IdOf(a)' # IdOf(b)'
  <2>1. CASE job[b].by = "scheduler" /\ job[b].name = n /\ job[b].at \notin shared
    <3>1. job[b].at # minute
      BY <1>1, <1>4, <2>1 DEF Origins
    <3> QED
      BY <1>1, <1>2, <1>4, <3>1 DEF IdOf
  <2>2. CASE job[b].by # "scheduler" \/ job[b].name # n \/ job[b].at \in shared
    BY <1>2, <1>4, <2>2 DEF IdOf
  <2> QED
    BY <2>1, <2>2
<1>5. /\ \A b \in Attempts \ {a} : IdOf(b)' = IdOf(b) /\ job'[b].at = job[b].at
      /\ \A b, c \in Attempts : IdOf(b)' = IdOf(c)' => job'[b].at = job'[c].at
  BY <1>2 DEF IdOf
<1>6. UniqueIds(shared)'
  <2>1. ASSUME NEW b \in Attempts, NEW c \in Attempts,
               pc'[b] # "idle", pc'[c] # "idle", IdOf(b)' = IdOf(c)',
               job'[b].at \notin shared
        PROVE  b = c
    BY <1>2, <1>3, <1>4, <1>5, <2>1 DEF UniqueIds
  <2> QED
    BY <2>1 DEF UniqueIds
<1>7. ASSUME NEW b \in Attempts, pc'[b] # "idle"
      PROVE  /\ job'[b].by = "manual" => job'[b].at = b
             /\ job'[b].by = "scheduler" /\ job'[b].at \notin shared =>
                  /\ job'[b].at \in Minutes /\ job'[b].at <= minute
                  /\ job'[b].at = minute => fires'[job'[b].name] >= 1
  <2>1. CASE b = a
    BY <1>1, <1>2, <2>1 DEF Types, Minutes
  <2>2. CASE b # a
    <3>1. pc[b] # "idle" /\ job'[b] = job[b]
      BY <1>2, <1>3, <1>7, <2>2
    <3>2. job[b].by = "scheduler" => job[b].name \in ScheduleNames
      BY <3>1 DEF Informed, RunIds, IdOf
    <3>3. \A m \in ScheduleNames : fires[m] \in Nat /\ fires'[m] \in Nat
      BY <1>1 DEF Types, Fire
    <3> QED
      BY <1>1, <3>1, <3>2, <3>3 DEF Origins
  <2> QED
    BY <2>1, <2>2
<1>8. \A m : m \in Minutes' <=> m \in Minutes
  BY DEF Minutes
<1>9. Origins(shared)'
  BY <1>1, <1>7, <1>8 DEF Origins
<1> QED
  BY <1>6, <1>9

LEMMA TriggerManualOrigins ==
  ASSUME Types, NEW shared, UniqueIds(shared), Origins(shared),
         NEW a \in Attempts, NEW n \in ScheduleNames, TriggerManual(a, n)
  PROVE  UniqueIds(shared)' /\ Origins(shared)'
<1>1. /\ job'[a].by = "manual" /\ job'[a].at = a
      /\ \A b \in Attempts \ {a} : job'[b] = job[b]
  <2> DEFINE j == [NoJob EXCEPT !.name = n, !.by = "manual", !.at = a]
  <2>1. j.by = "manual" /\ j.at = a
    BY DEF NoJob
  <2>2. job' = [job EXCEPT ![a] = j]
    BY DEF TriggerManual
  <2> HIDE DEF j
  <2> QED
    BY <2>1, <2>2 DEF Types
<1>2. /\ pc'[a] = "called"
      /\ \A b \in Attempts \ {a} : pc'[b] = pc[b]
      /\ UNCHANGED <<minute, fires>>
  BY GotoTypes DEF TriggerManual, Types, Places, world
<1>3. \A b \in Attempts \ {a} : IdOf(b)' = IdOf(b)
  BY <1>1 DEF IdOf
<1>4. ASSUME NEW b \in Attempts \ {a}, pc[b] # "idle"
      PROVE  IdOf(a)' # IdOf(b)'
  BY <1>1, <1>4 DEF Origins, IdOf
<1>5. UniqueIds(shared)'
  <2>1. ASSUME NEW b \in Attempts, NEW c \in Attempts,
               pc'[b] # "idle", pc'[c] # "idle", IdOf(b)' = IdOf(c)',
               job'[b].at \notin shared
        PROVE  b = c
    BY <1>1, <1>2, <1>3, <1>4, <2>1 DEF UniqueIds, IdOf
  <2> QED
    BY <2>1 DEF UniqueIds
<1>6. \A m : m \in Minutes' <=> m \in Minutes
  BY DEF Minutes
<1>7. Origins(shared)'
  BY <1>1, <1>2, <1>6 DEF Origins
<1> QED
  BY <1>5, <1>7

LEMMA NextMinuteOrigins ==
  ASSUME Types, NEW shared, UniqueIds(shared), Origins(shared), NextMinute
  PROVE  UniqueIds(shared)' /\ Origins(shared)'
<1>1. UNCHANGED <<pc, job>> /\ minute' = minute + 1 /\ minute \in Nat
  BY EngineAssumption DEF NextMinute, attempts, Types, Minutes
<1>2. \A a \in Attempts : IdOf(a)' = IdOf(a)
  BY <1>1 DEF IdOf
<1>3. \A m : m \in Minutes' <=> m \in Minutes
  BY DEF Minutes
<1>4. \A m \in Minutes : m \in Nat
  BY DEF Minutes
<1>5. ASSUME NEW a \in Attempts, pc'[a] # "idle"
      PROVE  /\ job'[a].by = "manual" => job'[a].at = a
             /\ job'[a].by = "scheduler" /\ job'[a].at \notin shared =>
                  job'[a].at \in Minutes /\ job'[a].at < minute'
  BY <1>1, <1>4, <1>5 DEF Origins
<1>6. UniqueIds(shared)'
  BY <1>1, <1>2 DEF UniqueIds
<1>7. Origins(shared)'
  BY <1>1, <1>3, <1>4, <1>5 DEF Origins
<1> QED
  BY <1>6, <1>7

LEMMA OriginsNext ==
  ASSUME FiresPerMinute = 1, Types, Informed,
         NEW shared, UniqueIds(shared), Origins(shared), [Next]_vars,
         \A n \in DOMAIN entries :
             entries[n].copy.kind = "once" => entries[n].copy.runAt \in shared
  PROVE  UniqueIds(shared)' /\ Origins(shared)'
<1>1. ASSUME NEW a \in Attempts, Step(a)
      PROVE  UniqueIds(shared)' /\ Origins(shared)'
  <2>1. Moves(a) /\ pc[a] # "idle"
    BY <1>1, StepMoves
  <2>2. \A b \in Attempts : pc'[b] # "idle" => pc[b] # "idle" /\ IdOf(b)' = IdOf(b)
    BY <2>1 DEF Moves, IdOf
  <2>3. UNCHANGED <<minute, fires>>
    BY <1>1 DEF Step, Load, Check, SaveSkipped, SaveRunning, MarkOneTimeCompleted,
                Finish, CountRun, Prune, world
  <2> QED
    BY <2>2, <2>3, OriginsKept
<1>2. CASE UNCHANGED <<pc, job, minute, fires>>
  <2>1. \A b \in Attempts : IdOf(b)' = IdOf(b)
    BY <1>2 DEF IdOf
  <2> QED
    BY <1>2, <2>1, OriginsKept
<1>3. CASE Crash
  <2>1. \A b \in Attempts : IdOf(b)' = IdOf(b) /\ (pc'[b] # "idle" => pc[b] # "idle")
    BY <1>3 DEF Crash, IdOf, Types
  <2> QED
    BY <1>3, <2>1, OriginsKept DEF Crash
<1>4. ASSUME NEW o, NEW n, NEW i, SaveSchedule(o, n, i) \/ DeleteSchedule(n) \/ TogglePause(n)
      PROVE  UniqueIds(shared)' /\ Origins(shared)'
  BY <1>2, <1>4 DEF SaveSchedule, DeleteSchedule, TogglePause, attempts
<1>5. CASE Restart \/ ClearRuns \/ UNCHANGED vars
  BY <1>2, <1>5 DEF Restart, ClearRuns, vars, attempts
<1>6. ASSUME NEW a \in Attempts, NEW n \in ScheduleNames, Fire(a, n) \/ TriggerManual(a, n)
      PROVE  UniqueIds(shared)' /\ Origins(shared)'
  <2>1. CASE Fire(a, n)
    <3>1. n \in DOMAIN entries
      BY <2>1 DEF Fire
    <3> QED
      BY <2>1, <3>1, FireOrigins
  <2> QED
    BY <1>6, <2>1, TriggerManualOrigins
<1> QED
  BY <1>1, <1>3, <1>4, <1>5, <1>6, NextMinuteOrigins DEF Next

LEMMA LabelledPut ==
  ASSUME Labelled, NEW a \in Attempts, NEW status, NEW t,
         runs' = Put(runs, IdOf(a), Record(a, status, t))
  PROVE  Labelled'
<1>1. Record(a, status, t).schedule = IdOf(a).schedule
  BY DEF Record, IdOf
<1> DEFINE id == IdOf(a)
           rec == Record(a, status, t)
<1> HIDE DEF id, rec
<1>2. /\ DOMAIN runs' = DOMAIN runs \cup {id}
      /\ runs'[id] = rec
      /\ \A i \in DOMAIN runs \ {id} : runs'[i] = runs[i]
  BY DEF Put, id, rec
<1>3. rec.schedule = id.schedule
  BY <1>1 DEF id, rec
<1> QED
  BY <1>2, <1>3 DEF Labelled

LEMMA LabelledNext == Labelled /\ [Next]_vars => Labelled'
<1> SUFFICES ASSUME Labelled, [Next]_vars PROVE Labelled'
  OBVIOUS
<1>1. CASE UNCHANGED runs
  BY <1>1 DEF Labelled
<1>2. CASE runs' \in Pruned
  BY <1>2, PrunedKeeps DEF Labelled
<1>3. ASSUME NEW a \in Attempts, Step(a)
      PROVE  Labelled'
  BY <1>1, <1>2, <1>3, LabelledPut
     DEF Step, Load, Check, SaveSkipped, SaveRunning, MarkOneTimeCompleted,
         Finish, CountRun, Prune
<1>4. ASSUME NEW a, NEW n, Fire(a, n) \/ TriggerManual(a, n)
      PROVE  Labelled'
  BY <1>1, <1>4 DEF Fire, TriggerManual
<1>5. CASE ClearRuns
  BY <1>5 DEF ClearRuns, EmptyLog, Labelled
<1>6. CASE Restart
  BY <1>2, <1>6 DEF Restart
<1>7. CASE Crash \/ UNCHANGED vars
  BY <1>1, <1>7 DEF Crash, vars
<1> QED
  BY <1>1, <1>3, <1>4, <1>5, <1>6, <1>7, OthersKeep DEF Next

\* No step but a crash puts an attempt back, and none changes its id.
LEMMA IdsKept ==
  ASSUME Types, [Next]_vars, ~Crash, NEW a \in Attempts, pc[a] # "idle"
  PROVE  /\ IdOf(a)' = IdOf(a) /\ pc'[a] # "idle"
         /\ pc[a] # "lost" => pc'[a] # "lost"
<1>1. ASSUME NEW b \in Attempts, Step(b)
      PROVE  /\ IdOf(a)' = IdOf(a) /\ pc'[a] # "idle"
             /\ pc[a] # "lost" => pc'[a] # "lost"
  <2>1. Moves(b) /\ pc'[b] # "idle"
    BY <1>1, StepMoves
  <2>2. \E l \in Places \ {"lost"} : Goto(b, l)
    BY <1>1 DEF Step, Load, Check, SaveSkipped, SaveRunning, MarkOneTimeCompleted,
                Finish, CountRun, Prune, Places
  <2>3. pc'[b] # "lost"
    BY <2>2, GotoTypes DEF Types
  <2> QED
    BY <2>1, <2>3 DEF Moves, IdOf
<1>2. ASSUME NEW b \in Attempts, NEW n \in ScheduleNames, Fire(b, n) \/ TriggerManual(b, n)
      PROVE  IdOf(a)' = IdOf(a) /\ pc'[a] = pc[a]
  BY <1>2, BeginMoves DEF Moves, IdOf
<1>3. CASE UNCHANGED <<pc, job>>
  BY <1>3 DEF IdOf
<1> QED
  BY <1>1, <1>2, <1>3, OthersKeep DEF Next, ClearRuns, Restart, vars, attempts

LEMMA SharingStays ==
  ASSUME Types, [Next]_vars, ~Crash, NEW a \in Attempts, pc[a] # "idle", SharesRecord(a)
  PROVE  SharesRecord(a)'
<1>1. PICK b \in Attempts \ {a} : pc[b] \notin {"idle", "lost"} /\ IdOf(b) = IdOf(a)
  BY DEF SharesRecord
<1>2. IdOf(a)' = IdOf(a) /\ IdOf(b)' = IdOf(b) /\ pc'[b] \notin {"idle", "lost"}
  BY <1>1, IdsKept
<1>3. job'[a].at = job[a].at
  BY <1>2 DEF IdOf
<1>4. \A t : t \in RunAts' <=> t \in RunAts
  BY DEF RunAts
<1> QED
  BY <1>1, <1>2, <1>3, <1>4 DEF SharesRecord

\* A live attempt that was live stays recorded, if its record stays.
LEMMA StaysRecorded ==
  ASSUME Types, [Next]_vars, ~Crash, LiveRunsAreRecorded, NEW a \in Attempts, Live(a),
         IsRunning(IdOf(a)) => IsRunning(IdOf(a))'
  PROVE  IsRunning(IdOf(a))' \/ SharesRecord(a)'
<1>1. pc[a] # "idle"
  BY DEF Live
<1> QED
  BY <1>1, SharingStays DEF LiveRunsAreRecorded

\* An attempt that writes its record takes none of another live attempt from
\* under it, unless they share it.
LEMMA WritesItsOwn ==
  ASSUME Types, [Next]_vars, ~Crash, UniqueIds(RunAts), LiveRunsAreRecorded,
         NEW a \in Attempts, Moves(a), pc[a] # "idle", pc'[a] \notin {"idle", "lost"},
         NEW rec, runs' = Put(runs, IdOf(a), rec)
  PROVE  /\ \A b \in Attempts \ {a} : Live(b)' => IsRunning(IdOf(b))' \/ SharesRecord(b)'
         /\ rec.status = Running => IsRunning(IdOf(a))'
<1>1. /\ DOMAIN runs' = DOMAIN runs \cup {IdOf(a)}
      /\ runs'[IdOf(a)] = rec
      /\ \A id \in DOMAIN runs \ {IdOf(a)} : runs'[id] = runs[id]
  BY DEF Put
<1>2. IdOf(a)' = IdOf(a)
  BY DEF Moves
<1>3. ASSUME NEW b \in Attempts \ {a}, Live(b)'
      PROVE  IsRunning(IdOf(b))' \/ SharesRecord(b)'
  <2>1. /\ pc'[b] = pc[b] /\ job'[b] = job[b] /\ IdOf(b)' = IdOf(b)
        /\ Live(b) /\ pc[b] # "idle"
    BY <1>3 DEF Moves, IdOf, Live
  <2>2. CASE IdOf(b) # IdOf(a)
    <3>1. IsRunning(IdOf(b)) => IsRunning(IdOf(b))'
      BY <1>1, <2>1, <2>2 DEF IsRunning
    <3> QED
      BY <2>1, <3>1, StaysRecorded
  <2>3. CASE IdOf(b) = IdOf(a)
    <3>1. job[b].at \in RunAts
      BY <2>1, <2>3 DEF UniqueIds
    <3>2. job'[b].at \in RunAts'
      BY <2>1, <3>1 DEF RunAts
    <3>3. IdOf(a)' = IdOf(b)'
      BY <1>2, <2>1, <2>3
    <3> QED
      BY <1>3, <3>2, <3>3 DEF SharesRecord
  <2> QED
    BY <2>2, <2>3
<1>4. ASSUME rec.status = Running PROVE IsRunning(IdOf(a))'
  BY <1>1, <1>2, <1>4 DEF IsRunning
<1> QED
  BY <1>3, <1>4

LEMMA LiveRecordedNext ==
  ASSUME Orderly, Types, UniqueIds(RunAts), LiveRunsAreRecorded, [Next]_vars
  PROVE  LiveRunsAreRecorded'
<1>1. CASE Crash
  <2>1. \A b \in Attempts : ~Live(b)'
    BY <1>1 DEF Crash, Live, Types
  <2> QED
    BY <2>1 DEF LiveRunsAreRecorded
<1>2. ASSUME ~Crash, \A b \in Attempts : Live(b)' => Live(b) /\ IdOf(b)' = IdOf(b),
             runs' \in Pruned \/ UNCHANGED runs
      PROVE  LiveRunsAreRecorded'
  <2>1. \A id : IsRunning(id) => IsRunning(id)'
    BY <1>2, PrunedKeeps DEF IsRunning
  <2>2. ASSUME NEW b \in Attempts, Live(b)'
        PROVE  IsRunning(IdOf(b))' \/ SharesRecord(b)'
    <3>1. Live(b) /\ IdOf(b)' = IdOf(b)
      BY <1>2, <2>2
    <3>2. IsRunning(IdOf(b)) => IsRunning(IdOf(b))'
      BY <2>1, <3>1 DEF IsRunning
    <3> QED
      BY <1>2, <3>1, <3>2, StaysRecorded
  <2> QED
    BY <2>2 DEF LiveRunsAreRecorded
<1>3. CASE ~Crash /\ UNCHANGED <<pc, job>> /\ (runs' \in Pruned \/ UNCHANGED runs)
  BY <1>2, <1>3 DEF Live, IdOf
<1>4. ASSUME ~Crash, NEW a \in Attempts, Moves(a), pc'[a] \notin {"marking", "running"},
             runs' \in Pruned \/ UNCHANGED runs
      PROVE  LiveRunsAreRecorded'
  <2>1. \A b \in Attempts : Live(b)' => Live(b) /\ IdOf(b)' = IdOf(b)
    BY <1>4 DEF Live, Moves, IdOf
  <2> QED
    BY <1>2, <1>4, <2>1
<1>5. ASSUME ~Crash, NEW a \in Attempts, NEW n \in ScheduleNames,
             Fire(a, n) \/ TriggerManual(a, n)
      PROVE  LiveRunsAreRecorded'
  <2>1. Moves(a) /\ pc'[a] = "called" /\ UNCHANGED runs
    BY <1>5, BeginMoves
  <2> QED
    BY <1>4, <1>5, <2>1
<1>6. ASSUME ~Crash, NEW a \in Attempts, Load(a) \/ Check(a) \/ CountRun(a) \/ Prune(a)
      PROVE  LiveRunsAreRecorded'
  <2>1. Moves(a) /\ (runs' \in Pruned \/ UNCHANGED runs)
    BY <1>6, StepMoves DEF Step, Load, Check, CountRun, Prune
  <2>2. \E l \in Places \ {"marking", "running"} : Goto(a, l)
    BY <1>6 DEF Load, Check, CountRun, Prune, Places
  <2>3. pc'[a] \notin {"marking", "running"}
    BY <2>2, GotoTypes DEF Types
  <2> QED
    BY <1>4, <1>6, <2>1, <2>3
<1>7. ASSUME ~Crash, NEW a \in Attempts, SaveSkipped(a) \/ Finish(a)
      PROVE  LiveRunsAreRecorded'
  <2>1. Moves(a) /\ pc[a] # "idle"
    BY <1>7, StepMoves DEF Step
  <2>2. \E l \in Places \ {"idle", "lost", "marking", "running"} : Goto(a, l)
    BY <1>7 DEF SaveSkipped, Finish, Places
  <2>3. pc'[a] \notin {"idle", "lost", "marking", "running"}
    BY <2>2, GotoTypes DEF Types
  <2>4. CASE UNCHANGED runs
    BY <1>4, <1>7, <2>1, <2>3, <2>4
  <2>5. CASE \E rec : runs' = Put(runs, IdOf(a), rec)
    <3>1. \A b \in Attempts \ {a} : Live(b)' => IsRunning(IdOf(b))' \/ SharesRecord(b)'
      BY <1>7, <2>1, <2>3, <2>5, WritesItsOwn
    <3> QED
      BY <2>3, <3>1 DEF LiveRunsAreRecorded, Live
  <2> QED
    BY <1>7, <2>4, <2>5 DEF SaveSkipped, Finish
<1>8. ASSUME ~Crash, NEW a \in Attempts, SaveRunning(a)
      PROVE  LiveRunsAreRecorded'
  <2>1. Moves(a) /\ pc[a] # "idle"
    BY <1>8, StepMoves DEF Step
  <2>2. \E l \in {"marking", "running", "done"} : Goto(a, l)
    BY <1>8 DEF SaveRunning
  <2>3. pc'[a] \in {"marking", "running", "done"}
    BY <2>2 DEF Goto, Types
  <2>4. CASE UNCHANGED runs /\ Goto(a, "done")
    <3>1. pc'[a] = "done"
      BY <2>4, GotoTypes DEF Types, Places
    <3> QED
      BY <1>4, <1>8, <2>1, <2>4, <3>1
  <2>5. CASE runs' = Put(runs, IdOf(a), Record(a, Running, minute))
    <3>1. Record(a, Running, minute).status = Running
      BY DEF Record
    <3>2. IsRunning(IdOf(a))'
      BY <1>8, <2>1, <2>3, <2>5, <3>1, WritesItsOwn
    <3>3. \A b \in Attempts \ {a} : Live(b)' => IsRunning(IdOf(b))' \/ SharesRecord(b)'
      BY <1>8, <2>1, <2>3, <2>5, WritesItsOwn
    <3> QED
      BY <3>2, <3>3 DEF LiveRunsAreRecorded
  <2> QED
    BY <1>8, <2>4, <2>5 DEF SaveRunning
<1>9. ASSUME ~Crash, NEW a \in Attempts, MarkOneTimeCompleted(a)
      PROVE  LiveRunsAreRecorded'
  <2>1. Moves(a) /\ pc[a] = "marking" /\ UNCHANGED <<runs, job>>
    BY <1>9, StepMoves DEF Step, MarkOneTimeCompleted
  <2>2. \A b \in Attempts : IdOf(b)' = IdOf(b) /\ (Live(b)' => Live(b))
    BY <2>1 DEF IdOf, Live, Moves
  <2> QED
    BY <1>2, <1>9, <2>1, <2>2
<1>10. CASE ~Crash /\ Restart
  BY <1>3, <1>10 DEF Restart
<1>11. CASE ~Crash /\ UNCHANGED vars
  BY <1>3, <1>11 DEF vars
<1>12. ASSUME ~Crash, NEW o, NEW n, NEW i,
              SaveSchedule(o, n, i) \/ DeleteSchedule(n) \/ TogglePause(n) \/ NextMinute
       PROVE  LiveRunsAreRecorded'
  BY <1>3, <1>12, OthersKeep
<1>13. ~ClearRuns
  BY DEF ClearRuns, Orderly
<1> QED
  BY <1>1, <1>5, <1>6, <1>7, <1>8, <1>9, <1>10, <1>11, <1>12, <1>13 DEF Next, Step

\* The inductive invariant: an id names one attempt, except for the fires of a
\* one-time schedule, and the record under it is that attempt's.
Recorded ==
    /\ IInv
    /\ UniqueIds(RunAts) /\ Origins(RunAts)
    /\ Labelled /\ LiveRunsAreRecorded

LEMMA RecordedInit ==
  ASSUME Orderly, Init
  PROVE  Recorded
<1>1. \A a \in Attempts : pc[a] = "idle"
  BY DEF Init
<1>2. UniqueIds(RunAts) /\ Origins(RunAts) /\ LiveRunsAreRecorded
  BY <1>1 DEF UniqueIds, Origins, LiveRunsAreRecorded, Live
<1>3. Labelled
  BY DEF Init, EmptyLog, Labelled
<1> QED
  BY <1>2, <1>3, InitTypes DEF Recorded

LEMMA RecordedNext ==
  ASSUME Orderly, Recorded, [Next]_vars
  PROVE  Recorded'
<1>1. FiresPerMinute = 1
  BY DEF Orderly
<1>2. \A n \in DOMAIN entries : entries[n].copy.runAt \in RunAts
  BY DEF Recorded, IInv, Types, Partial, EntryType, EntryOf, Schedule
<1>3. (UniqueIds(RunAts) /\ Origins(RunAts))'
  BY <1>1, <1>2, OriginsNext DEF Recorded, IInv
<1> QED
  BY <1>3, NextTypes, LabelledNext, LiveRecordedNext DEF Recorded, IInv

\* No two attempts share an id, but for the fires of a one-time schedule for one
\* time, when no schedule fires twice in a minute and nobody clears the log.
\* Then, with crashes, failing store operations, edits and pruning at any moment,
\* every attempt past its SaveRun and before its UpdateRun is in the log as
\* running, unless it is such a fire and another one took the record.
THEOREM LiveRunsStayRecorded ==
  ASSUME Orderly
  PROVE  Spec => []LiveRunsAreRecorded
<1>1. Init => Recorded
  BY RecordedInit
<1>2. Recorded /\ [Next]_vars => Recorded'
  BY RecordedNext
<1>3. Recorded => LiveRunsAreRecorded
  BY DEF Recorded
<1> QED
  BY <1>1, <1>2, <1>3, PTL DEF Spec

\* Only HasRunningRun admits an attempt that is checking.
LEMMA AdmittedByCheck ==
  ASSUME Types, [Next]_vars, NEW a \in Attempts, pc[a] = "checking", pc'[a] = "admitted"
  PROVE  RunningOf(runs, job[a].name) = {}
<1>1. CASE Check(a)
  <2>1. CASE Goto(a, IF RunningOf(runs, job[a].name) = {} THEN "admitted" ELSE "refused")
    BY <2>1 DEF Goto, Types
  <2>2. ~Goto(a, "done")
    BY DEF Goto, Types
  <2> QED
    BY <1>1, <2>1, <2>2 DEF Check
<1>2. ASSUME NEW b \in Attempts, Step(b), b # a
      PROVE  FALSE
  BY <1>2, StepMoves DEF Moves
<1>3. ~Step(a) \/ Check(a)
  BY DEF Step, Load, SaveSkipped, SaveRunning, MarkOneTimeCompleted, Finish,
         CountRun, Prune
<1>4. ASSUME NEW b \in Attempts, NEW n \in ScheduleNames, Fire(b, n) \/ TriggerManual(b, n)
      PROVE  FALSE
  BY <1>4, BeginMoves DEF Moves
<1>5. ~UNCHANGED pc
  OBVIOUS
<1>6. ~Crash
  BY DEF Crash
<1> QED
  BY <1>1, <1>2, <1>3, <1>4, <1>5, <1>6, OthersKeep
     DEF Next, ClearRuns, Restart, vars, attempts

\* Under the same circumstances the no-overlap check is sound: HasRunningRun
\* never admits an attempt while another of its schedule is past SaveRun, unless
\* that one is a fire of a one-time schedule that shares its record.
THEOREM GuardIsSound ==
  ASSUME Orderly
  PROVE  Spec => GuardSeesLiveRuns
<1>1. Init => Recorded
  BY RecordedInit
<1>2. Recorded /\ [Next]_vars => Recorded'
  BY RecordedNext
<1>3. ASSUME Recorded, [Next]_vars, NEW a \in Attempts, NEW b \in Attempts,
             pc[a] = "checking", pc'[a] = "admitted", Live(b), ~SharesRecord(b)
      PROVE  job[b].name # job[a].name
  <2>1. RunningOf(runs, job[a].name) = {}
    BY <1>3, AdmittedByCheck DEF Recorded, IInv
  <2>2. IsRunning(IdOf(b)) /\ runs[IdOf(b)].schedule = job[b].name
    BY <1>3 DEF Recorded, LiveRunsAreRecorded, Labelled, IsRunning, IdOf
  <2> QED
    BY <2>1, <2>2 DEF RunningOf, IsRunning
<1>4. Recorded /\ [Next]_vars =>
        [\A a, b \in Attempts :
           /\ pc[a] = "checking" /\ pc'[a] = "admitted"
           /\ Live(b) /\ ~SharesRecord(b)
           => job[b].name # job[a].name]_vars
  BY <1>3
<1> QED
  BY <1>1, <1>2, <1>4, PTL DEF Spec, GuardSeesLiveRuns

-----------------------------------------------------------------------------
(* A final record is never rewritten. *)

\* A record is that of an attempt.  Except for the records that the fires of a
\* one-time schedule share, an attempt that has still to save its own finds
\* nothing under its id, and one that runs finds it running or removed.
OwnRecords ==
    /\ \A id \in DOMAIN runs : \E a \in Attempts : pc[a] # "idle" /\ IdOf(a) = id
    /\ \A a \in Attempts : job[a].at \notin RunAts =>
           /\ pc[a] \in {"called", "checking", "refused", "admitted"} =>
                  IdOf(a) \notin DOMAIN runs
           /\ Live(a) => IdOf(a) \notin DOMAIN runs \/ IsRunning(IdOf(a))

\* No step puts an attempt back, and records are at most removed.
LEMMA OwnRecordsKept ==
  ASSUME OwnRecords,
         DOMAIN runs' \subseteq DOMAIN runs,
         \A id \in DOMAIN runs' : runs'[id] = runs[id],
         \A a \in Attempts : pc[a] # "idle" => pc'[a] # "idle" /\ IdOf(a)' = IdOf(a),
         \A a \in Attempts : pc'[a] # "idle" => pc[a] # "idle",
         \A a \in Attempts : pc'[a] \in {"called", "checking", "refused", "admitted"} =>
             pc[a] \in {"called", "checking", "refused", "admitted"},
         \A a \in Attempts : Live(a)' => Live(a)
  PROVE  OwnRecords'
<1>1. \A id \in DOMAIN runs' : \E a \in Attempts : pc'[a] # "idle" /\ IdOf(a)' = id
  BY DEF OwnRecords
<1>2. ASSUME NEW a \in Attempts, job'[a].at \notin RunAts,
             pc'[a] \in {"called", "checking", "refused", "admitted"} \/ Live(a)'
      PROVE  /\ job[a].at \notin RunAts /\ IdOf(a)' = IdOf(a)
             /\ IdOf(a) \in DOMAIN runs' => Live(a) /\ IsRunning(IdOf(a))
             /\ pc'[a] \in {"called", "checking", "refused", "admitted"} =>
                    IdOf(a) \notin DOMAIN runs
  <2>1. pc'[a] # "idle"
    BY <1>2 DEF Live
  <2>2. IdOf(a)' = IdOf(a)
    BY <2>1
  <2>3. job[a].at \notin RunAts
    BY <1>2, <2>2 DEF IdOf
  <2> QED
    BY <1>2, <2>2, <2>3 DEF OwnRecords
<1>3. ASSUME NEW a \in Attempts, job'[a].at \notin RunAts
      PROVE  /\ pc'[a] \in {"called", "checking", "refused", "admitted"} =>
                    IdOf(a)' \notin DOMAIN runs'
             /\ Live(a)' => IdOf(a)' \notin DOMAIN runs' \/ IsRunning(IdOf(a))'
  BY <1>2, <1>3 DEF IsRunning
<1> QED
  BY <1>1, <1>3 DEF OwnRecords

\* A new attempt has an id that no other one has, so nothing is filed under it.
LEMMA OwnRecordsBegin ==
  ASSUME Types, OwnRecords, UniqueIds(RunAts)', NEW a \in Attempts, NEW n \in ScheduleNames,
         Fire(a, n) \/ TriggerManual(a, n)
  PROVE  OwnRecords'
<1>1. Moves(a) /\ pc[a] = "idle" /\ pc'[a] = "called" /\ runs' = runs
  BY BeginMoves
<1>2. \A b \in Attempts \ {a} : pc'[b] = pc[b] /\ job'[b] = job[b] /\ IdOf(b)' = IdOf(b)
  BY <1>1 DEF Moves, IdOf
<1>3. \A id \in DOMAIN runs' : \E b \in Attempts \ {a} : pc'[b] # "idle" /\ IdOf(b)' = id
  BY <1>1, <1>2 DEF OwnRecords
<1>4. job'[a].at \notin RunAts => IdOf(a)' \notin DOMAIN runs'
  <2> SUFFICES ASSUME job'[a].at \notin RunAts, IdOf(a)' \in DOMAIN runs'
               PROVE  FALSE
    OBVIOUS
  <2>1. PICK b \in Attempts \ {a} : pc'[b] # "idle" /\ IdOf(b)' = IdOf(a)'
    BY <1>3
  <2>2. pc'[a] # "idle"
    BY <1>1
  <2> QED
    BY <2>1, <2>2 DEF UniqueIds
<1>5. ASSUME NEW b \in Attempts, job'[b].at \notin RunAts
      PROVE  /\ pc'[b] \in {"called", "checking", "refused", "admitted"} =>
                    IdOf(b)' \notin DOMAIN runs'
             /\ Live(b)' => IdOf(b)' \notin DOMAIN runs' \/ IsRunning(IdOf(b))'
  <2>1. CASE b = a
    BY <1>1, <1>4, <1>5, <2>1 DEF Live
  <2>2. CASE b # a
    BY <1>1, <1>2, <1>5, <2>2 DEF OwnRecords, Live, IsRunning
  <2> QED
    BY <2>1, <2>2
<1> QED
  BY <1>3, <1>5 DEF OwnRecords

\* An attempt that writes under its own id touches no record of another one.
LEMMA OwnRecordsWrite ==
  ASSUME OwnRecords, UniqueIds(RunAts), NEW a \in Attempts, Moves(a), pc[a] # "idle",
         pc'[a] \notin {"idle", "called", "checking", "refused", "admitted"},
         NEW rec, runs' = Put(runs, IdOf(a), rec), Live(a)' => rec.status = Running
  PROVE  OwnRecords'
<1>1. /\ DOMAIN runs' = DOMAIN runs \cup {IdOf(a)}
      /\ runs'[IdOf(a)] = rec
      /\ \A id \in DOMAIN runs \ {IdOf(a)} : runs'[id] = runs[id]
  BY DEF Put
<1>2. /\ \A b \in Attempts \ {a} : pc'[b] = pc[b] /\ job'[b] = job[b] /\ IdOf(b)' = IdOf(b)
      /\ IdOf(a)' = IdOf(a)
  BY DEF Moves, IdOf
<1>3. \A id \in DOMAIN runs' : \E b \in Attempts : pc'[b] # "idle" /\ IdOf(b)' = id
  <2>1. ASSUME NEW id \in DOMAIN runs' PROVE \E b \in Attempts : pc'[b] # "idle" /\ IdOf(b)' = id
    <3>1. CASE id = IdOf(a)
      BY <1>2, <3>1
    <3>2. CASE id # IdOf(a)
      <4>1. PICK b \in Attempts : pc[b] # "idle" /\ IdOf(b) = id
        BY <1>1, <2>1, <3>2 DEF OwnRecords
      <4> QED
        BY <1>2, <3>2, <4>1
    <3> QED
      BY <3>1, <3>2
  <2> QED
    BY <2>1
<1>4. ASSUME NEW b \in Attempts, job'[b].at \notin RunAts
      PROVE  /\ pc'[b] \in {"called", "checking", "refused", "admitted"} =>
                    IdOf(b)' \notin DOMAIN runs'
             /\ Live(b)' => IdOf(b)' \notin DOMAIN runs' \/ IsRunning(IdOf(b))'
  <2>1. CASE b = a
    BY <1>1, <1>2, <2>1 DEF IsRunning
  <2>2. CASE b # a
    <3>1. pc[b] # "idle" => IdOf(b) # IdOf(a)
      BY <1>2, <1>4, <2>2 DEF UniqueIds
    <3> QED
      BY <1>1, <1>2, <1>4, <2>2, <3>1 DEF OwnRecords, Live, IsRunning
  <2> QED
    BY <2>1, <2>2
<1> QED
  BY <1>3, <1>4 DEF OwnRecords

\* What the three steps that save do to the log and to their attempt.
LEMMA SavingWays ==
  ASSUME NEW a, SaveSkipped(a) \/ Finish(a) \/ SaveRunning(a)
  PROVE  \/ UNCHANGED runs /\ \E l \in {"counting", "done"} : Goto(a, l)
         \/ Goto(a, "counting") /\ \E rec : runs' = Put(runs, IdOf(a), rec)
         \/ /\ \E l \in {"marking", "running"} : Goto(a, l)
            /\ runs' = Put(runs, IdOf(a), Record(a, Running, minute))
<1>1. CASE SaveSkipped(a) \/ Finish(a)
  BY <1>1 DEF SaveSkipped, Finish
<1>2. CASE SaveRunning(a)
  BY <1>2 DEF SaveRunning
<1> QED
  BY <1>1, <1>2

LEMMA OwnRecordsNext ==
  ASSUME Types, OwnRecords, UniqueIds(RunAts), UniqueIds(RunAts)', [Next]_vars
  PROVE  OwnRecords'
<1>1. ASSUME UNCHANGED <<pc, job>>, runs' \in Pruned \/ UNCHANGED runs \/ DOMAIN runs' = {}
      PROVE  OwnRecords'
  <2>1. /\ DOMAIN runs' \subseteq DOMAIN runs
        /\ \A id \in DOMAIN runs' : runs'[id] = runs[id]
    BY <1>1, PrunedKeeps
  <2>2. \A a \in Attempts : IdOf(a)' = IdOf(a) /\ (Live(a)' <=> Live(a))
    BY <1>1 DEF IdOf, Live
  <2> QED
    BY <1>1, <2>1, <2>2, OwnRecordsKept
<1>2. ASSUME NEW a \in Attempts, Moves(a), pc[a] # "idle", pc'[a] # "idle",
             runs' \in Pruned \/ UNCHANGED runs,
             Live(a)' => Live(a),
             pc'[a] \in {"called", "checking", "refused", "admitted"} =>
                 pc[a] \in {"called", "checking", "refused", "admitted"}
      PROVE  OwnRecords'
  <2>1. /\ DOMAIN runs' \subseteq DOMAIN runs
        /\ \A id \in DOMAIN runs' : runs'[id] = runs[id]
    BY <1>2, PrunedKeeps
  <2>2. \A b \in Attempts : IdOf(b)' = IdOf(b) \/ (pc[b] = "idle" /\ b # a)
    BY <1>2 DEF IdOf, Moves
  <2>3. \A b \in Attempts \ {a} : pc'[b] = pc[b] /\ IdOf(b)' = IdOf(b) /\ (Live(b)' <=> Live(b))
    BY <1>2 DEF IdOf, Moves, Live
  <2> QED
    BY <1>2, <2>1, <2>2, <2>3, OwnRecordsKept
<1>3. ASSUME NEW a \in Attempts, Load(a) \/ Check(a) \/ MarkOneTimeCompleted(a) \/ CountRun(a) \/ Prune(a)
      PROVE  OwnRecords'
  <2>1. Moves(a) /\ pc[a] # "idle" /\ pc'[a] # "idle"
    BY <1>3, StepMoves DEF Step
  <2>2. runs' \in Pruned \/ UNCHANGED runs
    BY <1>3 DEF Load, Check, MarkOneTimeCompleted, CountRun, Prune
  <2>3. CASE Load(a) \/ Check(a)
    <3>1. pc[a] \in {"called", "checking"} /\ \E l \in {"checking", "admitted", "refused", "done"} : Goto(a, l)
      BY <2>3 DEF Load, Check
    <3>2. pc'[a] \in {"checking", "admitted", "refused", "done"}
      BY <3>1, GotoTypes DEF Types, Places
    <3> QED
      BY <1>2, <2>1, <2>2, <3>1, <3>2 DEF Live
  <2>4. CASE MarkOneTimeCompleted(a) \/ CountRun(a) \/ Prune(a)
    <3>1. \/ pc[a] = "marking" /\ Goto(a, "running")
          \/ \E l \in {"pruning", "done"} : Goto(a, l)
      BY <2>4 DEF MarkOneTimeCompleted, CountRun, Prune
    <3>2. \/ pc[a] = "marking" /\ pc'[a] = "running"
          \/ pc'[a] \in {"pruning", "done"}
      BY <3>1, GotoTypes DEF Types, Places
    <3> QED
      BY <1>2, <2>1, <2>2, <3>2 DEF Live
  <2> QED
    BY <1>3, <2>3, <2>4
<1>4. ASSUME NEW a \in Attempts, SaveSkipped(a) \/ Finish(a) \/ SaveRunning(a)
      PROVE  OwnRecords'
  <2>1. Moves(a) /\ pc[a] # "idle" /\ pc'[a] # "idle"
    BY <1>4, StepMoves DEF Step
  <2>2. CASE UNCHANGED runs /\ \E l \in {"counting", "done"} : Goto(a, l)
    <3>1. pc'[a] \in {"counting", "done"}
      BY <2>2, GotoTypes DEF Types, Places
    <3> QED
      BY <1>2, <2>1, <2>2, <3>1 DEF Live
  <2>3. CASE Goto(a, "counting") /\ \E rec : runs' = Put(runs, IdOf(a), rec)
    <3>1. pc'[a] = "counting"
      BY <2>3, GotoTypes DEF Types, Places
    <3> QED
      BY <2>1, <2>3, <3>1, OwnRecordsWrite DEF Live
  <2>4. CASE /\ \E l \in {"marking", "running"} : Goto(a, l)
             /\ runs' = Put(runs, IdOf(a), Record(a, Running, minute))
    <3>1. pc'[a] \in {"marking", "running"}
      BY <2>4, GotoTypes DEF Types, Places
    <3>2. Record(a, Running, minute).status = Running
      BY DEF Record
    <3> QED
      BY <2>1, <2>4, <3>1, <3>2, OwnRecordsWrite
  <2> QED
    BY <1>4, <2>2, <2>3, <2>4, SavingWays
<1>5. CASE Crash
  <2>1. \A a \in Attempts : /\ IdOf(a)' = IdOf(a) /\ ~Live(a)'
                            /\ pc'[a] \in {"idle", "done", "lost"}
                            /\ pc'[a] = "idle" <=> pc[a] = "idle"
    BY <1>5 DEF Crash, IdOf, Live, Types
  <2>2. runs' = runs
    BY <1>5 DEF Crash
  <2> QED
    BY <2>1, <2>2, OwnRecordsKept
<1>6. CASE Restart
  BY <1>1, <1>6 DEF Restart
<1>7. CASE ClearRuns
  BY <1>1, <1>7 DEF ClearRuns, attempts, EmptyLog
<1>8. CASE UNCHANGED vars
  BY <1>1, <1>8 DEF vars
<1>9. ASSUME NEW o, NEW n, NEW i,
             SaveSchedule(o, n, i) \/ DeleteSchedule(n) \/ TogglePause(n) \/ NextMinute
      PROVE  OwnRecords'
  BY <1>1, <1>9, OthersKeep
<1> QED
  BY <1>3, <1>4, <1>5, <1>6, <1>7, <1>8, <1>9, OwnRecordsBegin DEF Next, Step

\* What a step may do to a final record.
LEMMA FinalKept ==
  ASSUME OwnRecords, [Next]_vars, NEW id \in DOMAIN runs,
         runs[id].status # Running, id.at \notin RunAts, id \in DOMAIN runs'
  PROVE  runs'[id] = runs[id]
<1>1. CASE runs' \in Pruned \/ UNCHANGED runs
  BY <1>1, PrunedKeeps
<1>2. ASSUME NEW a \in Attempts, SaveSkipped(a) \/ SaveRunning(a) \/ Finish(a), ~UNCHANGED runs
      PROVE  runs'[id] = runs[id]
  <2>1. PICK rec : runs' = Put(runs, IdOf(a), rec)
    BY <1>2 DEF SaveSkipped, SaveRunning, Finish
  <2>2. \A other \in DOMAIN runs \ {IdOf(a)} : runs'[other] = runs[other]
    BY <2>1 DEF Put
  <2>3. pc[a] \in {"refused", "admitted"} \/ Live(a)
    BY <1>2 DEF SaveSkipped, SaveRunning, Finish, Live
  <2>4. IdOf(a) # id
    <3>1. IdOf(a) = id => job[a].at \notin RunAts
      BY DEF IdOf
    <3> QED
      BY <2>3, <3>1 DEF OwnRecords, IsRunning
  <2> QED
    BY <2>2, <2>4
<1>3. ~ClearRuns
  BY DEF ClearRuns, EmptyLog
<1>4. ASSUME NEW a \in Attempts, Load(a) \/ Check(a) \/ MarkOneTimeCompleted(a) \/ CountRun(a) \/ Prune(a)
      PROVE  runs' \in Pruned \/ UNCHANGED runs
  BY <1>4 DEF Load, Check, MarkOneTimeCompleted, CountRun, Prune
<1>5. ASSUME NEW a, NEW n, Fire(a, n) \/ TriggerManual(a, n)
      PROVE  UNCHANGED runs
  BY <1>5 DEF Fire, TriggerManual
<1>6. Crash \/ Restart \/ UNCHANGED vars => runs' \in Pruned \/ UNCHANGED runs
  BY DEF Crash, Restart, vars
<1> QED
  BY <1>1, <1>2, <1>3, <1>4, <1>5, <1>6, OthersKeep DEF Next, Step

\* The inductive invariant: an id that is not of a one-time schedule names one
\* attempt, and the record under it is of that attempt.
Filed == IInv /\ UniqueIds(RunAts) /\ Origins(RunAts) /\ OwnRecords

LEMMA FiledNext ==
  ASSUME FiresPerMinute = 1, Filed, [Next]_vars
  PROVE  Filed'
<1>1. \A n \in DOMAIN entries : entries[n].copy.runAt \in RunAts
  BY DEF Filed, IInv, Types, Partial, EntryType, EntryOf, Schedule
<1>2. (UniqueIds(RunAts) /\ Origins(RunAts))'
  BY <1>1, OriginsNext DEF Filed, IInv
<1> QED
  BY <1>2, NextTypes, OwnRecordsNext DEF Filed, IInv

\* When no schedule fires twice in a minute, whatever is cleared, pruned, edited,
\* crashes or fails: no final record is replaced by another, except by that of a
\* later fire of a one-time schedule for the same time.
THEOREM FinalRecordsStay ==
  ASSUME FiresPerMinute = 1
  PROVE  Spec => RecordsAreFinal
<1>1. Init => Filed
  <2> SUFFICES ASSUME Init PROVE Filed
    OBVIOUS
  <2>1. \A a \in Attempts : pc[a] = "idle"
    BY DEF Init
  <2>2. DOMAIN runs = {}
    BY DEF Init, EmptyLog
  <2>3. UniqueIds(RunAts) /\ Origins(RunAts) /\ OwnRecords
    BY <2>1, <2>2 DEF UniqueIds, Origins, OwnRecords, Live
  <2> QED
    BY <2>3, InitTypes DEF Filed
<1>2. Filed /\ [Next]_vars => Filed'
  BY FiledNext
<1>3. Filed /\ [Next]_vars =>
        [\A id \in DOMAIN runs :
           /\ runs[id].status # Running /\ id.at \notin RunAts
           /\ id \in DOMAIN runs'
           => runs'[id] = runs[id]]_vars
  BY FinalKept DEF Filed
<1> QED
  BY <1>1, <1>2, <1>3, PTL DEF Spec, RecordsAreFinal

-----------------------------------------------------------------------------
(* The run log stays bounded although it is pruned only now and then. *)

(* Arithmetic and cardinalities. *)

LEMMA PeriodFacts ==
  ASSUME NEW n \in Nat, NEW k \in Nat, NEW l \in Nat
  PROVE  /\ n * k \in Nat
         /\ n * (k + 1) = n * k + n
         /\ k <= l => n * k <= n * l
  OBVIOUS

LEMMA SumBounds ==
  ASSUME NEW s \in Nat, NEW m \in Nat, NEW r \in Nat, NEW c \in Nat, NEW q \in Nat,
         s <= m
  PROVE  s <= m + r + c + q
  OBVIOUS

LEMMA SumGrows ==
  ASSUME NEW s \in Nat, NEW m \in Nat, NEW r \in Nat, NEW c \in Nat, NEW p \in Nat,
         NEW t \in Nat, NEW d \in Nat, NEW q \in Nat, NEW n \in {0, 1},
         s <= m + r + c + p, t <= s + n, d >= c + n, p <= q
  PROVE  t <= m + r + d + q
  OBVIOUS

LEMMA PutCompleted ==
  ASSUME NEW log, IsFiniteSet(DOMAIN log), NEW id, NEW rec
  PROVE  /\ IsFiniteSet(DOMAIN Put(log, id, rec))
         /\ Cardinality(Completed(Put(log, id, rec))) <= Cardinality(Completed(log)) + 1
         /\ rec.status = Running =>
              Cardinality(Completed(Put(log, id, rec))) <= Cardinality(Completed(log))
<1> DEFINE new == Put(log, id, rec)
<1>1. /\ DOMAIN new = DOMAIN log \cup {id}
      /\ new[id] = rec
      /\ \A i \in DOMAIN log \ {id} : new[i] = log[i]
  BY DEF Put
<1> HIDE DEF new
<1>2. IsFiniteSet(DOMAIN new)
  BY <1>1, FS_AddElement
<1>3. IsFiniteSet(Completed(log)) /\ Cardinality(Completed(log)) \in Nat
  BY FS_Subset, FS_CardinalityType DEF Completed
<1>4. IsFiniteSet(Completed(new)) /\ Cardinality(Completed(new)) \in Nat
  BY <1>2, FS_Subset, FS_CardinalityType DEF Completed
<1>5. Completed(new) \subseteq Completed(log) \cup {id}
  BY <1>1 DEF Completed
<1>6. rec.status = Running => Completed(new) \subseteq Completed(log)
  BY <1>1 DEF Completed
<1>7. /\ IsFiniteSet(Completed(log) \cup {id})
      /\ Cardinality(Completed(log) \cup {id}) <= Cardinality(Completed(log)) + 1
      /\ Cardinality(Completed(log) \cup {id}) \in Nat
  BY <1>3, FS_AddElement, FS_CardinalityType
<1>8. Cardinality(Completed(new)) <= Cardinality(Completed(log) \cup {id})
  BY <1>5, <1>7, FS_Subset
<1>9. rec.status = Running => Cardinality(Completed(new)) <= Cardinality(Completed(log))
  BY <1>3, <1>6, FS_Subset
<1> QED
  BY <1>2, <1>3, <1>4, <1>7, <1>8, <1>9 DEF new

\* After a pruning at most max_records completed records are left.
LEMMA PrunedBound ==
  ASSUME IsFiniteSet(DOMAIN runs), NEW new \in Pruned
  PROVE  IsFiniteSet(DOMAIN new) /\ Cardinality(Completed(new)) <= MaxRecords
<1>1. PICK victims \in PruneVictims(runs, Cutoff, MaxRecords) : new = Without(runs, victims)
  BY DEF Pruned
<1> DEFINE aged == {id \in Completed(runs) : runs[id].startedAt < Cutoff}
           kept == Completed(runs) \ aged
<1>2. PICK over \in SUBSET kept :
        /\ victims = aged \cup over
        /\ Cardinality(over) = Excess(Cardinality(kept), MaxRecords)
  BY <1>1 DEF PruneVictims
<1>3. /\ DOMAIN new = DOMAIN runs \ victims
      /\ \A id \in DOMAIN runs \ victims : new[id] = runs[id]
  BY <1>1, WithoutFacts
<1>4. Completed(new) = kept \ over
  BY <1>2, <1>3 DEF Completed
<1> HIDE DEF aged
<1>5. kept \subseteq DOMAIN runs
  BY DEF Completed
<1> HIDE DEF kept
<1>6. /\ IsFiniteSet(kept) /\ IsFiniteSet(over) /\ IsFiniteSet(kept \ over)
      /\ IsFiniteSet(DOMAIN new)
  BY <1>2, <1>3, <1>5, FS_Subset
<1>7. /\ Cardinality(kept) \in Nat /\ Cardinality(over) \in Nat
      /\ Cardinality(kept \ over) \in Nat
  BY <1>6, FS_CardinalityType
<1>8. Cardinality(kept \ over) = Cardinality(kept) - Cardinality(over)
  <2>1. kept \cap over = over
    BY <1>2
  <2> QED
    BY <1>6, <2>1, FS_Difference
<1>9. MaxRecords \in Nat \ {0}
  BY EngineAssumption
<1>10. Cardinality(kept \ over) <= MaxRecords
  BY <1>2, <1>7, <1>8, <1>9 DEF Excess
<1> QED
  BY <1>4, <1>6, <1>10

-----------------------------------------------------------------------------
(* Attempts at a place. *)

At(l) == {a \in Attempts : pc[a] = l}

LEMMA AtFinite ==
  ASSUME NEW l
  PROVE  /\ IsFiniteSet(At(l)) /\ Cardinality(At(l)) \in Nat
         /\ IsFiniteSet(At(l)') /\ Cardinality(At(l)') \in Nat
<1>1. IsFiniteSet(Attempts)
  BY EngineAssumption
<1>2. At(l) \subseteq Attempts /\ At(l)' \subseteq Attempts
  BY DEF At
<1> QED
  BY <1>1, <1>2, FS_Subset, FS_CardinalityType

LEMMA AtGoto ==
  ASSUME pc \in [Attempts -> Places], NEW a \in Attempts, NEW to \in Places,
         Goto(a, to), NEW l
  PROVE  /\ l # to /\ l # pc[a] => Cardinality(At(l))' = Cardinality(At(l))
         /\ l = to /\ l # pc[a] => Cardinality(At(l))' = Cardinality(At(l)) + 1
         /\ l # to /\ l = pc[a] => Cardinality(At(l))' = Cardinality(At(l)) - 1
<1>1. /\ pc'[a] = to
      /\ \A b \in Attempts \ {a} : pc'[b] = pc[b]
  BY GotoTypes
<1>2. l # to /\ l # pc[a] => At(l)' = At(l)
  BY <1>1 DEF At
<1>3. l = to /\ l # pc[a] => At(l)' = At(l) \cup {a} /\ a \notin At(l)
  BY <1>1 DEF At
<1>4. l # to /\ l = pc[a] => At(l)' = At(l) \ {a} /\ a \in At(l)
  BY <1>1 DEF At
<1> QED
  BY <1>2, <1>3, <1>4, AtFinite, FS_AddElement, FS_RemoveElement

-----------------------------------------------------------------------------
(* The bound. *)

Size == Cardinality(Completed(runs))
Counting == Cardinality(At("counting"))
Periods == faults + Cardinality(At("pruning"))

Bounded ==
    /\ IsFiniteSet(DOMAIN runs)
    /\ up => Size <= MaxRecords + runsSincePrune + Counting + PruneEveryN * Periods

LEMMA BoundedIsRetentionBound == Bounded => RetentionBound
  BY DEF Bounded, RetentionBound, Size, Counting, Periods, At

LEMMA Quantities ==
  ASSUME Types, IsFiniteSet(DOMAIN runs)
  PROVE  /\ Size \in Nat /\ Counting \in Nat /\ Periods \in Nat
         /\ PruneEveryN \in Nat \ {0} /\ MaxRecords \in Nat
         /\ runsSincePrune \in Nat /\ runsSincePrune < PruneEveryN
         /\ faults \in Nat
<1>1. IsFiniteSet(Completed(runs))
  BY FS_Subset DEF Completed
<1>2. PruneEveryN \in Nat \ {0} /\ MaxRecords \in Nat /\ MaxFaults \in Nat
  BY EngineAssumption
<1>3. faults \in Nat /\ runsSincePrune \in Nat /\ runsSincePrune < PruneEveryN
  BY <1>2 DEF Types
<1> QED
  BY <1>1, <1>2, <1>3, AtFinite, FS_CardinalityType DEF Size, Counting, Periods

LEMMA NextQuantities ==
  ASSUME Types', IsFiniteSet(DOMAIN runs')
  PROVE  /\ Size' \in Nat /\ Counting' \in Nat /\ Periods' \in Nat
         /\ PruneEveryN \in Nat \ {0} /\ MaxRecords \in Nat
         /\ runsSincePrune' \in Nat /\ faults' \in Nat
<1>1. IsFiniteSet(Completed(runs'))
  BY FS_Subset DEF Completed
<1>2. PruneEveryN \in Nat \ {0} /\ MaxRecords \in Nat /\ MaxFaults \in Nat
  BY EngineAssumption
<1>3. faults' \in Nat /\ runsSincePrune' \in Nat
  BY <1>2 DEF Types
<1> QED
  BY <1>1, <1>2, <1>3, AtFinite, FS_CardinalityType DEF Size, Counting, Periods

\* The three ways in which a step keeps the bound.
LEMMA Growing ==
  ASSUME Types, Types', Bounded, IsFiniteSet(DOMAIN runs'), up, NEW n \in {0, 1},
         Size' <= Size + n, Counting' >= Counting + n, Periods' >= Periods,
         runsSincePrune' = runsSincePrune
  PROVE  Bounded'
<1>1. /\ Size \in Nat /\ Counting \in Nat /\ Periods \in Nat
      /\ PruneEveryN \in Nat \ {0} /\ MaxRecords \in Nat /\ runsSincePrune \in Nat
  BY Quantities DEF Bounded
<1>2. Size' \in Nat /\ Counting' \in Nat /\ Periods' \in Nat
  BY NextQuantities
<1>3. PICK p \in Nat : p = PruneEveryN * Periods
  BY <1>1, PeriodFacts
<1>4. PICK q \in Nat : q = PruneEveryN * Periods'
  BY <1>1, <1>2, PeriodFacts
<1>5. p <= q
  BY <1>1, <1>2, <1>3, <1>4, PeriodFacts
<1>6. Size <= MaxRecords + runsSincePrune + Counting + p
  BY <1>3 DEF Bounded
<1>7. Size' <= MaxRecords + runsSincePrune + Counting' + q
  BY <1>1, <1>2, <1>5, <1>6, SumGrows
<1> QED
  BY <1>4, <1>7 DEF Bounded

LEMMA Small ==
  ASSUME Types', IsFiniteSet(DOMAIN runs'), Size' <= MaxRecords
  PROVE  Bounded'
<1>1. /\ Size' \in Nat /\ Counting' \in Nat /\ Periods' \in Nat
      /\ PruneEveryN \in Nat \ {0} /\ MaxRecords \in Nat /\ runsSincePrune' \in Nat
  BY NextQuantities
<1>2. PICK q \in Nat : q = PruneEveryN * Periods'
  BY <1>1, PeriodFacts
<1>3. Size' <= MaxRecords + runsSincePrune' + Counting' + q
  BY <1>1, SumBounds
<1> QED
  BY <1>2, <1>3 DEF Bounded

LEMMA Count ==
  ASSUME Types, Types', Bounded, NEW a \in Attempts, CountRun(a)
  PROVE  Bounded'
<1>1. /\ Size \in Nat /\ Counting \in Nat /\ Periods \in Nat
      /\ PruneEveryN \in Nat \ {0} /\ MaxRecords \in Nat /\ runsSincePrune \in Nat
      /\ runsSincePrune < PruneEveryN
  BY Quantities DEF Bounded
<1>2. UNCHANGED <<runs, faults>> /\ pc[a] = "counting" /\ up
  BY DEF CountRun
<1>3. Size' = Size /\ IsFiniteSet(DOMAIN runs')
  BY <1>2 DEF Size, Bounded
<1> DEFINE p == PruneEveryN * Periods
<1>4. p \in Nat /\ PruneEveryN * (Periods + 1) = p + PruneEveryN
  BY <1>1, PeriodFacts
<1>5. Size <= MaxRecords + runsSincePrune + Counting + p
  BY <1>2 DEF Bounded
<1>6. CASE runsSincePrune' = 0 /\ Goto(a, "pruning")
  <2>1. Counting' = Counting - 1 /\ Cardinality(At("pruning"))' = Cardinality(At("pruning")) + 1
    BY <1>2, <1>6, AtGoto DEF Types, Places, Counting
  <2>2. Periods' = Periods + 1
    BY <1>2, <2>1, AtFinite, Quantities DEF Periods, Bounded
  <2> HIDE DEF p
  <2>3. Size' <= MaxRecords + runsSincePrune' + Counting' + (p + PruneEveryN)
    BY <1>1, <1>3, <1>4, <1>5, <1>6, <2>1
  <2> QED
    BY <1>3, <1>4, <2>2, <2>3 DEF Bounded
<1>7. CASE runsSincePrune' = runsSincePrune + 1 /\ Goto(a, "done")
  <2>1. Counting' = Counting - 1 /\ Cardinality(At("pruning"))' = Cardinality(At("pruning"))
    BY <1>2, <1>7, AtGoto DEF Types, Places, Counting
  <2>2. Periods' = Periods
    BY <1>2, <2>1 DEF Periods
  <2> HIDE DEF p
  <2>3. Size' <= MaxRecords + runsSincePrune' + Counting' + p
    BY <1>1, <1>3, <1>4, <1>5, <1>7, <2>1
  <2> QED
    BY <1>3, <2>2, <2>3 DEF Bounded, p
<1> QED
  BY <1>6, <1>7 DEF CountRun

\* A step of an attempt that neither counts nor prunes.
LEMMA Plain ==
  ASSUME Types, Types', Bounded, NEW a \in Attempts, NEW l \in Places, Goto(a, l), up,
         pc[a] \notin {"counting", "pruning"}, l # "pruning",
         UNCHANGED runs \/
           \E id, rec : /\ runs' = Put(runs, id, rec)
                        /\ rec.status = Running \/ l = "counting",
         runsSincePrune' = runsSincePrune, faults' >= faults
  PROVE  Bounded'
<1>1. IsFiniteSet(DOMAIN runs') /\ Size' <= Size + 1
      /\ (l # "counting" => Size' <= Size)
  <2>1. CASE UNCHANGED runs
    BY <2>1, Quantities DEF Bounded, Size
  <2>2. CASE \E id, rec : /\ runs' = Put(runs, id, rec)
                          /\ rec.status = Running \/ l = "counting"
    BY <2>2, PutCompleted DEF Bounded, Size
  <2> QED
    BY <2>1, <2>2
<1>2. /\ l = "counting" => Counting' = Counting + 1
      /\ l # "counting" => Counting' = Counting
      /\ Cardinality(At("pruning"))' = Cardinality(At("pruning"))
  BY AtGoto DEF Types, Counting
<1>3. Periods' >= Periods
  <2>1. faults \in Nat /\ faults' \in Nat
    BY <1>1, Quantities, NextQuantities DEF Bounded
  <2> QED
    BY <1>2, <2>1, AtFinite DEF Periods
<1>4. Size \in Nat /\ Counting \in Nat
  BY Quantities DEF Bounded
<1>5. CASE l = "counting"
  BY <1>1, <1>2, <1>3, <1>4, <1>5, Growing
<1>6. CASE l # "counting"
  <2>1. Size' <= Size + 0 /\ Counting' >= Counting + 0
    BY <1>1, <1>2, <1>4, <1>6
  <2> QED
    BY <1>1, <1>3, <2>1, Growing
<1> QED
  BY <1>5, <1>6

LEMMA PruneBounded ==
  ASSUME Types, Types', Bounded, NEW a \in Attempts, Prune(a)
  PROVE  Bounded'
<1>1. pc[a] = "pruning" /\ Goto(a, "done") /\ up /\ runsSincePrune' = runsSincePrune
  BY DEF Prune
<1>2. CASE runs' \in Pruned
  BY <1>2, PrunedBound, Small DEF Bounded, Size
<1>3. CASE Fault /\ UNCHANGED runs
  <2>1. Size' = Size /\ IsFiniteSet(DOMAIN runs') /\ Size \in Nat /\ Counting \in Nat
    BY <1>3, Quantities DEF Size, Bounded
  <2>2. Counting' = Counting /\ Cardinality(At("pruning"))' = Cardinality(At("pruning")) - 1
    BY <1>1, AtGoto DEF Types, Places, Counting
  <2>3. Periods' = Periods
    BY <1>3, <2>2, AtFinite, Quantities DEF Periods, Fault, Bounded
  <2>4. Size' <= Size + 0 /\ Counting' >= Counting + 0 /\ Periods' >= Periods
    BY <2>1, <2>2, <2>3, Quantities DEF Bounded
  <2> QED
    BY <1>1, <2>1, <2>4, Growing
<1> QED
  BY <1>2, <1>3 DEF Prune

LEMMA StepBounded ==
  ASSUME Types, Types', Bounded, NEW a \in Attempts, Step(a)
  PROVE  Bounded'
<1>1. CASE CountRun(a)
  BY <1>1, Count
<1>2. CASE Prune(a)
  BY <1>2, PruneBounded
<1>3. faults' >= faults
  BY Quantities DEF Bounded, Fault, Step, Load, Check, SaveSkipped, SaveRunning,
                    MarkOneTimeCompleted, Finish, CountRun, Prune
<1>4. CASE Load(a) \/ Check(a) \/ MarkOneTimeCompleted(a)
  <2>1. /\ up /\ UNCHANGED <<runs, runsSincePrune>>
        /\ pc[a] \notin {"counting", "pruning"}
        /\ \E l \in Places \ {"pruning"} : Goto(a, l)
    BY <1>4 DEF Load, Check, MarkOneTimeCompleted, Places
  <2> QED
    BY <1>3, <2>1, Plain
<1>5. CASE SaveSkipped(a) \/ Finish(a)
  <2>1. /\ up /\ runsSincePrune' = runsSincePrune
        /\ pc[a] \notin {"counting", "pruning"}
    BY <1>5 DEF SaveSkipped, Finish
  <2>2. CASE Goto(a, "counting")
    <3>1. UNCHANGED runs \/ \E id, rec : runs' = Put(runs, id, rec)
      BY <1>5 DEF SaveSkipped, Finish
    <3> QED
      BY <1>3, <2>1, <2>2, <3>1, Plain DEF Places
  <2>3. CASE Goto(a, "done") /\ UNCHANGED runs
    BY <1>3, <2>1, <2>3, Plain DEF Places
  <2> QED
    BY <1>5, <2>2, <2>3 DEF SaveSkipped, Finish
<1>6. CASE SaveRunning(a)
  <2>1. /\ up /\ runsSincePrune' = runsSincePrune
        /\ pc[a] \notin {"counting", "pruning"}
        /\ \E l \in Places \ {"pruning"} : Goto(a, l)
    BY <1>6 DEF SaveRunning, Places
  <2>2. Record(a, Running, minute).status = Running
    BY DEF Record
  <2>3. \/ UNCHANGED runs
        \/ \E id, rec : runs' = Put(runs, id, rec) /\ rec.status = Running
    BY <1>6, <2>2 DEF SaveRunning
  <2> QED
    BY <1>3, <2>1, <2>3, Plain
<1> QED
  BY <1>1, <1>2, <1>4, <1>5, <1>6 DEF Step

LEMMA BeginBounded ==
  ASSUME Types, Types', Bounded, NEW a \in Attempts, NEW n \in ScheduleNames,
         Fire(a, n) \/ TriggerManual(a, n)
  PROVE  Bounded'
<1>1. /\ up /\ UNCHANGED <<runs, runsSincePrune, faults>>
      /\ pc[a] = "idle" /\ Goto(a, "called")
  BY DEF Fire, TriggerManual
<1>2. faults' >= faults
  BY <1>1, Quantities DEF Bounded
<1> QED
  BY <1>1, <1>2, Plain DEF Places

LEMMA BoundedNext ==
  ASSUME Types, Types', Bounded, [Next]_vars
  PROVE  Bounded'
<1>1. CASE UNCHANGED <<up, pc, runs, runsSincePrune, faults>>
  BY <1>1 DEF Bounded, Size, Counting, Periods, At
<1>2. ASSUME NEW o, NEW n, NEW i,
             SaveSchedule(o, n, i) \/ DeleteSchedule(n) \/ TogglePause(n) \/ NextMinute
      PROVE  Bounded'
  BY <1>1, <1>2 DEF SaveSchedule, DeleteSchedule, TogglePause, NextMinute, attempts
<1>3. CASE ClearRuns
  <2>1. Completed(runs') = {} /\ DOMAIN runs' = {}
    BY <1>3 DEF ClearRuns, Completed, EmptyLog
  <2>2. Size' = 0 /\ IsFiniteSet(DOMAIN runs')
    BY <2>1, FS_EmptySet DEF Size
  <2>3. Size' <= MaxRecords
    BY <2>2, EngineAssumption
  <2> QED
    BY <2>2, <2>3, Small
<1>4. CASE Crash
  BY <1>4 DEF Crash, Bounded
<1>5. CASE Restart
  BY <1>5, PrunedBound, Small DEF Restart, Bounded, Size
<1>6. CASE UNCHANGED vars
  BY <1>1, <1>6 DEF vars
<1> QED
  BY <1>2, <1>3, <1>4, <1>5, <1>6, StepBounded, BeginBounded DEF Next

\* For every policy, pruning period, workload and sequence of crashes and
\* failing store operations: at no moment does the log of a running process
\* hold more completed records than max_records, those counted since the last
\* pruning was decided, those not counted yet, and a period for each pruning
\* that is pending or an operation that failed.
THEOREM RetentionIsBounded == Spec => []RetentionBound
<1>1. Init => IInv /\ Bounded
  <2>1. ASSUME Init PROVE Completed(runs) = {} /\ DOMAIN runs = {}
    BY <2>1 DEF Init, Completed, EmptyLog
  <2>2. ASSUME Init PROVE Size = 0 /\ IsFiniteSet(DOMAIN runs)
    BY <2>1, <2>2, FS_EmptySet DEF Size
  <2>3. ASSUME Init PROVE Bounded
    <3>1. Types
      BY <2>3, InitTypes DEF IInv
    <3>2. Size = 0 /\ IsFiniteSet(DOMAIN runs)
      BY <2>2, <2>3
    <3>3. /\ Counting \in Nat /\ Periods \in Nat /\ MaxRecords \in Nat
          /\ runsSincePrune \in Nat /\ PruneEveryN \in Nat \ {0}
      BY <3>1, <3>2, Quantities
    <3>4. PICK p \in Nat : p = PruneEveryN * Periods
      BY <3>3, PeriodFacts
    <3>5. Size <= MaxRecords + runsSincePrune + Counting + p
      BY <3>2, <3>3, SumBounds
    <3> QED
      BY <3>2, <3>4, <3>5 DEF Bounded
  <2> QED
    BY <2>3, InitTypes
<1>2. (IInv /\ Bounded) /\ [Next]_vars => (IInv /\ Bounded)'
  BY NextTypes, BoundedNext DEF IInv
<1>3. Bounded => RetentionBound
  BY BoundedIsRetentionBound
<1> QED
  BY <1>1, <1>2, <1>3, PTL DEF Spec
-----------------------------------------------------------------------------
(* What blocks a schedule. *)

Lost == At("lost")

\* BlockedOnlyByFailures is inductive: a record becomes unowned only when its
\* last attempt leaves, and then one more failure or lost attempt is counted.
Blocked ==
    /\ IsFiniteSet(DOMAIN runs)
    /\ Cardinality(Unowned) <= faults + Cardinality(Lost)

LEMMA BlockedIsProperty == Blocked => BlockedOnlyByFailures
  BY DEF Blocked, BlockedOnlyByFailures, Lost, At

LEMMA UnownedFinite ==
  /\ IsFiniteSet(DOMAIN runs) => IsFiniteSet(Unowned) /\ Cardinality(Unowned) \in Nat
  /\ IsFiniteSet(DOMAIN runs') => IsFiniteSet(Unowned') /\ Cardinality(Unowned') \in Nat
<1>1. Unowned \subseteq DOMAIN runs /\ Unowned' \subseteq DOMAIN runs'
  BY DEF Unowned
<1> QED
  BY <1>1, FS_Subset, FS_CardinalityType

\* The log stays finite.
LEMMA FiniteNext ==
  ASSUME IsFiniteSet(DOMAIN runs), [Next]_vars
  PROVE  IsFiniteSet(DOMAIN runs')
<1>1. CASE DOMAIN runs' \subseteq DOMAIN runs
  BY <1>1, FS_Subset
<1>2. CASE runs' \in Pruned \/ UNCHANGED runs
  BY <1>1, <1>2, PrunedKeeps
<1>3. ASSUME NEW a \in Attempts, Step(a)
      PROVE  IsFiniteSet(DOMAIN runs')
  <2>1. \/ runs' \in Pruned \/ UNCHANGED runs
        \/ \E rec : runs' = Put(runs, IdOf(a), rec)
    BY <1>3 DEF Step, Load, Check, SaveSkipped, SaveRunning, MarkOneTimeCompleted,
                Finish, CountRun, Prune
  <2> QED
    BY <1>2, <2>1, PutCompleted
<1>4. ASSUME NEW a, NEW n, Fire(a, n) \/ TriggerManual(a, n)
      PROVE  UNCHANGED runs
  BY <1>4 DEF Fire, TriggerManual
<1>5. CASE ClearRuns
  <2>1. DOMAIN runs' = {}
    BY <1>5 DEF ClearRuns, EmptyLog
  <2> QED
    BY <1>1, <2>1
<1>6. Crash \/ Restart \/ UNCHANGED vars => runs' \in Pruned \/ UNCHANGED runs
  BY DEF Crash, Restart, vars
<1> QED
  BY <1>2, <1>3, <1>4, <1>5, <1>6, OthersKeep DEF Next

\* The two ways in which a step keeps the bound.
LEMMA UnownedShrinks ==
  ASSUME Types, Types', Blocked, IsFiniteSet(DOMAIN runs'),
         Unowned' \subseteq Unowned, faults' >= faults,
         Cardinality(Lost') >= Cardinality(Lost)
  PROVE  Blocked'
<1>1. /\ IsFiniteSet(Unowned) /\ Cardinality(Unowned) \in Nat
      /\ Cardinality(Unowned') \in Nat
  BY UnownedFinite DEF Blocked
<1>2. Cardinality(Unowned') <= Cardinality(Unowned)
  BY <1>1, FS_Subset
<1>3. faults \in Nat /\ faults' \in Nat
  BY EngineAssumption DEF Types
<1> QED
  BY <1>1, <1>2, <1>3, AtFinite DEF Blocked, Lost

LEMMA UnownedGrows ==
  ASSUME Types, Blocked, IsFiniteSet(DOMAIN runs'), NEW left, IsFiniteSet(left),
         Unowned' \subseteq Unowned \cup left,
         NEW n \in Nat, Cardinality(left) <= n,
         faults' + Cardinality(Lost') >= faults + Cardinality(Lost) + n,
         faults' \in Nat
  PROVE  Blocked'
<1>1. /\ IsFiniteSet(Unowned) /\ Cardinality(Unowned) \in Nat
      /\ Cardinality(Unowned') \in Nat /\ Cardinality(left) \in Nat
      /\ Cardinality(Unowned \cap left) \in Nat
  BY UnownedFinite, FS_CardinalityType, FS_Intersection DEF Blocked
<1>2. /\ IsFiniteSet(Unowned \cup left)
      /\ Cardinality(Unowned \cup left) =
           Cardinality(Unowned) + Cardinality(left) - Cardinality(Unowned \cap left)
  BY <1>1, FS_Union
<1>3. Cardinality(Unowned') <= Cardinality(Unowned \cup left)
  BY <1>2, FS_Subset
<1>4. faults \in Nat
  BY EngineAssumption DEF Types
<1> QED
  BY <1>1, <1>2, <1>3, <1>4, AtFinite DEF Blocked, Lost

\* Nobody stops being live, and only who is live then has made a record running.
LEMMA OwnersStay ==
  ASSUME \A a \in Attempts : Live(a) => Live(a)' /\ IdOf(a)' = IdOf(a),
         \A id : IsRunning(id)' =>
             IsRunning(id) \/ \E a \in Attempts : Live(a)' /\ IdOf(a)' = id
  PROVE  Unowned' \subseteq Unowned
  BY DEF Unowned, IsRunning

LEMMA LostGoto ==
  ASSUME Types, NEW a \in Attempts, NEW l \in Places \ {"lost"}, Goto(a, l), pc[a] # "lost"
  PROVE  Cardinality(Lost') = Cardinality(Lost)
  BY AtGoto DEF Types, Lost
LEMMA FinishBlocked ==
  ASSUME Types, Types', Blocked, NEW a \in Attempts, Finish(a)
  PROVE  Blocked'
<1>1. Moves(a) /\ pc[a] = "running" /\ Goto(a, "counting")
  BY StepMoves DEF Step, Finish
<1>2. Cardinality(Lost') = Cardinality(Lost)
  BY <1>1, LostGoto DEF Places
<1>3. \A b \in Attempts \ {a} : IdOf(b)' = IdOf(b) /\ (Live(b) => Live(b)')
  BY <1>1 DEF Moves, IdOf, Live
<1>4. faults \in Nat /\ faults' \in Nat /\ Cardinality(Lost) \in Nat
  BY EngineAssumption, AtFinite DEF Types, Lost
<1>5. CASE Fault /\ UNCHANGED runs
  <2>1. Unowned' \subseteq Unowned \cup {IdOf(a)}
    BY <1>3, <1>5 DEF Unowned, IsRunning
  <2>2. IsFiniteSet({IdOf(a)}) /\ Cardinality({IdOf(a)}) = 1
    BY FS_Singleton
  <2>3. IsFiniteSet(DOMAIN runs') /\ faults' = faults + 1
    BY <1>5 DEF Blocked, Fault
  <2> QED
    BY <1>2, <1>4, <2>1, <2>2, <2>3, UnownedGrows
<1>6. CASE /\ runs' = Put(runs, IdOf(a), Record(a, "finished", job[a].startedAt))
           /\ UNCHANGED faults
  <2> DEFINE rec == Record(a, "finished", job[a].startedAt)
  <2>1. rec.status # Running
    BY DEF Record, Running
  <2> HIDE DEF rec
  <2>2. /\ DOMAIN runs' = DOMAIN runs \cup {IdOf(a)}
        /\ runs'[IdOf(a)] = rec
        /\ \A id \in DOMAIN runs \ {IdOf(a)} : runs'[id] = runs[id]
    BY <1>6 DEF Put, rec
  <2>3. Unowned' \subseteq Unowned
    <3>1. ASSUME NEW id \in Unowned' PROVE id \in Unowned
      <4>1. id # IdOf(a) /\ IsRunning(id)
        BY <2>1, <2>2, <3>1 DEF Unowned, IsRunning
      <4>2. ~\E b \in Attempts : Live(b) /\ IdOf(b) = id
        BY <1>3, <3>1, <4>1 DEF Unowned
      <4> QED
        BY <4>1, <4>2 DEF Unowned, IsRunning
    <3> QED
      BY <3>1
  <2>4. IsFiniteSet(DOMAIN runs')
    BY <2>2, FS_AddElement DEF Blocked
  <2> QED
    BY <1>2, <1>4, <1>6, <2>3, <2>4, UnownedShrinks
<1> QED
  BY <1>5, <1>6 DEF Finish

LEMMA StepBlocked ==
  ASSUME Types, Types', Blocked, IsFiniteSet(DOMAIN runs'), NEW a \in Attempts, Step(a)
  PROVE  Blocked'
<1>1. CASE Finish(a)
  BY <1>1, FinishBlocked
<1>2. Moves(a) /\ pc[a] # "idle" /\ IdOf(a)' = IdOf(a)
  BY StepMoves DEF Moves
<1>3. Cardinality(Lost') = Cardinality(Lost)
  <2>1. pc[a] # "lost" /\ \E l \in Places \ {"lost"} : Goto(a, l)
    BY DEF Step, Load, Check, SaveSkipped, SaveRunning, MarkOneTimeCompleted,
           Finish, CountRun, Prune, Places
  <2> QED
    BY <2>1, LostGoto
<1>4. faults' >= faults
  <2>1. faults \in Nat
    BY EngineAssumption DEF Types
  <2> QED
    BY <2>1 DEF Fault, Step, Load, Check, SaveSkipped, SaveRunning,
                MarkOneTimeCompleted, Finish, CountRun, Prune
<1>5. Cardinality(Lost') >= Cardinality(Lost)
  BY <1>3, AtFinite DEF Lost
<1>6. ASSUME Live(a) => Live(a)',
             \A id : IsRunning(id)' => IsRunning(id) \/ (Live(a)' /\ IdOf(a) = id)
      PROVE  Blocked'
  <2>1. \A b \in Attempts : Live(b) => Live(b)' /\ IdOf(b)' = IdOf(b)
    BY <1>2, <1>6 DEF Moves, IdOf, Live
  <2>2. Unowned' \subseteq Unowned
    BY <1>2, <1>6, <2>1, OwnersStay
  <2> QED
    BY <1>4, <1>5, <2>2, UnownedShrinks
<1>7. CASE Load(a) \/ Check(a) \/ CountRun(a) \/ Prune(a)
  <2>1. ~Live(a) /\ (runs' \in Pruned \/ UNCHANGED runs)
    BY <1>7 DEF Load, Check, CountRun, Prune, Live
  <2>2. \A id : IsRunning(id)' => IsRunning(id)
    BY <2>1, PrunedKeeps DEF IsRunning
  <2> QED
    BY <1>6, <2>1, <2>2
<1>8. CASE MarkOneTimeCompleted(a)
  <2>1. Goto(a, "running") /\ UNCHANGED runs
    BY <1>8 DEF MarkOneTimeCompleted
  <2>2. Live(a)'
    BY <2>1, GotoTypes DEF Types, Places, Live
  <2>3. \A id : IsRunning(id)' => IsRunning(id)
    BY <2>1 DEF IsRunning
  <2> QED
    BY <1>6, <2>2, <2>3
<1>9. CASE SaveSkipped(a)
  <2>1. ~Live(a)
    BY <1>9 DEF SaveSkipped, Live
  <2> DEFINE rec == Record(a, "skipped", minute)
  <2>2. rec.status # Running
    BY DEF Record, Running
  <2>3. UNCHANGED runs \/ runs' = Put(runs, IdOf(a), rec)
    BY <1>9 DEF SaveSkipped
  <2> HIDE DEF rec
  <2>4. \A id : IsRunning(id)' => IsRunning(id)
    <3>1. CASE UNCHANGED runs
      BY <3>1 DEF IsRunning
    <3>2. CASE runs' = Put(runs, IdOf(a), rec)
      <4>1. /\ DOMAIN runs' = DOMAIN runs \cup {IdOf(a)}
            /\ runs'[IdOf(a)] = rec
            /\ \A id \in DOMAIN runs \ {IdOf(a)} : runs'[id] = runs[id]
        BY <3>2 DEF Put
      <4> QED
        BY <2>2, <4>1 DEF IsRunning
    <3> QED
      BY <2>3, <3>1, <3>2
  <2> QED
    BY <1>6, <2>1, <2>4
<1>10. CASE SaveRunning(a)
  <2>1. ~Live(a)
    BY <1>10 DEF SaveRunning, Live
  <2>2. CASE UNCHANGED runs
    <3>1. \A id : IsRunning(id)' => IsRunning(id)
      BY <2>2 DEF IsRunning
    <3> QED
      BY <1>6, <2>1, <3>1
  <2>3. CASE /\ \E l \in {"marking", "running"} : Goto(a, l)
             /\ runs' = Put(runs, IdOf(a), Record(a, Running, minute))
    <3>1. Live(a)'
      BY <2>3, GotoTypes DEF Types, Places, Live
    <3>2. /\ DOMAIN runs' = DOMAIN runs \cup {IdOf(a)}
          /\ \A id \in DOMAIN runs \ {IdOf(a)} : runs'[id] = runs[id]
      BY <2>3 DEF Put
    <3>3. \A id : IsRunning(id)' => IsRunning(id) \/ IdOf(a) = id
      BY <3>2 DEF IsRunning
    <3> QED
      BY <1>6, <2>1, <3>1, <3>3
  <2> QED
    BY <1>10, <2>2, <2>3 DEF SaveRunning
<1> QED
  BY <1>1, <1>7, <1>8, <1>9, <1>10 DEF Step

\* A crash leaves at most one record for each attempt that was live.
LEMMA CrashBlocked ==
  ASSUME Types, Types', Blocked, Crash
  PROVE  Blocked'
<1> DEFINE live == {a \in Attempts : Live(a)}
           left == {IdOf(a) : a \in live}
           leaving == [a \in live |-> IdOf(a)]
<1>1. IsFiniteSet(live)
  <2>1. IsFiniteSet(Attempts) /\ live \subseteq Attempts
    BY EngineAssumption
  <2> QED
    BY <2>1, FS_Subset
<1>2. leaving \in Surjection(live, left)
  BY DEF Surjection
<1>3. IsFiniteSet(left) /\ Cardinality(left) <= Cardinality(live) /\ Cardinality(live) \in Nat
  BY <1>1, <1>2, FS_Surjection, FS_CardinalityType
<1>4. Unowned' \subseteq Unowned \cup left
  BY DEF Unowned, IsRunning, Crash
<1>5. IsFiniteSet(DOMAIN runs') /\ faults' = faults /\ faults \in Nat
  BY EngineAssumption DEF Blocked, Crash, Types
<1>6. Cardinality(Lost') >= Cardinality(Lost) + Cardinality(live)
  <2>1. Lost \cup live \subseteq Lost'
    BY DEF Lost, At, Crash, Live, Types
  <2>2. Lost \cap live = {}
    BY DEF Lost, At, Live
  <2> HIDE DEF live
  <2>3. IsFiniteSet(Lost) /\ IsFiniteSet(Lost') /\ Cardinality(Lost) \in Nat
        /\ Cardinality(Lost') \in Nat
    BY AtFinite DEF Lost
  <2>4. /\ IsFiniteSet(Lost \cup live)
        /\ Cardinality(Lost \cup live) =
             Cardinality(Lost) + Cardinality(live) - Cardinality({})
    BY <1>1, <2>2, <2>3, FS_Union
  <2>5. Cardinality(Lost \cup live) <= Cardinality(Lost')
    BY <2>1, <2>3, FS_Subset
  <2> QED
    BY <1>3, <2>3, <2>4, <2>5, FS_EmptySet
<1> HIDE DEF live, left
<1>7. faults' + Cardinality(Lost') >= faults + Cardinality(Lost) + Cardinality(live)
  BY <1>3, <1>5, <1>6, AtFinite DEF Lost
<1> QED
  BY <1>3, <1>4, <1>5, <1>7, UnownedGrows

LEMMA BlockedNext ==
  ASSUME Types, Types', Blocked, [Next]_vars
  PROVE  Blocked'
<1>1. IsFiniteSet(DOMAIN runs')
  BY FiniteNext DEF Blocked
<1>2. ASSUME faults' = faults, Cardinality(Lost') = Cardinality(Lost),
             \A a \in Attempts : Live(a) => Live(a)' /\ IdOf(a)' = IdOf(a),
             runs' \in Pruned \/ UNCHANGED runs \/ DOMAIN runs' = {}
      PROVE  Blocked'
  <2>1. \A id : IsRunning(id)' => IsRunning(id)
    BY <1>2, PrunedKeeps DEF IsRunning
  <2>2. Unowned' \subseteq Unowned
    BY <1>2, <2>1, OwnersStay
  <2>3. faults' >= faults /\ Cardinality(Lost') >= Cardinality(Lost)
    <3>1. faults \in Nat
      BY EngineAssumption DEF Types
    <3> QED
      BY <1>2, <3>1, AtFinite DEF Lost
  <2> QED
    BY <1>1, <2>2, <2>3, UnownedShrinks
<1>3. ASSUME UNCHANGED <<pc, job, faults>>,
             runs' \in Pruned \/ UNCHANGED runs \/ DOMAIN runs' = {}
      PROVE  Blocked'
  <2>1. Lost' = Lost /\ \A a \in Attempts : Live(a) => Live(a)' /\ IdOf(a)' = IdOf(a)
    BY <1>3 DEF Lost, At, Live, IdOf
  <2> QED
    BY <1>2, <1>3, <2>1
<1>4. ASSUME NEW a \in Attempts, NEW n \in ScheduleNames, Fire(a, n) \/ TriggerManual(a, n)
      PROVE  Blocked'
  <2>1. Moves(a) /\ pc[a] = "idle" /\ Goto(a, "called") /\ UNCHANGED <<runs, faults>>
    BY <1>4, BeginMoves DEF Fire, TriggerManual
  <2>2. Cardinality(Lost') = Cardinality(Lost)
    BY <2>1, LostGoto DEF Places
  <2>3. \A b \in Attempts : Live(b) => Live(b)' /\ IdOf(b)' = IdOf(b)
    BY <2>1 DEF Moves, Live, IdOf
  <2> QED
    BY <1>2, <2>1, <2>2, <2>3
<1>5. CASE ClearRuns
  <2>1. DOMAIN runs' = {} /\ UNCHANGED <<pc, job, faults>>
    BY <1>5 DEF ClearRuns, EmptyLog, attempts
  <2> QED
    BY <1>3, <2>1
<1>6. CASE Restart
  BY <1>3, <1>6 DEF Restart
<1>7. CASE UNCHANGED vars
  BY <1>3, <1>7 DEF vars
<1>8. ASSUME NEW o, NEW n, NEW i,
             SaveSchedule(o, n, i) \/ DeleteSchedule(n) \/ TogglePause(n) \/ NextMinute
      PROVE  Blocked'
  <2>1. UNCHANGED faults
    BY <1>8 DEF SaveSchedule, DeleteSchedule, TogglePause, NextMinute
  <2> QED
    BY <1>3, <1>8, <2>1, OthersKeep
<1> QED
  BY <1>1, <1>4, <1>5, <1>6, <1>7, <1>8, StepBlocked, CrashBlocked DEF Next

\* However attempts share ids, fail, crash, and are pruned or cleared: the log
\* never holds more running records without a live attempt than store operations
\* have failed and attempts were lost in a crash.
THEOREM OnlyFailuresBlock == Spec => []BlockedOnlyByFailures
<1>1. Init => IInv /\ Blocked
  <2> SUFFICES ASSUME Init PROVE Blocked
    BY InitTypes
  <2>1. DOMAIN runs = {}
    BY DEF Init, EmptyLog
  <2>2. Unowned = {}
    BY <2>1 DEF Unowned
  <2>3. IsFiniteSet(DOMAIN runs) /\ Cardinality(Unowned) = 0
    BY <2>1, <2>2, FS_EmptySet
  <2>4. faults = 0
    BY DEF Init
  <2> QED
    BY <2>3, <2>4, AtFinite DEF Blocked, Lost
<1>2. (IInv /\ Blocked) /\ [Next]_vars => (IInv /\ Blocked)'
  BY NextTypes, BlockedNext DEF IInv
<1>3. Blocked => BlockedOnlyByFailures
  BY BlockedIsProperty
<1> QED
  BY <1>1, <1>2, <1>3, PTL DEF Spec
-----------------------------------------------------------------------------
(* How often a one-time schedule runs. *)

\* A fire that has run or can still come to it, and one that will not mark its
\* schedule completed any more.
Goes(a) ==
    /\ job[a].by = "scheduler"
    /\ \/ pc[a] \in {"called", "checking", "admitted"}
       \/ job[a].startedAt > 0 /\ pc[a] # "lost"

Unmarks(a) ==
    /\ Goes(a)
    /\ pc[a] \notin {"called", "marking"}
    /\ pc[a] \in {"checking", "admitted"} => job[a].sched.kind # "once"

\* Those for one time of a schedule.
Going(n, at) == {a \in Attempts : job[a].name = n /\ job[a].at = at /\ Goes(a)}
Unmarking(n, at) == {a \in Attempts : job[a].name = n /\ job[a].at = at /\ Unmarks(a)}

Pending(n, at) ==
    /\ n \in DOMAIN entries /\ entries[n].armed
    /\ entries[n].copy.kind = "once" /\ entries[n].copy.runAt = at

Incomplete(n, at) ==
    /\ n \in DOMAIN stored
    /\ stored[n].kind = "once" /\ stored[n].runAt = at /\ ~stored[n].completed

Permits(n) == (IF n \in SeedNames THEN 1 ELSE 0) + ops + faults

\* A fire takes the permit of the entry that fired it.  What a start can register
\* besides is paid for: a schedule stored as not completed by the permit that the
\* fires which will still mark it have, the schedules of the file by the request
\* that emptied the store.
Planned(n, at) ==
    /\ Cardinality(Going(n, at)) <= Permits(n)
    /\ Pending(n, at) \/ (n \in SeedNames /\ DOMAIN stored = {}) =>
           Cardinality(Going(n, at)) + 1 <= Permits(n)
    /\ Incomplete(n, at) => Cardinality(Unmarking(n, at)) + 1 <= Permits(n)

AllPlanned == \A n \in ScheduleNames, at \in RunAts \ Minutes : Planned(n, at)

\* Memory and store agree while the process runs, and no attempt goes on while it
\* does not; started_at is that of the attempt's own SaveRun.
InStep ==
    /\ up => stored = schedules
    /\ ~up => \A a \in Attempts : pc[a] \in {"idle", "done", "lost"}
    /\ \A a \in Attempts :
           pc[a] \in {"called", "checking", "admitted"} => job[a].startedAt = 0

LEMMA GoingFinite ==
  ASSUME NEW n, NEW at
  PROVE  /\ IsFiniteSet(Going(n, at)) /\ Cardinality(Going(n, at)) \in Nat
         /\ IsFiniteSet(Going(n, at)') /\ Cardinality(Going(n, at)') \in Nat
         /\ IsFiniteSet(Unmarking(n, at)) /\ Cardinality(Unmarking(n, at)) \in Nat
         /\ IsFiniteSet(Unmarking(n, at)') /\ Cardinality(Unmarking(n, at)') \in Nat
         /\ Cardinality(Unmarking(n, at)) <= Cardinality(Going(n, at))
         /\ Cardinality(Unmarking(n, at)') <= Cardinality(Going(n, at)')
<1>1. IsFiniteSet(Attempts)
  BY EngineAssumption
<1>2. Going(n, at) \subseteq Attempts /\ Going(n, at)' \subseteq Attempts
  BY DEF Going
<1>3. Unmarking(n, at) \subseteq Going(n, at) /\ Unmarking(n, at)' \subseteq Going(n, at)'
  BY DEF Going, Unmarking, Unmarks
<1>4. IsFiniteSet(Going(n, at)) /\ IsFiniteSet(Going(n, at)')
  BY <1>1, <1>2, FS_Subset
<1> QED
  BY <1>3, <1>4, FS_Subset, FS_CardinalityType

LEMMA SumType ==
  ASSUME NEW i \in Nat, NEW j \in Nat, NEW k \in Nat
  PROVE  i + j + k \in Nat
  OBVIOUS

LEMMA PermitsType ==
  ASSUME NEW n
  PROVE  /\ Types => ops \in Nat /\ faults \in Nat /\ Permits(n) \in Nat
         /\ Types' => ops' \in Nat /\ faults' \in Nat /\ Permits(n)' \in Nat
<1> DEFINE seeds == IF n \in SeedNames THEN 1 ELSE 0
<1>1. seeds \in Nat
  OBVIOUS
<1>2. Permits(n) = seeds + ops + faults /\ Permits(n)' = seeds + ops' + faults'
  BY DEF Permits
<1> HIDE DEF seeds
<1>3. ASSUME Types PROVE ops \in Nat /\ faults \in Nat
  BY <1>3, EngineAssumption DEF Types
<1>4. ASSUME Types' PROVE ops' \in Nat /\ faults' \in Nat
  BY <1>4, EngineAssumption DEF Types
<1>5. ASSUME Types PROVE seeds + ops + faults \in Nat
  BY <1>1, <1>3, <1>5, SumType
<1>6. ASSUME Types' PROVE seeds + ops' + faults' \in Nat
  BY <1>1, <1>4, <1>6, SumType
<1> QED
  BY <1>2, <1>3, <1>4, <1>5, <1>6

\* Every run counted by the property is one that goes.
LEMMA PlannedIsProperty == Types /\ AllPlanned => OnceRunsOnce
<1> SUFFICES ASSUME Types, AllPlanned, NEW n \in ScheduleNames, NEW at \in RunAts \ Minutes
             PROVE  Cardinality({a \in RunsFor(n, at) : pc[a] # "lost"}) <= Permits(n)
  BY DEF OnceRunsOnce, Permits
<1> DEFINE ran == {a \in RunsFor(n, at) : pc[a] # "lost"}
<1>1. ran \subseteq Going(n, at)
  BY DEF RunsFor, Going, Goes
<1> HIDE DEF ran
<1>2. Cardinality(ran) <= Cardinality(Going(n, at)) /\ Cardinality(ran) \in Nat
  BY <1>1, GoingFinite, FS_Subset, FS_CardinalityType
<1>3. Cardinality(Going(n, at)) <= Permits(n)
  BY DEF AllPlanned, Planned
<1>4. Cardinality(ran) <= Permits(n)
  BY <1>2, <1>3, GoingFinite, PermitsType
<1> QED
  BY <1>4 DEF ran

LEMMA OneMore ==
  ASSUME NEW S, IsFiniteSet(S), NEW x
  PROVE  /\ IsFiniteSet(S \cup {x})
         /\ Cardinality(S \cup {x}) \in Nat
         /\ Cardinality(S \cup {x}) <= Cardinality(S) + 1
<1>1. IsFiniteSet(S \cup {x})
  BY FS_AddElement
<1>2. Cardinality(S) \in Nat /\ Cardinality(S \cup {x}) \in Nat
  BY <1>1, FS_CardinalityType
<1>3. Cardinality(S \cup {x}) = IF x \in S THEN Cardinality(S) ELSE Cardinality(S) + 1
  BY FS_AddElement
<1> QED
  BY <1>1, <1>2, <1>3

\* The ways in which a step keeps a plan: nothing is added, or one more event is
\* counted.
LEMMA PlanKept ==
  ASSUME Types, Types', NEW n, NEW at, Planned(n, at), UNCHANGED <<ops, faults>>,
         Going(n, at)' \subseteq Going(n, at),
         Pending(n, at)' => Pending(n, at),
         n \in SeedNames /\ DOMAIN stored' = {} => DOMAIN stored = {},
         Incomplete(n, at)' =>
             Incomplete(n, at) /\ Unmarking(n, at)' \subseteq Unmarking(n, at)
  PROVE  Planned(n, at)'
<1>1. Permits(n)' = Permits(n) /\ Permits(n) \in Nat
  BY PermitsType DEF Permits
<1>2. Cardinality(Going(n, at)') <= Cardinality(Going(n, at))
  BY GoingFinite, FS_Subset
<1>3. Incomplete(n, at)' => Cardinality(Unmarking(n, at)') <= Cardinality(Unmarking(n, at))
  BY GoingFinite, FS_Subset
<1>4. Cardinality(Going(n, at)') <= Permits(n)'
  BY <1>1, <1>2, GoingFinite DEF Planned
<1>5. Pending(n, at)' \/ (n \in SeedNames /\ DOMAIN stored' = {}) =>
          Cardinality(Going(n, at)') + 1 <= Permits(n)'
  BY <1>1, <1>2, GoingFinite DEF Planned
<1>6. Incomplete(n, at)' => Cardinality(Unmarking(n, at)') + 1 <= Permits(n)'
  BY <1>1, <1>3, GoingFinite DEF Planned
<1> QED
  BY <1>4, <1>5, <1>6 DEF Planned

LEMMA PlanGranted ==
  ASSUME Types, Types', NEW n, NEW at, Planned(n, at),
         ops' + faults' = ops + faults + 1, Going(n, at)' \subseteq Going(n, at)
  PROVE  Planned(n, at)'
<1>1. Permits(n)' = Permits(n) + 1 /\ Permits(n) \in Nat
  BY PermitsType DEF Permits
<1>2. Cardinality(Going(n, at)') <= Cardinality(Going(n, at))
  BY GoingFinite, FS_Subset
<1>3. Cardinality(Going(n, at)) <= Permits(n)
  BY DEF Planned
<1>4. /\ Cardinality(Going(n, at)') + 1 <= Permits(n)'
      /\ Cardinality(Unmarking(n, at)') + 1 <= Permits(n)'
      /\ Cardinality(Going(n, at)') <= Permits(n)'
  BY <1>1, <1>2, <1>3, GoingFinite
<1> QED
  BY <1>4 DEF Planned

\* A step of attempt a decides by itself what becomes of the two sets.
LEMMA OneGoes ==
  ASSUME NEW a \in Attempts, Moves(a), pc[a] # "idle", NEW n, NEW at
  PROVE  /\ (Goes(a)' => Goes(a)) => Going(n, at)' \subseteq Going(n, at)
         /\ (Unmarks(a)' => Unmarks(a) \/ job[a].name # n) =>
                Unmarking(n, at)' \subseteq Unmarking(n, at)
<1>1. job'[a].name = job[a].name /\ job'[a].by = job[a].by /\ job'[a].at = job[a].at
  BY DEF Moves, IdOf
<1>2. \A b \in Attempts \ {a} : (Goes(b)' <=> Goes(b)) /\ (Unmarks(b)' <=> Unmarks(b))
  BY DEF Moves, Goes, Unmarks
<1>3. \A b \in Attempts \ {a} : job'[b] = job[b]
  BY DEF Moves
<1> QED
  BY <1>1, <1>2, <1>3 DEF Going, Unmarking
LEMMA InStepNext ==
  ASSUME Types, InStep, [Next]_vars
  PROVE  InStep'
<1>1. ASSUME UNCHANGED <<up, stored, schedules, pc, job>>
      PROVE  InStep'
  BY <1>1 DEF InStep
<1>2. ASSUME NEW a \in Attempts, Step(a)
      PROVE  InStep'
  <2>1. Moves(a) /\ up /\ up' = up
    BY <1>2, StepMoves DEF Step, Load, Check, SaveSkipped, SaveRunning,
                           MarkOneTimeCompleted, Finish, CountRun, Prune, world
  <2>2. stored' = schedules'
    BY <1>2, <2>1 DEF InStep, Step, Load, Check, SaveSkipped, SaveRunning,
                      MarkOneTimeCompleted, Finish, CountRun, Prune, catalog
  <2>3. pc'[a] \in {"called", "checking", "admitted"} => job'[a].startedAt = 0
    <3>1. CASE Load(a) \/ Check(a)
      <4>1. /\ pc[a] \in {"called", "checking"}
            /\ UNCHANGED job \/ \E s : job' = [job EXCEPT ![a].sched = s]
        BY <3>1 DEF Load, Check
      <4>2. job'[a].startedAt = job[a].startedAt
        BY <4>1 DEF Types, JobType
      <4> QED
        BY <4>1, <4>2 DEF InStep
    <3>2. CASE ~(Load(a) \/ Check(a))
      <4>1. \E l \in Places \ {"called", "checking", "admitted"} : Goto(a, l)
        BY <1>2, <3>2 DEF Step, SaveSkipped, SaveRunning, MarkOneTimeCompleted,
                          Finish, CountRun, Prune, Places
      <4> QED
        BY <4>1, GotoTypes DEF Types
    <3> QED
      BY <3>1, <3>2
  <2> QED
    BY <2>1, <2>2, <2>3 DEF InStep, Moves
<1>3. ASSUME NEW a \in Attempts, NEW n \in ScheduleNames, Fire(a, n) \/ TriggerManual(a, n)
      PROVE  InStep'
  <2>1. Moves(a) /\ up /\ UNCHANGED <<up, stored, schedules>>
    BY <1>3, BeginMoves DEF Fire, TriggerManual, catalog, world
  <2>2. job'[a].startedAt = 0
    <3>1. PICK j : job' = [job EXCEPT ![a] = j] /\ j.startedAt = 0
      <4>1. [NoJob EXCEPT !.name = n, !.at = ScheduledAt(entries[n].copy)].startedAt = 0
        BY DEF NoJob
      <4>2. [NoJob EXCEPT !.name = n, !.by = "manual", !.at = a].startedAt = 0
        BY DEF NoJob
      <4> QED
        BY <1>3, <4>1, <4>2 DEF Fire, TriggerManual
    <3> QED
      BY <3>1 DEF Types
  <2> QED
    BY <2>1, <2>2 DEF InStep, Moves
<1>4. ASSUME NEW o, NEW n, NEW i, SaveSchedule(o, n, i) \/ DeleteSchedule(n) \/ TogglePause(n)
      PROVE  InStep'
  <2>1. up /\ UNCHANGED <<up, pc, job>> /\ stored' = schedules'
    BY <1>4 DEF SaveSchedule, DeleteSchedule, TogglePause, Request, attempts, InStep
  <2> QED
    BY <2>1 DEF InStep
<1>5. CASE Crash
  <2>1. \A a \in Attempts : pc'[a] \in {"idle", "done", "lost"}
    BY <1>5 DEF Crash
  <2> QED
    BY <1>5, <2>1 DEF Crash, InStep
<1>6. CASE Restart
  BY <1>6 DEF Restart, InStep
<1>7. CASE ClearRuns \/ NextMinute \/ UNCHANGED vars
  BY <1>1, <1>7 DEF ClearRuns, NextMinute, vars, attempts, catalog
<1> QED
  BY <1>2, <1>3, <1>4, <1>5, <1>6, <1>7 DEF Next

\* A fire uses up its entry and goes.
LEMMA FirePlanned ==
  ASSUME Types, Types', Followed, NEW a \in Attempts, NEW m \in ScheduleNames, Fire(a, m),
         InStep, NEW n \in ScheduleNames, NEW at \in RunAts \ Minutes, Planned(n, at)
  PROVE  Planned(n, at)'
<1> DEFINE t == ScheduledAt(entries[m].copy)
<1>1. /\ up /\ UNCHANGED <<up, ops, faults, stored>> /\ Moves(a) /\ pc[a] = "idle"
      /\ pc'[a] = "called" /\ m \in DOMAIN entries /\ entries[m].armed
  BY BeginMoves DEF Fire
<1>2. job'[a].name = m /\ job'[a].at = t
  <2> DEFINE j == [NoJob EXCEPT !.name = m, !.at = t]
  <2>1. j.name = m /\ j.at = t
    BY DEF NoJob
  <2>2. job' = [job EXCEPT ![a] = j]
    BY DEF Fire
  <2> HIDE DEF j, t
  <2> QED
    BY <2>1, <2>2 DEF Types
<1>3. \A b \in Attempts \ {a} : /\ job'[b] = job[b]
                                /\ (Goes(b)' <=> Goes(b)) /\ (Unmarks(b)' <=> Unmarks(b))
  BY <1>1 DEF Moves, Goes, Unmarks
<1>4. ~Unmarks(a)'
  BY <1>1 DEF Unmarks
<1>5. Unmarking(n, at)' \subseteq Unmarking(n, at)
  BY <1>3, <1>4 DEF Unmarking
<1>6. /\ Going(n, at)' \subseteq Going(n, at) \cup {a}
      /\ ~(m = n /\ t = at) => Going(n, at)' \subseteq Going(n, at)
  BY <1>2, <1>3 DEF Going
<1>7. Incomplete(n, at)' <=> Incomplete(n, at)
  BY <1>1 DEF Incomplete
<1>8. CASE entries[m].copy.kind = "once"
  <2>1. /\ DOMAIN entries' = DOMAIN entries
        /\ \A k \in DOMAIN entries \ {m} : entries'[k] = entries[k]
        /\ entries'[m].armed = FALSE /\ entries'[m].copy = entries[m].copy
        /\ t = entries[m].copy.runAt
    BY <1>1, <1>8 DEF Fire, ScheduledAt, Types, Partial, EntryType, EntryOf
  <2>2. Pending(n, at)' => Pending(n, at)
    BY <2>1 DEF Pending
  <2>3. CASE m = n /\ t = at
    <3>1. Pending(n, at) /\ ~Pending(n, at)'
      BY <1>1, <1>8, <2>1, <2>3 DEF Pending
    <3>2. DOMAIN stored' # {}
      BY <1>1 DEF Followed, Follow, InStep
    <3>3. Permits(n)' = Permits(n) /\ Permits(n) \in Nat
      BY <1>1, PermitsType DEF Permits
    <3>4. /\ IsFiniteSet(Going(n, at) \cup {a})
          /\ Cardinality(Going(n, at) \cup {a}) \in Nat
          /\ Cardinality(Going(n, at) \cup {a}) <= Cardinality(Going(n, at)) + 1
      BY GoingFinite, OneMore
    <3>5. Cardinality(Going(n, at)') <= Cardinality(Going(n, at) \cup {a})
      BY <1>6, <3>4, FS_Subset
    <3>6. Cardinality(Going(n, at)') <= Permits(n)'
      BY <3>1, <3>3, <3>4, <3>5, GoingFinite DEF Planned
    <3>7. Cardinality(Unmarking(n, at)') <= Cardinality(Unmarking(n, at))
      BY <1>5, GoingFinite, FS_Subset
    <3>8. Incomplete(n, at)' => Cardinality(Unmarking(n, at)') + 1 <= Permits(n)'
      BY <1>7, <3>3, <3>7, GoingFinite DEF Planned
    <3> QED
      BY <3>1, <3>2, <3>6, <3>8 DEF Planned
  <2>4. CASE ~(m = n /\ t = at)
    BY <1>1, <1>5, <1>6, <1>7, <2>2, <2>4, PlanKept
  <2> QED
    BY <2>3, <2>4
<1>9. CASE entries[m].copy.kind # "once"
  <2>1. entries' = entries /\ t \in Minutes
    BY <1>9 DEF Fire, ScheduledAt, Types
  <2>2. t # at
    BY <2>1
  <2> QED
    BY <1>1, <1>5, <1>6, <1>7, <2>1, <2>2, PlanKept DEF Pending
<1> QED
  BY <1>8, <1>9

LEMMA StepPlanned ==
  ASSUME Types, Types', InStep, NEW a \in Attempts, Step(a),
         NEW n \in ScheduleNames, NEW at, Planned(n, at)
  PROVE  Planned(n, at)'
<1>1. /\ Moves(a) /\ pc[a] # "idle" /\ up /\ ops' = ops
      /\ job'[a].name = job[a].name /\ job'[a].by = job[a].by
  BY StepMoves DEF Moves, IdOf, Step, Load, Check, SaveSkipped, SaveRunning,
                   MarkOneTimeCompleted, Finish, CountRun, Prune, world
<1>2. ASSUME Goes(a)' => Goes(a), Fault
      PROVE  Planned(n, at)'
  BY <1>1, <1>2, OneGoes, PlanGranted, PermitsType DEF Fault
<1>3. ASSUME Goes(a)' => Goes(a), UNCHANGED <<entries, stored, faults>>,
             Unmarks(a)' => Unmarks(a) \/ job[a].name # n \/ ~Incomplete(n, at)
      PROVE  Planned(n, at)'
  <2>1. /\ Going(n, at)' \subseteq Going(n, at)
        /\ Incomplete(n, at) => Unmarking(n, at)' \subseteq Unmarking(n, at)
    BY <1>1, <1>3, OneGoes
  <2>2. (Pending(n, at)' <=> Pending(n, at)) /\ (Incomplete(n, at)' <=> Incomplete(n, at))
    BY <1>3 DEF Pending, Incomplete
  <2> QED
    BY <1>1, <1>3, <2>1, <2>2, PlanKept
<1>4. CASE Load(a)
  <2>1. pc[a] = "called" /\ UNCHANGED <<entries, stored, faults>>
    BY <1>4 DEF Load, catalog
  <2>2. job'[a].startedAt = 0 /\ job[a].startedAt = 0
    <3>1. UNCHANGED job \/ \E s : job' = [job EXCEPT ![a].sched = s]
      BY <1>4 DEF Load
    <3>2. job'[a].startedAt = job[a].startedAt
      BY <3>1 DEF Types, JobType
    <3> QED
      BY <2>1, <3>2 DEF InStep
  <2>3. Goes(a)' => Goes(a)
    BY <1>1, <2>1 DEF Goes
  <2>4. Unmarks(a)' => job[a].name # n \/ ~Incomplete(n, at)
    <3>1. CASE job[a].name \notin DOMAIN schedules
      <4>1. pc'[a] = "done"
        BY <1>4, <3>1, GotoTypes DEF Load, Types, Places
      <4> QED
        BY <2>2, <4>1 DEF Unmarks, Goes
    <3>2. CASE job[a].name \in DOMAIN schedules
      <4>1. job' = [job EXCEPT ![a].sched = schedules[job[a].name]]
        BY <1>4, <3>2 DEF Load
      <4>2. job'[a].sched = schedules[job[a].name]
        BY <4>1 DEF Types, JobType
      <4>3. \E l \in {"checking", "admitted"} : Goto(a, l)
        BY <1>4, <3>2 DEF Load
      <4>4. pc'[a] \in {"checking", "admitted"}
        BY <4>3, GotoTypes DEF Types, Places
      <4> QED
        BY <1>1, <4>2, <4>4 DEF Unmarks, Incomplete, InStep
    <3> QED
      BY <3>1, <3>2
  <2> QED
    BY <1>3, <2>1, <2>3, <2>4
<1>5. CASE Check(a)
  <2>1. /\ pc[a] = "checking" /\ UNCHANGED <<entries, stored, job>>
        /\ job[a].startedAt = 0
    BY <1>5 DEF Check, catalog, InStep
  <2>2. Goes(a)' => Goes(a)
    BY <2>1 DEF Goes
  <2>3. Unmarks(a)' => Unmarks(a)
    BY <2>1 DEF Unmarks, Goes
  <2> QED
    BY <1>2, <1>3, <1>5, <2>1, <2>2, <2>3 DEF Check
<1>6. CASE SaveRunning(a)
  <2>1. pc[a] = "admitted" /\ UNCHANGED <<entries, stored>>
    BY <1>6 DEF SaveRunning, catalog
  <2>2. Goes(a)' => Goes(a)
    BY <1>1, <2>1 DEF Goes
  <2>3. CASE Fault
    BY <1>2, <2>2, <2>3
  <2>4. CASE /\ Goto(a, IF job[a].sched.kind = "once" /\ job[a].by = "scheduler"
                        THEN "marking" ELSE "running")
             /\ UNCHANGED faults
    <3>1. job[a].sched.kind = "once" /\ job[a].by = "scheduler" => pc'[a] = "marking"
      BY <2>4, GotoTypes DEF Types, Places
    <3>2. Unmarks(a)' => Unmarks(a)
      BY <1>1, <2>1, <2>2, <3>1 DEF Unmarks, Goes
    <3> QED
      BY <1>3, <2>1, <2>2, <2>4, <3>2
  <2> QED
    BY <1>6, <2>3, <2>4 DEF SaveRunning
<1>7. CASE MarkOneTimeCompleted(a)
  <2>1. /\ pc[a] = "marking" /\ Goto(a, "running") /\ UNCHANGED job
    BY <1>7 DEF MarkOneTimeCompleted
  <2>2. pc'[a] = "running"
    BY <2>1, GotoTypes DEF Types, Places
  <2>3. Goes(a)' => Goes(a)
    BY <2>1, <2>2 DEF Goes
  <2> DEFINE name == job[a].name
             pending == /\ name \in DOMAIN schedules
                        /\ schedules[name].kind = "once"
                        /\ ~schedules[name].completed
  <2>4. CASE pending /\ ~Fault
    <3>1. PICK s : /\ s.completed /\ stored' = Put(stored, name, s)
                   /\ entries' = Without(entries, {name}) /\ UNCHANGED faults
      <4>1. schedules[name] \in Schedule
        BY <2>4 DEF Types, Partial
      <4>2. [schedules[name] EXCEPT !.completed = TRUE].completed
        BY <4>1 DEF Schedule
      <4> QED
        BY <1>7, <2>4, <4>2 DEF MarkOneTimeCompleted
    <3>2. /\ DOMAIN stored' = DOMAIN stored \cup {name} /\ stored'[name] = s
          /\ \A k \in DOMAIN stored \ {name} : stored'[k] = stored[k]
          /\ DOMAIN entries' = DOMAIN entries \ {name}
          /\ \A k \in DOMAIN entries \ {name} : entries'[k] = entries[k]
      BY <3>1, WithoutFacts DEF Put
    <3>3. Pending(n, at)' => Pending(n, at)
      BY <3>2 DEF Pending
    <3>4. Incomplete(n, at)' => Incomplete(n, at) /\ name # n
      BY <3>1, <3>2 DEF Incomplete
    <3>5. name # n => Unmarking(n, at)' \subseteq Unmarking(n, at)
      BY <1>1, OneGoes
    <3> QED
      BY <1>1, <2>3, <3>1, <3>2, <3>3, <3>4, <3>5, OneGoes, PlanKept
  <2>5. CASE ~pending /\ UNCHANGED <<catalog, faults>>
    <3>1. name = n => ~Incomplete(n, at)
      BY <1>1, <2>5 DEF Incomplete, InStep
    <3> QED
      BY <1>3, <2>3, <2>5, <3>1 DEF catalog
  <2>6. CASE Fault
    BY <1>2, <2>3, <2>6
  <2> QED
    BY <1>7, <2>4, <2>5, <2>6 DEF MarkOneTimeCompleted
<1>8. CASE SaveSkipped(a) \/ Finish(a) \/ CountRun(a) \/ Prune(a)
  <2>1. /\ pc[a] \in {"refused", "running", "counting", "pruning"}
        /\ UNCHANGED <<entries, stored, job>> /\ (Fault \/ UNCHANGED faults)
        /\ \E l \in {"counting", "pruning", "done"} : Goto(a, l)
    BY <1>8 DEF SaveSkipped, Finish, CountRun, Prune, catalog
  <2>2. pc'[a] \in {"counting", "pruning", "done"}
    BY <2>1, GotoTypes DEF Types, Places
  <2>3. (Goes(a)' => Goes(a)) /\ (Unmarks(a)' => Unmarks(a))
    BY <2>1, <2>2 DEF Goes, Unmarks
  <2> QED
    BY <1>2, <1>3, <2>1, <2>3
<1> QED
  BY <1>4, <1>5, <1>6, <1>7, <1>8 DEF Step

\* A start registers what is stored, or the file.
LEMMA RestartPlanned ==
  ASSUME Types, Types', InStep, Restart, NEW n \in ScheduleNames, NEW at, Planned(n, at)
  PROVE  Planned(n, at)'
<1>1. UNCHANGED <<pc, job, ops, faults>>
  BY DEF Restart
<1>2. Going(n, at)' = Going(n, at) /\ Unmarking(n, at)' = Unmarking(n, at)
  BY <1>1 DEF Going, Unmarking, Unmarks, Goes
<1>3. Going(n, at) = Unmarking(n, at)
  <2>1. \A a \in Attempts : pc[a] \in {"idle", "done", "lost"}
    BY DEF Restart, InStep
  <2> QED
    BY <2>1 DEF Going, Unmarking, Unmarks
<1>4. Permits(n)' = Permits(n)
  BY <1>1 DEF Permits
<1>5. stored' = Loaded /\ entries' = RegisterAll(Loaded)
  BY DEF Restart
<1>6. Pending(n, at)' => Incomplete(n, at)'
  BY <1>5 DEF Pending, Incomplete, RegisterAll, Active, Entry
<1>7. Incomplete(n, at)' => Incomplete(n, at) \/ (n \in SeedNames /\ DOMAIN stored = {})
  BY <1>5 DEF Incomplete, Loaded
<1>8. ~(n \in SeedNames /\ DOMAIN stored' = {})
  BY <1>5 DEF Loaded
<1> QED
  BY <1>2, <1>3, <1>4, <1>6, <1>7, <1>8 DEF Planned

LEMMA PlannedNext ==
  ASSUME Types, Types', Followed, InStep, AllPlanned, [Next]_vars
  PROVE  AllPlanned'
<1> SUFFICES ASSUME NEW n \in ScheduleNames, NEW at \in RunAts \ Minutes
             PROVE  Planned(n, at)'
  BY DEF AllPlanned, Minutes
<1>1. Planned(n, at)
  BY DEF AllPlanned
<1>2. ASSUME UNCHANGED <<pc, job>>
      PROVE  Going(n, at)' = Going(n, at) /\ Unmarking(n, at)' = Unmarking(n, at)
  BY <1>2 DEF Going, Unmarking, Unmarks, Goes
<1>3. ASSUME NEW a \in Attempts, NEW m \in ScheduleNames, TriggerManual(a, m)
      PROVE  Planned(n, at)'
  <2>1. Moves(a) /\ pc[a] = "idle" /\ UNCHANGED <<entries, stored, ops, faults>>
    BY <1>3, BeginMoves DEF TriggerManual, catalog, world
  <2>2. job'[a].by = "manual"
    <3> DEFINE j == [NoJob EXCEPT !.name = m, !.by = "manual", !.at = a]
    <3>1. j.by = "manual"
      BY DEF NoJob
    <3>2. job' = [job EXCEPT ![a] = j]
      BY <1>3 DEF TriggerManual
    <3> HIDE DEF j
    <3> QED
      BY <3>1, <3>2 DEF Types
  <2>3. /\ \A b \in Attempts \ {a} : job'[b] = job[b] /\ pc'[b] = pc[b]
        /\ ~Goes(a)' /\ ~Unmarks(a)'
    BY <2>1, <2>2 DEF Moves, Goes, Unmarks
  <2>4. \A b \in Attempts \ {a} : (Goes(b)' <=> Goes(b)) /\ (Unmarks(b)' <=> Unmarks(b))
    BY <2>3 DEF Goes, Unmarks
  <2>5. Going(n, at)' \subseteq Going(n, at) /\ Unmarking(n, at)' \subseteq Unmarking(n, at)
    BY <2>3, <2>4 DEF Going, Unmarking
  <2> QED
    BY <1>1, <2>1, <2>5, PlanKept DEF Pending, Incomplete
<1>4. ASSUME NEW o, NEW k, NEW i, SaveSchedule(o, k, i) \/ DeleteSchedule(k) \/ TogglePause(k)
      PROVE  Planned(n, at)'
  <2>1. UNCHANGED <<pc, job>> /\ ops' = ops + 1 /\ faults' = faults
    BY <1>4 DEF SaveSchedule, DeleteSchedule, TogglePause, Request, attempts
  <2> QED
    BY <1>1, <1>2, <2>1, PlanGranted, PermitsType
<1>5. CASE ClearRuns
  <2>1. UNCHANGED <<pc, job>> /\ ops' = ops + 1 /\ faults' = faults
    BY <1>5 DEF ClearRuns, Request, attempts
  <2> QED
    BY <1>1, <1>2, <2>1, PlanGranted, PermitsType
<1>6. CASE Crash
  <2>1. UNCHANGED <<job, stored, ops, faults>> /\ DOMAIN entries' = {}
    BY <1>6 DEF Crash, NoEntries
  <2>2. \A a \in Attempts : (Goes(a)' => Goes(a)) /\ (Unmarks(a)' => Unmarks(a))
    <3>1. \A a \in Attempts : pc'[a] = IF pc[a] \in {"idle", "done"} THEN pc[a] ELSE "lost"
      BY <1>6 DEF Crash
    <3> QED
      BY <2>1, <3>1 DEF Goes, Unmarks
  <2>3. Going(n, at)' \subseteq Going(n, at) /\ Unmarking(n, at)' \subseteq Unmarking(n, at)
    BY <2>1, <2>2 DEF Going, Unmarking
  <2> QED
    BY <1>1, <2>1, <2>3, PlanKept DEF Pending, Incomplete
<1>7. CASE NextMinute \/ UNCHANGED vars
  <2>1. UNCHANGED <<pc, job, stored, entries, ops, faults>>
    BY <1>7 DEF NextMinute, vars, attempts, catalog
  <2> QED
    BY <1>1, <1>2, <2>1, PlanKept DEF Pending, Incomplete
<1> QED
  BY <1>1, <1>3, <1>4, <1>5, <1>6, <1>7, FirePlanned, StepPlanned, RestartPlanned DEF Next

\* Through saves, renames, deletions, pauses, crashes and restarts in any order: a
\* name runs for one time of a one-time schedule at most once, and once more for
\* every request, every failing store operation and every run that a crash cut off.
THEOREM OnceIsRunOnce == Spec => []OnceRunsOnce
<1>1. Init => IInv /\ Followed /\ InStep /\ AllPlanned
  <2> SUFFICES ASSUME Init PROVE InStep /\ AllPlanned
    BY InitTypes, FollowedInit
  <2>1. \A a \in Attempts : pc[a] = "idle" /\ job[a].startedAt = 0
    BY DEF Init, NoJob
  <2>2. \A n, at : Going(n, at) = {} /\ Unmarking(n, at) = {}
    BY <2>1 DEF Going, Unmarking, Unmarks, Goes
  <2>3. Cardinality({}) = 0
    BY FS_EmptySet
  <2>4. ops = 0 /\ faults = 0 /\ DOMAIN entries \subseteq SeedNames /\ DOMAIN stored = SeedNames
    BY DEF Init, RegisterAll
  <2>5. ASSUME NEW n \in ScheduleNames, NEW at \in RunAts \ Minutes
        PROVE  Planned(n, at)
    BY <2>2, <2>3, <2>4 DEF Planned, Pending, Incomplete, Permits
  <2>6. InStep
    BY <2>1 DEF InStep, Init
  <2> QED
    BY <2>5, <2>6 DEF AllPlanned
<1>2. (IInv /\ Followed /\ InStep /\ AllPlanned) /\ [Next]_vars
        => (IInv /\ Followed /\ InStep /\ AllPlanned)'
  BY NextTypes, FollowedNext, InStepNext, PlannedNext DEF IInv
<1>3. IInv /\ AllPlanned => OnceRunsOnce
  BY PlannedIsProperty DEF IInv
<1> QED
  BY <1>1, <1>2, <1>3, PTL DEF Spec
=============================================================================
