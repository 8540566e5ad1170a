----------------------------- MODULE BoltStore -----------------------------
(***************************************************************************)
(* The run log of internal/store kept in a bbolt file: the bucket of       *)
(* records, two index buckets (records by start time, running records by   *)
(* schedule) and the count of completed records.  Every operation is one   *)
(* bbolt transaction, so one step; a crash falls between two of them.      *)
(* Opening a file written before an index existed rebuilds all of them.    *)
(*                                                                         *)
(* External assumption: a bbolt transaction is atomic and durable.         *)
(***************************************************************************)
EXTENDS RunRecords, Integers

CONSTANTS Cutoffs,       \* age cutoffs a pruning is asked for, 0 for none
          RecordLimits,  \* values of run_retention.max_records, 0 for none
          PageLimits     \* limits ListRuns is called with, 0 for no limit

\* The keys of the start time index are ordered by time, then by id.
ASSUME BoltStoreAssumption ==
    /\ RunIds \subseteq Nat
    /\ Times \subseteq Nat
    /\ Cutoffs \subseteq Nat
    /\ RecordLimits \subseteq Nat
    /\ PageLimits \subseteq Nat

VARIABLES
    runs,               \* bucket "runs"
    byStartedAt,        \* keys of bucket "runs_by_started_at"
    runningBySchedule,  \* keys of bucket "running_runs_by_schedule"
    completedCount,     \* "completed_run_count" in bucket "run_stats"
    buckets,            \* which of the three derived buckets exist
    opened,             \* a process has the file open
    reply               \* what the last operation returned

vars == <<runs, byStartedAt, runningBySchedule, completedCount, buckets,
          opened, reply>>

NoReply == [op |-> "none"]

IndexBuckets == {"runs_by_started_at", "running_runs_by_schedule", "run_stats"}

StartedAtKey(id, run) == [startedAt |-> run.startedAt, id |-> id]
RunningKey(id, run) == [schedule |-> run.schedule, id |-> id]

\* Mutant: keys ordered by id alone.
KeyLessById(j, k) == j.id < k.id

KeyLess(j, k) == \/ j.startedAt < k.startedAt
                 \/ j.startedAt = k.startedAt /\ j.id < k.id

\* The indexes and the count that a log should have.
StartedAtIndex(log) == {StartedAtKey(id, log[id]) : id \in DOMAIN log}
RunningIndex(log) ==
    {RunningKey(id, log[id]) : id \in {i \in DOMAIN log : log[i].status = Running}}

\* The stored count is set to 0 when an increment would make it negative.
Bump(count, delta) == IF count + delta < 0 THEN 0 ELSE count + delta

----------------------------------------------------------------------------

\* A file no process has open.  It may be new (no record, no bucket) or
\* written by a version that kept only some of the derived buckets.
Init ==
    /\ runs \in Logs(RunIds)
    /\ buckets \in SUBSET IndexBuckets
    /\ byStartedAt = IF "runs_by_started_at" \in buckets
                     THEN StartedAtIndex(runs) ELSE {}
    /\ runningBySchedule = IF "running_runs_by_schedule" \in buckets
                           THEN RunningIndex(runs) ELSE {}
    /\ completedCount = IF "run_stats" \in buckets
                        THEN Cardinality(Completed(runs)) ELSE 0
    /\ opened = FALSE
    /\ reply = NoReply

RebuildRunIndexes ==
    /\ byStartedAt' = StartedAtIndex(runs)
    /\ runningBySchedule' = RunningIndex(runs)
    /\ completedCount' = Cardinality(Completed(runs))

OpenBoltStore ==
    /\ ~opened
    /\ opened' = TRUE
    /\ buckets' = IndexBuckets
    /\ IF buckets = IndexBuckets
       THEN UNCHANGED <<byStartedAt, runningBySchedule, completedCount>>
       ELSE RebuildRunIndexes
    /\ UNCHANGED <<runs, reply>>

\* The process closes the file or dies.
Close ==
    /\ opened
    /\ opened' = FALSE
    /\ UNCHANGED <<runs, byStartedAt, runningBySchedule, completedCount,
                   buckets, reply>>

\* Mutant: a record completed before counts again.
CompletedDeltaAgain(id, run) == IF run.status # Running THEN 1 ELSE 0

\* How a write of run under id changes the number of completed records.
CompletedDelta(id, run) ==
    LET was == id \in Completed(runs)
        is  == run.status # Running
    IN  IF is /\ ~was THEN 1 ELSE IF ~is /\ was THEN -1 ELSE 0

\* Mutant: the old keys are not removed.
NoOldKeys(id) == {}

\* Index keys of the record an id holds now, none when it holds none.
OldStartedAtKeys(id) ==
    {StartedAtKey(i, runs[i]) : i \in {id} \cap DOMAIN runs}
OldRunningKeys(id) ==
    {RunningKey(i, runs[i]) :
        i \in {j \in {id} \cap DOMAIN runs : runs[j].status = Running}}

\* writeRun, the body of SaveRun and of UpdateRun.
WriteRun(id, run) ==
    /\ opened
    /\ runs' = Put(runs, id, run)
    /\ byStartedAt' =
           (byStartedAt \ OldStartedAtKeys(id)) \cup {StartedAtKey(id, run)}
    /\ runningBySchedule' =
           (runningBySchedule \ OldRunningKeys(id))
             \cup (IF run.status = Running THEN {RunningKey(id, run)} ELSE {})
    /\ completedCount' = Bump(completedCount, CompletedDelta(id, run))
    /\ reply' = [op |-> "save"]
    /\ UNCHANGED <<buckets, opened>>

\* Mutant: the index buckets are deleted and not created again.
ClearRunsWithoutBuckets ==
    /\ opened
    /\ runs' = EmptyLog
    /\ byStartedAt' = {}
    /\ runningBySchedule' = {}
    /\ completedCount' = 0
    /\ reply' = [op |-> "clear"]
    /\ buckets' = {"run_stats"}
    /\ UNCHANGED opened

ClearRuns ==
    /\ opened
    /\ runs' = EmptyLog
    /\ byStartedAt' = {}
    /\ runningBySchedule' = {}
    /\ completedCount' = 0
    /\ reply' = [op |-> "clear"]
    /\ UNCHANGED <<buckets, opened>>

----------------------------------------------------------------------------

\* Mutant: pruning does not look at the status.
AllKeys == {k \in byStartedAt : k.id \in DOMAIN runs}

\* Keys of the start time index whose record exists and is not running.
FinishedKeys == {k \in byStartedAt : k.id \in Completed(runs)}

AgedKeys(cutoff) == {k \in FinishedKeys : k.startedAt < cutoff}

\* The first n of a set of keys, in key order; all of them if there are fewer.
IsFirst(keys, n, of) ==
    /\ \/ Cardinality(keys) = n
       \/ keys = of /\ Cardinality(of) <= n
    /\ \A j \in keys, k \in of \ keys : KeyLess(j, k)

\* The walk of the index meets a key whose record is gone, or deletes one
\* record twice: runByID fails and the transaction is rolled back.
WalkFails(cutoff, over, n) ==
    \/ \E k \in byStartedAt :
           /\ k.id \notin DOMAIN runs
           /\ \/ k.startedAt < cutoff
              \/ n > 0 /\ (Cardinality(over) < n \/ \E j \in over : KeyLess(k, j))
    \/ \E j, k \in AgedKeys(cutoff) \cup over : j # k /\ j.id = k.id

\* PruneRuns: records older than the cutoff go first, then as many of the
\* oldest ones as the completed count, already lowered, exceeds the limit.
PruneRuns(cutoff, maxRecords) ==
    /\ opened
    /\ LET aged  == AgedKeys(cutoff)
           left  == FinishedKeys \ aged
           count == Bump(completedCount, -Cardinality(aged))
           n     == Excess(count, maxRecords)
       IN  \E over \in SUBSET left :
             /\ IsFirst(over, n, left)
             /\ IF WalkFails(cutoff, over, n)
                THEN /\ reply' = [op |-> "error"]
                     /\ UNCHANGED <<runs, byStartedAt, runningBySchedule,
                                    completedCount>>
                ELSE LET victims == aged \cup over
                     IN  /\ runs' = Without(runs, {k.id : k \in victims})
                         /\ byStartedAt' = byStartedAt \ victims
                         /\ completedCount' = Bump(count, -Cardinality(over))
                         /\ reply' = [op |-> "prune",
                                      deleted |-> Cardinality(victims),
                                      kept |-> completedCount']
                         /\ UNCHANGED runningBySchedule
    /\ UNCHANGED <<buckets, opened>>

\* ListRuns walks the start time index backwards and skips the keys whose
\* record is gone.
ListRuns(limit) ==
    /\ opened
    /\ LET found == {k \in byStartedAt : k.id \in DOMAIN runs}
       IN  \E page \in SUBSET found :
             /\ \/ page = found /\ (limit = 0 \/ Cardinality(found) <= limit)
                \/ limit > 0 /\ Cardinality(page) = limit
             /\ \A p \in page, q \in found \ page : KeyLess(q, p)
             /\ reply' = [op |-> "list", ids |-> {k.id : k \in page}]
    /\ UNCHANGED <<runs, byStartedAt, runningBySchedule, completedCount,
                   buckets, opened>>

\* HasRunningRun looks for one key with the schedule's prefix.
HasRunningRun(name) ==
    /\ opened
    /\ reply' = [op |-> "has", schedule |-> name,
                 found |-> \E k \in runningBySchedule : k.schedule = name]
    /\ UNCHANGED <<runs, byStartedAt, runningBySchedule, completedCount,
                   buckets, opened>>

Next == \/ OpenBoltStore
        \/ Close
        \/ \E id \in RunIds, run \in Run : WriteRun(id, run)
        \/ ClearRuns
        \/ \E cutoff \in Cutoffs, max \in RecordLimits : PruneRuns(cutoff, max)
        \/ \E limit \in PageLimits : ListRuns(limit)
        \/ \E name \in ScheduleNames : HasRunningRun(name)

Spec == Init /\ [][Next]_vars

----------------------------------------------------------------------------

\* Type invariant.
TypeOK ==
    /\ runs \in Logs(RunIds)
    /\ byStartedAt \subseteq [startedAt : Times, id : RunIds]
    /\ runningBySchedule \subseteq [schedule : ScheduleNames, id : RunIds]
    /\ completedCount \in Nat
    /\ buckets \subseteq IndexBuckets
    /\ opened \in BOOLEAN
    /\ opened => buckets = IndexBuckets
    /\ reply.op \in {"none", "save", "clear", "prune", "error", "list", "has"}

\* Each derived bucket that exists is exactly what the records determine:
\* no operation, rollback or reopening leaves an index key or the completed
\* count out of step with the records.
IndexesExact ==
    /\ "runs_by_started_at" \in buckets => byStartedAt = StartedAtIndex(runs)
    /\ "running_runs_by_schedule" \in buckets =>
           runningBySchedule = RunningIndex(runs)
    /\ "run_stats" \in buckets => completedCount = Cardinality(Completed(runs))

\* Pruning never fails on an index key without a record; if it did, every
\* later pruning would fail on the same key and NewEngine would not start.
PruneNeverFails == reply.op # "error"

\* A running record is deleted by clearing the log and by nothing else.
RunningDroppedOnlyByClear ==
    [][\A id \in DOMAIN runs :
          runs[id].status = Running /\ id \notin DOMAIN runs'
            => reply'.op = "clear"]_vars

\* The store answers every operation as a plain map of records would:
\* the indexes and the count are invisible to its callers.
Log == INSTANCE RunLog WITH runs <- runs, reply <- reply
ImplementsRunLog == Log!Spec
============================================================================
