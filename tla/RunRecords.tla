---------------------------- MODULE RunRecords ----------------------------
(***************************************************************************)
(* Run logs as values: what internal/model calls a Run, and the pure       *)
(* functions that internal/store applies to a collection of them.  A log   *)
(* maps run ids to records.  Of a record only the fields that some         *)
(* decision reads are kept: the schedule it belongs to, its status and the *)
(* time it was started.                                                    *)
(***************************************************************************)
EXTENDS Naturals, FiniteSets

CONSTANTS RunIds,         \* run identifiers
          ScheduleNames,  \* names a record may carry
          Outcomes,       \* final statuses: succeeded, failed, skipped
          Times           \* values of started_at

Running == "running"

ASSUME OutcomesAssumption == Running \notin Outcomes

Run == [schedule : ScheduleNames, status : Outcomes \cup {Running},
        startedAt : Times]

\* The logs over a set of ids.
Logs(ids) == UNION {[S -> Run] : S \in {T \in SUBSET ids : IsFiniteSet(T)}}

EmptyLog == [id \in {} |-> [schedule |-> "", status |-> Running, startedAt |-> 0]]

\* The log after a record is written under its id, replacing an older one.
Put(log, id, run) ==
    [i \in DOMAIN log \cup {id} |-> IF i = id THEN run ELSE log[i]]

\* The log after some ids are deleted.
Without(log, ids) == [i \in DOMAIN log \ ids |-> log[i]]

\* Mutant: running records count as completed.
CompletedOrRunning(log) == DOMAIN log

\* Ids of the records a retention policy may delete: everything not running.
Completed(log) == {id \in DOMAIN log : log[id].status # Running}

RunningOf(log, name) ==
    {id \in DOMAIN log : log[id].schedule = name /\ log[id].status = Running}

\* Mutant: one record too many is kept.
ExcessLess(n, maxRecords) ==
    IF maxRecords = 0 \/ n <= maxRecords THEN 0 ELSE n - maxRecords - 1

\* How many of n completed records exceed the limit; a limit of 0 is no limit.
Excess(n, maxRecords) ==
    IF maxRecords = 0 \/ n <= maxRecords THEN 0 ELSE n - maxRecords

\* The sets of ids one pruning may delete: every completed record that
\* started before the cutoff, and as many of the remaining completed ones as
\* exceed maxRecords, oldest first.  The sort behind it is not stable, so
\* among records that started at the same time any may go.
PruneVictims(log, cutoff, maxRecords) ==
    LET aged == {id \in Completed(log) : log[id].startedAt < cutoff}
        kept == Completed(log) \ aged
        IsOldest(ids) ==
            /\ Cardinality(ids) = Excess(Cardinality(kept), maxRecords)
            /\ \A v \in ids, k \in kept \ ids :
                   log[v].startedAt <= log[k].startedAt
    IN  {aged \cup over : over \in {ids \in SUBSET kept : IsOldest(ids)}}
===========================================================================
