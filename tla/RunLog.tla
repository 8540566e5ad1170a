------------------------------ MODULE RunLog ------------------------------
(***************************************************************************)
(* What internal/store promises of the run log, as its MemoryStore         *)
(* implements it: one map from ids to records under one mutex, every       *)
(* operation a single step.  The variable reply holds what the last        *)
(* operation returned to its caller.  BoltStore implements this module.    *)
(***************************************************************************)
EXTENDS RunRecords

CONSTANTS Cutoffs,       \* age cutoffs a pruning is asked for, 0 for none
          RecordLimits,  \* values of run_retention.max_records, 0 for none
          PageLimits     \* limits ListRuns is called with, 0 for no limit

VARIABLES runs, reply

vars == <<runs, reply>>

NoReply == [op |-> "none"]

Init == /\ runs \in Logs(RunIds)
        /\ reply = NoReply

\* SaveRun and UpdateRun: both overwrite whatever the id held.
SaveRun(id, run) ==
    /\ runs' = Put(runs, id, run)
    /\ reply' = [op |-> "save"]

ClearRuns ==
    /\ runs' = EmptyLog
    /\ reply' = [op |-> "clear"]

PruneRuns(cutoff, maxRecords) ==
    \E victims \in PruneVictims(runs, cutoff, maxRecords) :
        /\ runs' = Without(runs, victims)
        /\ reply' = [op |-> "prune", deleted |-> Cardinality(victims),
                     kept |-> Cardinality(Completed(runs) \ victims)]

\* The newest records, all of them or as many as the limit allows.  Only
\* the membership of a page is kept: its order is the sort by started_at.
IsPage(page, limit) ==
    /\ page \subseteq DOMAIN runs
    /\ limit = 0 => page = DOMAIN runs
    /\ limit > 0 => \/ page = DOMAIN runs /\ Cardinality(page) <= limit
                    \/ Cardinality(page) = limit
    /\ \A p \in page, q \in DOMAIN runs \ page :
           runs[q].startedAt <= runs[p].startedAt

ListRuns(limit) ==
    \E page \in SUBSET DOMAIN runs :
        /\ IsPage(page, limit)
        /\ reply' = [op |-> "list", ids |-> page]
        /\ UNCHANGED runs

HasRunningRun(name) ==
    /\ reply' = [op |-> "has", schedule |-> name,
                 found |-> RunningOf(runs, name) # {}]
    /\ UNCHANGED runs

Next == \/ \E id \in RunIds, run \in Run : SaveRun(id, run)
        \/ ClearRuns
        \/ \E cutoff \in Cutoffs, max \in RecordLimits : PruneRuns(cutoff, max)
        \/ \E limit \in PageLimits : ListRuns(limit)
        \/ \E name \in ScheduleNames : HasRunningRun(name)

Spec == Init /\ [][Next]_vars
===========================================================================
