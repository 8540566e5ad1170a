SPECIFICATION Spec
CONSTANTS
    RunIds = {1, 2, 3}
    ScheduleNames = {a, b}
    Outcomes = {succeeded}
    Times = {1, 2}
    Cutoffs = {0, 2, 3}
    RecordLimits = {0, 1, 2}
    PageLimits = {0, 1, 2}
INVARIANTS
    TypeOK
    IndexesExact
    PruneNeverFails
PROPERTIES
    RunningDroppedOnlyByClear
    ImplementsRunLog
