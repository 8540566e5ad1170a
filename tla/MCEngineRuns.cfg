SPECIFICATION Spec
CONSTANTS
    ScheduleNames = {x, y}
    NoName = NoName
    Attempts = {a1, a2, a3}
    Inputs <- OverlappingOnce
    SeedNames = {x}
    SeedSchedule <- RecurringSeed
    MaxRecords = 1
    MaxAge = 1
    PruneEveryN = 2
    FiresPerMinute = 1
    ClearAllowed = FALSE
    MaxMinutes = 1
    MaxOps = 2
    MaxCrashes = 1
    MaxFaults = 1
CHECK_DEADLOCK FALSE
SYMMETRY AttemptSymmetry
INVARIANTS
    TypeOK
    EntriesFollowSchedules
    LiveRunsAreRecorded
    RetentionBound
    BlockedOnlyByFailures
    OnceRunsOnce
PROPERTIES
    GuardSeesLiveRuns
    RecordsAreFinal
