SPECIFICATION Spec
CONSTANTS
    ScheduleNames = {x}
    NoName = NoName
    Attempts = {a1}
    Inputs <- OnceInputs
    SeedNames = {x}
    SeedSchedule <- OnceSeed
    MaxRecords = 2
    MaxAge = 1
    PruneEveryN = 2
    FiresPerMinute = 1
    ClearAllowed = FALSE
    MaxMinutes = 1
    MaxOps = 1
    MaxCrashes = 0
    MaxFaults = 0
CHECK_DEADLOCK FALSE
INVARIANT
    CompletedAfterItsRun
