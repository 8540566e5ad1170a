SPECIFICATION Spec
CONSTANTS
    ScheduleNames = {x}
    NoName = NoName
    Attempts = {a1, a2}
    Inputs <- NoInputs
    SeedNames = {x}
    SeedSchedule <- RecurringSeed
    MaxRecords = 2
    MaxAge = 1
    PruneEveryN = 2
    FiresPerMinute = 1
    ClearAllowed = FALSE
    MaxMinutes = 1
    MaxOps = 0
    MaxCrashes = 0
    MaxFaults = 0
CHECK_DEADLOCK FALSE
SYMMETRY AttemptSymmetry
INVARIANT
    NoOverlap
