SPECIFICATION FairSpec
CONSTANTS
    ScheduleNames = {x}
    NoName = NoName
    Attempts = {a1, a2}
    Inputs <- RecurringInputs
    SeedNames = {x}
    SeedSchedule <- RecurringSeed
    MaxRecords = 1
    MaxAge = 1
    PruneEveryN = 2
    FiresPerMinute = 2
    ClearAllowed = TRUE
    MaxMinutes = 2
    MaxOps = 2
    MaxCrashes = 0
    MaxFaults = 0
CHECK_DEADLOCK FALSE
INVARIANTS
    RunningRecordHasOwner
    
PROPERTIES
    RunningRecordsSettle
