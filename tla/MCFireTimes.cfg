SPECIFICATION Spec
CONSTANTS
    Jobs <- MCJobs
    NoJob = NoJob
    Never = Never
    Second = 2
    Minute = 3
    Half = 64
    Lag = 1
    MinTime <- MCMinTime
    MaxTime = 14
INVARIANTS
    TypeOK
    WhatIsDueFires
PROPERTIES
    FiresAtTicks
    OnceIsPlanned
CHECK_DEADLOCK FALSE
