SPECIFICATION FairSpec
CONSTANTS
    Calls = {c1, c2}
    Instances <- MCInstances
    Targets <- MCTargets
INVARIANTS
    TypeOK
    SucceededMeansAccepted
    CallsAreRecorded
    RunsFinishBeforeClose
PROPERTIES
    StopsEventually
CHECK_DEADLOCK FALSE
