SPECIFICATION Spec
CONSTANTS
    Names <- MCNames
    Zones <- MCZones
    Crons <- MCCrons
    DateTimes <- MCDateTimes
    NoSchedule = NoSchedule
    Texts <- MCTexts
    Tabs = {t1, t2}
    NoPage = NoPage
    Instances <- MCInstances
    Sanitised <- MCSanitised
    Dashed <- MCDashed
    Changes <- MCChanges
    Inputs <- MCInputs
    MaxPages = 2
    MaxChanges = 2
    MaxRequests = 3
INVARIANT FaktoryJobsAreEditable
CHECK_DEADLOCK FALSE
