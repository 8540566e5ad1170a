SPECIFICATION Spec
CONSTANTS
    Names <- MCNames
    Zones <- MCZones
    Crons <- MCCrons
    DateTimes <- MCDateTimes
    Texts <- MCTexts
    NoSchedule = NoSchedule
    Files <- SomeFiles
    Inputs <- AllInputs
    MaxOps = 4
    MaxEdits = 1
    MaxCrashes = 2
    MaxFaults = 3
INVARIANTS TypeOK AckedSchedulesSurvive EditKeepsAVersion EntriesFollow StartsAgain
PROPERTY CompletedStaysCompleted
CHECK_DEADLOCK FALSE
