SPECIFICATION Spec
CONSTANTS
    Names <- MCNames
    Zones <- MCZones
    Crons <- MCCrons
    DateTimes <- MCDateTimes
    Texts <- MCTexts
    NoSchedule = NoSchedule
    Files <- BadThenGood
    Inputs <- NoInputs
    MaxOps = 0
    MaxEdits = 1
    MaxCrashes = 0
    MaxFaults = 0
INVARIANT FreshStoreTakesFile
CHECK_DEADLOCK FALSE
