\* One run, its worker and a person.
SPECIFICATION FairSpec
CONSTANTS
    Channel <- OneChannel
    HasQuick <- OneChannel
    Wanted <- FullOfOne
    Scheduled <- NoSlots
    Selections <- NoSelection
    MaxRunning = 1
    Requests <- Cancels
    CrashTakesWorkers = TRUE
    MaxRuns = 2
    MaxFaults = 0
PROPERTIES
    CancelIsFinal
