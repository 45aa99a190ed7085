\* Two reparses queued together.
SPECIFICATION FairSpec
CONSTANTS
    Channel <- TwoChannels
    HasQuick <- OneChannel
    Wanted <- NoSlots
    Scheduled <- NoSlots
    Selections <- BothAtOnce
    MaxRunning = 1
    Requests <- Nobody
    CrashTakesWorkers = TRUE
    MaxRuns = 2
    MaxFaults = 0
INVARIANTS
    DeferredHasAnHeir
