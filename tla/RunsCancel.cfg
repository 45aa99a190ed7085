\* Cancelling and settling, without the clock: no worker is ever overdue by necessity.
SPECIFICATION FairSpec
CONSTANTS
    Channel <- TwoChannels
    HasQuick <- OneChannel
    Wanted <- WantedSome
    Scheduled <- FullOfOne
    Selections <- NoSelection
    MaxRunning = 2
    Requests <- Cancels
    CrashTakesWorkers = TRUE
    MaxRuns = 2
    MaxFaults = 0
PROPERTIES
    CancelledWorkerDies
    FullIsSettled
