\* One worker at a time, two channels, two rows, two crashes, stops or failed
\* transactions at any point: what must always hold, and, under the clock, what
\* must happen.
SPECIFICATION ClockSpec
CONSTANTS
    Channel <- TwoChannels
    HasQuick <- OneChannel
    Wanted <- FullOfOne
    Scheduled <- FullOfOne
    Selections <- BothAtOnce
    MaxRunning = 1
    Requests <- Cancels
    CrashTakesWorkers = TRUE
    MaxRuns = 2
    MaxFaults = 2
INVARIANTS
    TypeOK
    RunningIsOwned
    NoMoreThanAllowed
    LateSliceRefused
    OnlyReportedIsSettled
PROPERTIES
    QueuedOutlivesScheduler
    KeepsTheBoard
    EveryRunEnds
    QueuedIsTaken
