SPECIFICATION Spec
CONSTANTS
    Symbols = {"BTC"}
    Frames <- MCFrames
    Recovered <- MCRecovered
    Histories <- MCHistories
    Boundaries <- MCBoundaries
    RingSize = 2
    QueueSize = 2
    HistoryCap = 2
    StampCap = 2
    SpikeWindow = 2
    Fresh = 2
    Ahead = 0
    TooClose = 1
    ReportSpan = 3
    MaxTrades = 3
    Retention = 4
    Interval = 2
    MaxHistory = 3
    MinHistory = 2
    DayLength = 3
    Start = 4
    Horizon = 6
    MaxAge = 2
    MaxInputs = 3
    MaxFaults = 1
CHECK_DEADLOCK FALSE
INVARIANTS
    LogsMirrored
    ProcessedTrue
    LatencyUnpoisoned
PROPERTIES
    ClearingUnseen
