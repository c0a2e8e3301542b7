\* Two hours of three ticks; gaps of two ticks and more; a queue of one gap.
SPECIFICATION FairSpec
CONSTANTS
    Threshold = 2
    MaxAge = 2
    MaxPending = 1
    HourLen = 3
    Never = Never
    SnapshotLen = 1
    MaxTime = 5
INVARIANTS
    TypeOK
    EveryHoleExplained
    NoLiveReplay
PROPERTY
    GapsResolved
\* Time is bounded.
CHECK_DEADLOCK FALSE
