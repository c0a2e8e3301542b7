\* A gap over two hours.
SPECIFICATION Spec
CONSTANTS
    Threshold = 2
    MaxAge = 5
    MaxPending = 2
    HourLen = 2
    Never = Never
    SnapshotLen = 1
    MaxTime = 5
INVARIANT RetriedUntilFilled
CHECK_DEADLOCK FALSE
