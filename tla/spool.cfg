\* Everything that may go wrong: writes, opens and uploads fail, close() is
\* cancelled, the process is killed once.
SPECIFICATION FairSpec
CONSTANTS
    Hours = {h1, h2}
    NoHour = NoHour
    QueueSize = 2
    BatchLines = 1
    OpenMayFail = TRUE
    MayCancel = TRUE
    MaxFrames = 3
    MaxKills = 1
INVARIANTS
    TypeOK
    ArchiveFaithful
    CountersHonest
    MirrorComplete
    CloseDrains
PROPERTIES
    LossEndsWriter
    CloseCompletes
    EventuallySettled
\* The archive rests once closed.
CHECK_DEADLOCK FALSE
