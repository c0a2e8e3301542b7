\* Redis stores a batch point by point, Postgres may commit and still report a
\* failure, and the consumer task and a closer may be cancelled.
SPECIFICATION RecoveringSpec
CONSTANTS
    Loop = Loop
    Writers = {consumer, backfill}
    Readers = {}
    Closers = {c1}
    Backends = {redis, postgres}
    AtomicBackends = {postgres}
    LossyAck = {postgres}
    Cancellable = {consumer, c1}
    BatchSize = 2
    MaxBuffer = 2
    MaxBatch = 2
    MaxPoints = 3
INVARIANTS
    SinglePlacement
PROPERTIES
    VanishOnlyInFlight
    CloseCompletes
    EventuallySettled
CHECK_DEADLOCK FALSE
