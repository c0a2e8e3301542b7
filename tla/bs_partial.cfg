\* Redis alone: a batch of which one point was stored counts as flushed.
SPECIFICATION Spec
CONSTANTS
    Loop = Loop
    Writers = {consumer}
    Readers = {}
    Closers = {c1}
    Backends = {redis, postgres}
    AtomicBackends = {postgres}
    LossyAck = {}
    Cancellable = {}
    BatchSize = 2
    MaxBuffer = 2
    MaxBatch = 2
    MaxPoints = 3
INVARIANT NoSilentLoss
CHECK_DEADLOCK FALSE
