\* Two all-or-nothing backends that report what they stored; nothing is cancelled.
SPECIFICATION Spec
CONSTANTS
    Loop = Loop
    Writers = {w1, w2}
    Readers = {r1}
    Closers = {c1, c2}
    Backends = {influx, postgres}
    AtomicBackends = {influx, postgres}
    LossyAck = {}
    Cancellable = {}
    BatchSize = 2
    MaxBuffer = 3
    MaxBatch = 3
    MaxPoints = 5
SYMMETRY Symmetry
INVARIANTS
    TypeOK
    BufferBounded
    NoSilentLoss
    SoloOrder
    CloseJoinsLoop
    CloseDrains
PROPERTY
    ImplementsLedger
\* Every task ends once the storage is closed.
CHECK_DEADLOCK FALSE
