\* Two signals, after the start; points that arrive faster than they are consumed.
SPECIFICATION FairSpec
CONSTANTS
    Main = Main
    Signals = {s1, s2}
    Consumer = Consumer
    Loop = Loop
    Backends = {postgres}
    AtomicBackends = {postgres}
    LossyAck = {}
    BatchSize = 2
    MaxBuffer = 2
    QueueSize = 2
    EarlySignals = FALSE
    MaxOffered = 3
INVARIANTS
    TypeOK
    FeedAccounted
    SinksOutliveFeed
    OrderlyStopKeepsAll
PROPERTY
    ShutdownEnds
\* The process ends.
CHECK_DEADLOCK FALSE
