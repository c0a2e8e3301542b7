SPECIFICATION Spec
CONSTANTS
    Coins = {"BTC", "ETH"}
    Tracked = {"BTC", "ETH"}
    Chains <- MCChains
    Modes <- MCModes
    MaxFiles = 3
    MaxFaults = 1
CHECK_DEADLOCK FALSE
INVARIANTS
    TypeOK
    BookFaithful
    TailIsReplay
PROPERTIES
    CaughtUp
