SPECIFICATION Spec
CONSTANTS
    Coins = {"BTC", "ETH"}
    Tracked = {"BTC"}
    Chains <- MCChains
    Modes <- MCModes
    MaxFiles = 2
    MaxFaults = 2
CHECK_DEADLOCK FALSE
INVARIANTS
    BackoffGrows
