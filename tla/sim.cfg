SPECIFICATION Spec
CONSTANTS
    Opening <- MCOpening
    Joins <- MCJoins
    Scripts <- MCScripts
    Movable = {1, 11}
    MaxOrders = 3
    Sources = {"capture", "l4"}
    Policies = {"script", "reference", "width"}
    Strengths = {2}
    QuoteSize = 1
    WidthTicks = 1
    SkewGain = 1
    SkewCut = 2
    InventoryLimit = 1
    WindowMs = 2
    Warmup = 2
    Fee = 1
    AdverseDt = 2
    BucketMs = 3
    MinDaysForVerdict = 5
    Delay = 3
    MaxBlocks <- MCMaxBlocks
    MaxTrade = 2
    MaxQuiet = 1
CHECK_DEADLOCK FALSE
INVARIANTS
    OrdersConserved
    BoundsOrdered
    OvershootBounded
    ReportsAddUp
