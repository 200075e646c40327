\* A packet that updates two books.
SPECIFICATION Spec
CONSTANTS
    Instruments = {1, 2}
    Multiplier <- MCMultiplier
    PositionLimit = 2
    DailyLossLimit = 4
    PriceBand = 1
    ZEntry = 2
    ZExit = 0
    ZStop = 3
    Warmup = 0
    CountRange = 16
    MaxDepth = 1
    RptRange = 4
    OrderQty = 2
    MaxEntries = 4
    Packets <- MCMixedPackets
    ZScores <- MCZScores
    MaxTicks = 6
INVARIANT LossLatches
CHECK_DEADLOCK FALSE
