\* Two instruments that share the kill-switch and the gauge, seven packets:
\* entries and exits on both sides, a loss that latches the switch, one-sided
\* books, packets cut at the cap and an instrument nobody registered.
SPECIFICATION Spec
CONSTANTS
    Instruments = {1, 2}
    Multiplier <- MCMultiplier
    PositionLimit = 2
    DailyLossLimit = 8
    PriceBand = 4
    ZEntry = 2
    ZExit = 0
    ZStop = 3
    Warmup = 2
    CountRange = 16
    MaxDepth = 1
    RptRange = 4
    OrderQty = 2
    MaxEntries = 3
    Packets <- MCPackets
    ZScores <- MCZScores
    MaxTicks = 7
INVARIANTS TypeOK PositionFollowsSignal Reconciled MarksAreCurrent FillsBetweenTouches LossLatches
PROPERTIES ExitsClose ImplementsDesk
CHECK_DEADLOCK FALSE
