\* A feed one level deeper than the ladder.
SPECIFICATION Spec
CONSTANTS
    Instruments = {1}
    MaxDepth = 2
    RptRange = 32
    Prices = {1, 2, 3, 4}
    FeedDepth = 3
    Mids = {2, 3, 5}
    HalfSpread = 1
    MaxPackets = 6
    MaxCapture = 0
    MaxReplayed = 0
PROPERTY InsertsNeverShrink
CHECK_DEADLOCK FALSE
