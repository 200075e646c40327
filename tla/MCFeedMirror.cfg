\* Ladders of two levels over three prices, six packets, any lost or doubled;
\* captures of up to three are replayed once or more.
SPECIFICATION Spec
CONSTANTS
    Instruments = {1}
    MaxDepth = 2
    RptRange = 32
    Prices = {1, 2, 3}
    FeedDepth = 2
    Mids = {2, 3, 5}
    HalfSpread = 1
    MaxPackets = 6
    MaxCapture = 3
    MaxReplayed = 4
INVARIANTS TypeOK MirrorsExchange GapsAreExact
CHECK_DEADLOCK FALSE
