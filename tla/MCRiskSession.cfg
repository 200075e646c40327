\* Four trades over two instruments that share the kill-switch: every mix of
\* opening, adding, reducing, closing and flipping within three contracts, with
\* marks of either instrument at any moment between them.
SPECIFICATION Spec
CONSTANTS
    Instruments = {1, 2}
    Multiplier <- MCMultiplier
    PositionLimit = 3
    DailyLossLimit = 6
    PriceBand = 2
    Quantities = {1, 2, 3}
    Prices = {1, 2, 4}
    Mids = {3, 8}
    MaxTrades = 4
INVARIANTS TypeOK PositionWithinLimit BooksBalance
PROPERTIES KillExact KilledOnlyShrinks
