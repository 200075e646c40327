\* The same without pacing: --rate 0.
SPECIFICATION Spec
CONSTANTS
    Rate = 0
    HistHigh = 20
    Numer = 1
    Denom = 3
    Quick = 1
    Stalled = 60
    MaxTicks = 3
    MaxSnapshots = 2
INVARIANT UnthrottledUncorrected
CHECK_DEADLOCK FALSE
