\* A 3 GHz counter, one packet each 5 ns, a stall of four intervals: scaled so
\* that the shortest durations round to zero and the longest pass HIST_HIGH.
SPECIFICATION Spec
CONSTANTS
    Rate = 200000000
    HistHigh = 20
    Numer = 1
    Denom = 3
    Quick = 1
    Stalled = 60
    MaxTicks = 3
    MaxSnapshots = 2
INVARIANTS TypeOK SamplesConserved TotalsCoverStages CumulativeBetweenIntervals
CHECK_DEADLOCK FALSE
