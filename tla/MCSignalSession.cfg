\* Eight samples of one instrument: every z-score around the three thresholds,
\* a warm-up of three and a counter that does not wrap.
SPECIFICATION Spec
CONSTANTS
    Instruments = {1}
    ZExit = 1
    ZEntry = 2
    ZStop = 3
    Warmup = 3
    CountRange = 16
    ZScores <- MCZScores
    MaxSamples = 8
INVARIANTS TypeOK SilentUntilWarm ExposureIsPosition
PROPERTY StopsOut
CHECK_DEADLOCK FALSE
