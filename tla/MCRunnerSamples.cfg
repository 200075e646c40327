\* tests/pipeline_e2e.rs:72 states that the final snapshot has one decode sample per tick.
SPECIFICATION Spec
CONSTANTS
    RingCapacity = 1
    HasDashboard = FALSE
    MaxPackets = 1
    MaxBackfill = 1
INVARIANT FinalSamplesMatchTicks
