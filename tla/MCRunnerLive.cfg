\* The threads' progress and the shutdown, with a dashboard.
SPECIFICATION Spec
CONSTANTS
    RingCapacity = 1
    HasDashboard = TRUE
    MaxPackets = 1
    MaxBackfill = 0
PROPERTIES StopsRunning SamplesReported
