\* A ring of one, so that packets are dropped, and two packets: the samples of
\* one are taken while the other is in process.
SPECIFICATION Spec
CONSTANTS
    RingCapacity = 1
    HasDashboard = FALSE
    MaxPackets = 2
    MaxBackfill = 1
INVARIANTS TypeOK NoPacketLost NoSampleLost SnapshotsConsistent
PROPERTIES LatestOnlyGrows ImplementsIngest
