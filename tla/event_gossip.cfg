CONSTANTS
    p1 = p1  p2 = p2  e1 = e1  e2 = e2  t1 = t1  t2 = t2  t3 = t3
    Peers = {p1, p2}
    Events = {e1, e2}
    EpochOf <- Epochs
    MaxEpoch = 3
    CacheCap = 1
    SoftLimit = 2
    MaxInputs = 3
    TxBatch <- Batch3
    Useless = {p2}
    Size <- Sizes
    Overhead = 1
    SoftSize = 4
    MinFull = 1
    LatencyImportance = 1
    ThroughputImportance = 1
    Ages = {0, 1000, 10000}
    Nothing = Nothing
SPECIFICATION Spec
INVARIANTS AskedOnce OfferedOnce BatchesCover
PROPERTY TrackedFollows
CHECK_DEADLOCK FALSE
