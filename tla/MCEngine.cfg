SPECIFICATION FairSpec
CONSTANTS
    Ids = {1, 2}
    Traffic <- MCTraffic
    Cancelled = {1}
    Tif <- MCTif
    Size <- MCSize
    Rests = {1}
    Match <- MCMatch
    WillNotMatch <- MCWillNotMatch
    WillFullMatch <- MCWillFullMatch
    IdStep = 1
    SplitCount = 1
    Cap = 2
    OrderCap = 1
    LogCap = 2
    SnapCap = 1
    Batch = 2
    Gap = 0
    NoSnapshot = NoSnapshot
    MaxOrders = 3
    MaxCrashes = 2
    MaxExpiries = 1
CHECK_DEADLOCK FALSE
CONSTRAINT Explored
INVARIANTS TypeOK ReaderConsistent SnapshotIsReplay
PROPERTIES SnapshotMonotone EventuallyCommitted
