SPECIFICATION Spec
CONSTANTS
    Ids = {1, 2, 4}
    Traffic <- MCTraffic
    Cancelled = {1}
    Tif <- MCTif
    Size <- MCSize
    Rests = {1}
    Match <- MCMatch
    WillNotMatch <- MCWillNotMatch
    WillFullMatch <- MCWillFullMatch
    IdStep = 1
    SplitCount = 1
    Cap = 2
    OrderCap = 1
    LogCap = 2
    SnapCap = 1
    Batch = 2
    Gap = 0
    NoSnapshot = NoSnapshot
    MaxOrders = 3
    MaxCrashes = 0
    MaxExpiries = 0
CHECK_DEADLOCK FALSE
INVARIANTS SnapshotConsistent
