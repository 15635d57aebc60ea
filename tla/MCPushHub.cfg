SPECIFICATION FairSpec
CONSTANTS
    Clients = {1, 2}
    Level2 = level2
    Ticker = ticker
    Streams = {}
    WriteCap = 1
    L2Cap = 1
    None = None
    MaxMessages = 3
    MaxRequests = 2
    MaxFailed = 1
CHECK_DEADLOCK FALSE
CONSTRAINT Explored
INVARIANTS TypeOK NoGhosts
PROPERTIES TickersInOrder NothingElseBlocks
