SPECIFICATION Spec
CONSTANTS
    Ids = {1, 3, 5}
    Orders <- MCOrders
    MaxPrice = 9
    IdStep = 1
    SplitCount = 2
    Cap = 3
    NoTaker = NoTaker
    MaxMessages = 4
    MCPrices = {1, 2}
    MCSizes = {1, 2}
    MCFunds = {3}
    LimitTIFs <- EveryLimitTIF
    MarketTIFs <- EveryMarketTIF
CHECK_DEADLOCK FALSE
INVARIANTS TypeOK QueueMirrorsOrders BookNotCrossed SizeConserved EndsOnce HoldCoversFills DropsExplained TimeInForceKept
PROPERTIES PriceTimePriority ImplementsMatching
