SPECIFICATION Spec
CONSTANTS
    Ids = {1, 2, 3}
    Orders <- MCOrders
    MaxPrice = 9
    IdStep = 1
    SplitCount = 2
    Cap = 2
    NoTaker = NoTaker
    MaxMessages = 3
    MCPrices = {1, 2}
    MCSizes = {1}
    MCFunds = {}
    LimitTIFs <- GtxLimitTIF
    MarketTIFs <- NoMarketTIF
CHECK_DEADLOCK FALSE
INVARIANTS GtxNeverTakes
