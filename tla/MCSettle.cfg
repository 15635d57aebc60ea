SPECIFICATION FairSpec
CONSTANTS
    Users = {"a", "b"}
    House = "house"
    Ids = {1, 2, 3}
    Request <- MCRequest
    Funding <- MCFunding
    Fee <- MCFee
    ChCap = 2
    FlushMax = 2
    FillLimit = 1
    BillLimit = 1
    NoFill = NoFill
    MaxRepeats = 1
    MaxAgain = 1
    MaxCrashes = 1
CHECK_DEADLOCK FALSE
INVARIANTS TypeOK BalancesNonNegative HoldsExact MoneyConserved OrdersMatchEngine NeverOverSettled
PROPERTIES EventuallySettled
