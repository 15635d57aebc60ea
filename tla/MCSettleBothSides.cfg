SPECIFICATION Spec
CONSTANTS
    Users = {"a", "b"}
    House = "house"
    Ids = {1, 2, 3}
    Request <- MCRequest
    Funding <- MCFunding
    Fee <- MCFee
    ChCap = 2
    FlushMax = 2
    FillLimit = 2
    BillLimit = 2
    NoFill = NoFill
    MaxRepeats = 0
    MaxAgain = 2
    MaxCrashes = 1
CHECK_DEADLOCK FALSE
INVARIANTS BothSidesSettled
