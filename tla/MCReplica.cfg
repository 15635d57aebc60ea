SPECIFICATION Spec
CONSTANTS
    Ids = {1, 2, 3}
    Order <- MCOrder
    FullGap = 1
    NoSnapshot = NoSnapshot
    MaxLogs = 5
    MaxCrashes = 2
CHECK_DEADLOCK FALSE
INVARIANTS TypeOK ReplicaMatchesEngine SeqNamesState
