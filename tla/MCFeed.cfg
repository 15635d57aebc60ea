SPECIFICATION Spec
CONSTANTS
    Keys = {k1, k2}
    Sizes = {0, 1}
    NoSize = 0
    L2Gap = 1
    WriteCap = 2
    L2Cap = 2
    Batch = 2
    None = None
    MaxChanges = 4
    MaxOthers = 2
    MaxSubs = 2
CHECK_DEADLOCK FALSE
CONSTRAINT Explored
INVARIANTS TypeOK ViewExact CaughtUp
PROPERTIES ViewNeverBack
SYMMETRY Symmetry
