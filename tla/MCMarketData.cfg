SPECIFICATION FairSpec
CONSTANTS
    Minutes <- MCMinutes
    Topics <- MCTopics
    MaxTime = 2
    ChCap = 2
    FlushMax = 3
    ChunkMax = 2
    NoTick = NoTick
    MaxErrors = 1
    MaxCrashes = 2
CHECK_DEADLOCK FALSE
INVARIANTS TypeOK CandlesExact
PROPERTIES EventuallyRecorded
