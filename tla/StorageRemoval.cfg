CONSTANTS
    Contents = {1, 2}
    Requests = {1, 2, 3}
    Starts <- MCStarts
    RemovalAttempts = 2
SPECIFICATION FairSpec
INVARIANTS OnlyUnneeded SignaturesKept
PROPERTY CleanupEnds
CHECK_DEADLOCK FALSE
