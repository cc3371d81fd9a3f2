SPECIFICATION BfSpec
CONSTANTS
    Variance = 1
    DelayExtra = 1
    ArchiveTime = 1
    OutageWindow = 2
    Lag = 1
    QueryRange = 2
    StartTime = 4
    EndTime = 8
    MaxWrites = 2
    MaxChanges = 3
INVARIANTS BackfillInv NothingLost
PROPERTY BoundNeverBack
CHECK_DEADLOCK FALSE
