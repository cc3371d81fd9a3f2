SPECIFICATION BudgetsSpec
CONSTANTS
    m1 = m1
    m2 = m2
    m3 = m3
    Msgs <- MCMsgs
    EpochOf <- MCEpochOf
    Clock <- MCClock
    MaxEpochGap = 1
    NonceLimit = 2
    Reader = Reader
    NoOne = NoOne
    MaxWrites = 1
    RateLimitEnabled = TRUE
    MessagesPerEpoch = 2
    ApproachedThresholdPercent = 80
    EpochPeriodSec = 2
    RlnPeriodSec = 3
    RlnRateLimit = 3
    Provider = "flaps"
    MaxTime = 6
    MaxClashes = 2
INVARIANTS IdsInv IdsUsedOnce RowCoversProofs SpentMeansRefused CapBounded
PROPERTIES CallsEnd RefusedOnlyWhenSpent
