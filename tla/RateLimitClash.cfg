SPECIFICATION RLSpec
CONSTANTS
    RateLimitEnabled = TRUE
    MessagesPerEpoch = 2
    ApproachedThresholdPercent = 80
    EpochPeriodSec = 2
    RlnPeriodSec = 3
    RlnRateLimit = 3
    Provider = "flaps"
    MaxTime = 6
    MaxClashes = 2
INVARIANT CapKept
