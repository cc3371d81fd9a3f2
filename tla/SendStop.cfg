SPECIFICATION FairPublish
CONSTANTS
    small = small
    large = large
    m = m
    n = n
    Requests = {small}
    HashOf <- MCHashOf
    Ephemeral = {}
    TooLarge = {}
    Reliability = TRUE
    AnonymityLevel = "None"
    HasRelay = TRUE
    HasLightpush = TRUE
    MixMounted = FALSE
    Rln = TRUE
    ProofRefresh = TRUE
    TimestampGap = 0
    SendQueueCapacity = 2
    MaxSendsInFlight = 1
    LastEpoch = 1
    MaxStops = 1
    NonceLimit = 2
    RateLimitEnabled = TRUE
    MessagesPerEpoch = 1
    ApproachedThresholdPercent = 80
PROPERTY StopReturns
CHECK_DEADLOCK FALSE
