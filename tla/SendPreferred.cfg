SPECIFICATION FairPublish
CONSTANTS
    small = small
    large = large
    m = m
    n = n
    Requests = {small, large}
    HashOf <- MCHashOf
    Ephemeral = {}
    TooLarge = {large}
    Reliability = TRUE
    AnonymityLevel = "Preferred"
    HasRelay = TRUE
    HasLightpush = TRUE
    MixMounted = TRUE
    Rln = TRUE
    ProofRefresh = TRUE
    TimestampGap = 0
    SendQueueCapacity = 2
    MaxSendsInFlight = 1
    LastEpoch = 1
    MaxStops = 1
    NonceLimit = 2
    RateLimitEnabled = TRUE
    MessagesPerEpoch = 1
    ApproachedThresholdPercent = 80
INVARIANTS MixNeverAsksStore PaidPerProof
PROPERTY EndsUnlessStopHangs
CHECK_DEADLOCK FALSE
