SPECIFICATION SendSpec
CONSTANTS
    a = a
    e = e
    large = large
    m = m
    n = n
    o = o
    Requests = {a, e, large}
    HashOf <- MCHashOf
    Ephemeral = {e}
    TooLarge = {large}
    Reliability = FALSE
    AnonymityLevel = "Required"
    HasRelay = TRUE
    HasLightpush = TRUE
    MixMounted = TRUE
    Rln = TRUE
    ProofRefresh = TRUE
    TimestampGap = 1
    SendQueueCapacity = 2
    MaxSendsInFlight = 1
    LastEpoch = 2
    MaxStops = 0
    NonceLimit = 2
    RateLimitEnabled = TRUE
    MessagesPerEpoch = 1
    ApproachedThresholdPercent = 80
INVARIANTS SendInv TooLargeCostsNothing
CHECK_DEADLOCK FALSE
