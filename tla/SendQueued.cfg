SPECIFICATION SendSpec
CONSTANTS
    a = a
    e = e
    large = large
    m = m
    n = n
    o = o
    Requests = {a, e}
    HashOf <- MCHashOf
    Ephemeral = {e}
    TooLarge = {}
    Reliability = FALSE
    AnonymityLevel = "None"
    HasRelay = TRUE
    HasLightpush = FALSE
    MixMounted = FALSE
    Rln = TRUE
    ProofRefresh = TRUE
    TimestampGap = 1
    SendQueueCapacity = 2
    MaxSendsInFlight = 1
    LastEpoch = 2
    MaxStops = 1
    NonceLimit = 2
    RateLimitEnabled = TRUE
    MessagesPerEpoch = 1
    ApproachedThresholdPercent = 80
INVARIANT QueuedIsSent
