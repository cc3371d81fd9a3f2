SPECIFICATION SendSpec
CONSTANTS
    first = first
    again = again
    other = other
    m = m
    n = n
    Requests = {first, again, other}
    HashOf <- MCHashOf
    Ephemeral = {}
    TooLarge = {}
    Reliability = TRUE
    AnonymityLevel = "None"
    HasRelay = TRUE
    HasLightpush = TRUE
    MixMounted = FALSE
    Rln = FALSE
    ProofRefresh = FALSE
    TimestampGap = 0
    SendQueueCapacity = 2
    MaxSendsInFlight = 1
    LastEpoch = 1
    MaxStops = 1
    NonceLimit = 1
    RateLimitEnabled = FALSE
    MessagesPerEpoch = 1
    ApproachedThresholdPercent = 80
INVARIANTS Driven QueueExact PermitsExact NotSentAgain
PROPERTY EventsAsPromised
CHECK_DEADLOCK FALSE
