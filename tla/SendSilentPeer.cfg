SPECIFICATION FairSend
CONSTANTS
    first = first
    again = again
    other = other
    m = m
    n = n
    Requests = {first}
    HashOf <- MCHashOf
    Ephemeral = {}
    TooLarge = {}
    Reliability = TRUE
    AnonymityLevel = "None"
    HasRelay = FALSE
    HasLightpush = TRUE
    MixMounted = FALSE
    Rln = FALSE
    ProofRefresh = FALSE
    TimestampGap = 0
    SendQueueCapacity = 2
    MaxSendsInFlight = 1
    LastEpoch = 1
    MaxStops = 0
    NonceLimit = 1
    RateLimitEnabled = FALSE
    MessagesPerEpoch = 1
    ApproachedThresholdPercent = 80
PROPERTY AdmittedTaskEnds
CHECK_DEADLOCK FALSE
