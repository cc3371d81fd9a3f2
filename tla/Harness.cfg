SPECIFICATION HarnessSpec
CONSTANTS
    Nodes <- MCNodes
    MaxAttempts = 2
    MaxOps = 2
    peer_list <- MCPeers
    Batch = 2
    Requests = {r1, r2}
    Confirmed = {r1}
    Timeout = 3
    Shards = {s1, s2}
    MaxHealth = 2
    MaxCommands = 2
    MaxArrivals = 2
    Lines <- MCLines
    MaxLines = 3
    Window = 1
    declared = 1
    store_nodes <- MCStoreNodes
    health_threshold = 2
    RestModes = {"status", "always200"}
INVARIANTS
    HarnessTypeOK
    OneContainerPerNode NothingLeftRunning InfoCurrent
    VerdictRight HealsInTime
    WaitsRight AckIsOwn ReceivedInOrder
     HealthExact BlamedOnlyIfAsked
PROPERTIES TestEnds PeerLeft
CHECK_DEADLOCK FALSE
