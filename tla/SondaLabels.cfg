SPECIFICATION SondaSpec
CONSTANTS
    store_nodes <- MCStoreNodes
    health_threshold = 2
    RestModes = {"status"}
INVARIANT StatusLabelled
