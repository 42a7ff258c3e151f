SPECIFICATION FeedSpec
CONSTANTS
    Capacity = 1
    InitialBackoff = 1
    MaxBackoff = 3
    MaxUnread = 1
    MaxLog = 4
    Pool = {"a", "b"}
    PoolOf <- TwoPools
    Undecoded = {3}
    InCapacity = 1
    OutCapacity = 1
INVARIANTS
    LogsInOrder
    BatchesKeepEvents
PROPERTIES
    CacheMovesForward
    EveryLogApplied
    Recovers
