SPECIFICATION Spec
CONSTANTS
    Plan = {p1, p2}
    LaneOf <- TwoLanes
    Deadline <- AtOne
    Effect <- Profits
    Configured = {"Timeboost"}
    Sequential = FALSE
    TTL = 1
    Evictable = {p1, p2}
    MaxForeign = 1
    MaxNonce = 3
    MaxTime = 2
INVARIANTS
    TypeOK
    ConcurrentNonces
PROPERTIES
    EveryPlanConcludes
