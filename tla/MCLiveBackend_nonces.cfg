SPECIFICATION Spec
CONSTANTS
    Plan = {p1, p2, p3}
    LaneOf <- OneLane
    Deadline <- AtOne
    Effect <- Profits
    Configured = {}
    Sequential = TRUE
    TTL = 0
    Evictable = {}
    MaxForeign = 1
    MaxNonce = 4
    MaxTime = 1
INVARIANTS
    NonceUnique
    GapFree
    DeltaExact
