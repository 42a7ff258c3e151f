SPECIFICATION Spec
CONSTANTS
    Plan = {p1}
    LaneOf <- OneLane
    Deadline <- AtOne
    Effect <- Profits
    Configured = {}
    Sequential = TRUE
    TTL = 0
    Evictable = {}
    MaxForeign = 0
    MaxNonce = 3
    MaxTime = 1
PROPERTIES
    ReplacedByAnother
