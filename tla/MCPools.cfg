SPECIFICATION Spec
CONSTANTS
    U256Max = 4095
    U160Max = 127
    U128Max = 15
    BpsDenom = 4
    PipsPerBps = 2
    Q96 = 32
    WordSize = 4
    MIN_TICK <- MCMinTick
    MAX_TICK = 4
    Ratio <- MCRatio
    Pools <- MCPoolSet
    AmountsIn = {0, 1, 2, 3, 5, 9, 300, 2100}
    MaxSwaps = 3
    Reserves = {0, 1, 2, 3, 5, 13, 600, 2100}
    Fees = {0, 1, 4}
    MaxDeals = 2
    CurvePools <- MCCurvePools
    CurveAmounts = {0, 1, 2, 5, 12, 30}
    NewtonLimit = 12
    U64Max = 15
    ChunkSizes = {0, 1, 2, 3, 15}
    MaxRetries = 2
    Heads = {0, 1, 2, 3, 4}
    PoolIds = {p1, p2}
    Slots = {s1, s2}
    Writers = {w1, w2}
    Readers = {r1}
    NoOne = NoOne
    EpochMax = 2
    MaxUpdates = 3
    NewtonSteps = 1
INVARIANTS
    LadderAgrees
    NeverOverspends
    NoFreeRoundTrip
    SwapBounded
    CheapestInput
    LandsOnRoot
    FetchedOnce
    QuoteFresh
    MulDivExact
PROPERTY FetchConcludes
CHECK_DEADLOCK FALSE
