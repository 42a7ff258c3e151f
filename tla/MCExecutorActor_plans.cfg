SPECIFICATION Spec
CONSTANTS
    Plan <- AllPlans
    Field <- Fields
    Other = Other
    Delta <- SmallDeltas
    Ceiling = 1
    Interval = 1
    BusCapacity = 2
    QueueCapacity = 1
    MaxPublished = 3
    MaxTime = 1
INVARIANTS
    TypeOK
    AuthorisedBroadcast
    InOrder
    DrainedOnReturn
PROPERTIES
    FollowsProtocol
    EveryPlanSettled
    ShutdownCompletes
