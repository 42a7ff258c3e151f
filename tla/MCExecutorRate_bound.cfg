SPECIFICATION Spec
SYMMETRY PlanSymmetry
CONSTANTS
    Plan = {p1, p2, p3, p4}
    Field <- Fields
    Other = Other
    Delta = {}
    Ceiling = 2
    Interval = 2
    BusCapacity = 1
    QueueCapacity = 1
    MaxPublished = 4
    MaxTime = 4
INVARIANTS
    RateBound
