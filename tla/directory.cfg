SPECIFICATION Spec
CONSTANTS
    Job = {j1, j2}
    Device = {d1, d2}
    Network = {n1, n2}
    Session = {s1, s2}
    d1 = d1
    d2 = d2
    n1 = n1
    n2 = n2
    Origins <- TwoPlaces
    ReportedTimes = {0, 3}
    JobEvents = {"close"}
    Challenge = {}
    Quantum = 2
    Activation = 1
    MaxWorkers = 2
    MaxOffer = 2
    AgingDivisor = 1
    Lifetime = 2
    Retention = 1
    MaxCreations = 2
    Ceiling = 2
    MaxAssignments = 2
    Horizon = 2
SYMMETRY SwarmSymmetry
INVARIANTS
    TypeOK
    WorkersAreAccounted
    ServiceIsAccounted
    AlarmCoversDeadlines
PROPERTIES
    PriorityDebtIsBounded
