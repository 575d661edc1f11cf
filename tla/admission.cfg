SPECIFICATION Spec
CONSTANTS
    Job = {j1, j2, j3}
    Device = {d1, d2}
    Network = {n1, n2}
    Session = {}
    Challenge = {c1}
    Quantum = 2
    Activation = 1
    MaxWorkers = 2
    MaxOffer = 2
    AgingDivisor = 1
    Lifetime = 2
    Retention = 1
    MaxCreations = 2
    Ceiling = 2
    d1 = d1
    d2 = d2
    n1 = n1
    n2 = n2
    Origins <- AnyPlace
    ReportedTimes = {}
    JobEvents = {"rollback", "close", "suspend"}
    MaxAssignments = 0
    Horizon = 4
SYMMETRY Symmetry
INVARIANTS
    OriginsAreLimited
