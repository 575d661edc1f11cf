SPECIFICATION ServiceSpec
CONSTANTS
    Job = {j1}
    Device = {d1}
    Network = {n1}
    Session = {}
    Challenge = {c1}
    Quantum = 2
    Activation = 1
    MaxWorkers = 2
    MaxOffer = 2
    AgingDivisor = 1
    Lifetime = 2
    Retention = 0
    MaxCreations = 2
    Ceiling = 2
    d1 = d1
    d2 = d2
    n1 = n1
    n2 = n2
    Origins <- OnePlace
    ReportedTimes = {}
    JobEvents = {"rollback", "close"}
    MaxAssignments = 0
    Horizon = 2
    Request = {r1, r2}
    Lease = {l1, l2}
    ProofSizes = {2}
    Budget = 3
    MinKv = 1
    ArtifactBatch = 1
    MaxDraws = 3
    MaxFaults = 1
SYMMETRY ServiceSymmetry
INVARIANTS
    OfferedIsStored
    NoStrayArtifact
    ProofSpaceBounded
    EligibleIsOpen
    CleanupIsScheduled
CHECK_DEADLOCK FALSE
