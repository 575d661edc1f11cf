SPECIFICATION SwarmSpec
CONSTANTS
    Job = {j1}
    Device = {d1}
    Network = {n1}
    Session = {s1, s2}
    d1 = d1
    n1 = n1
    Origins <- OnePlace
    ReportedTimes <- Times
    JobEvents = {"close"}
    Challenge = {}
    Quantum = 2
    Activation = 1
    MaxWorkers = 2
    MaxOffer = 2
    AgingDivisor = 1
    Lifetime = 4
    Retention = 1
    MaxCreations = 1
    Ceiling = 1
    MaxAssignments = 2
    Horizon = 3
    Capacity = 2
    MaxLate = 0
SYMMETRY Sessions
INVARIANTS  ReportedTimeIsWorked ClaimsAreReserved
CHECK_DEADLOCK FALSE
