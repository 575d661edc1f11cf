SPECIFICATION Spec
CONSTANTS
    Session = {s1, s2}
    Slot = {a}
    NumVars = 2
    Models <- OneModel
    FormulaParses = TRUE
    MaxTasks = 4
    MaxDepth = 64
    MaxFrontier = 16
    AlarmBatch = 64
    MaxLeases = 2
    MaxIssued = 4
    HelloMessages <- Volunteers
    Sends = {"SPLIT", "YIELD"}
    Faults = {"drop", "stop", "throw", "lapse"}
SYMMETRY SessionSymmetry
INVARIANTS
    TypeOK
    OneOwnerPerTask
    NoCubeLost
