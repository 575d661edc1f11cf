SPECIFICATION Spec
CONSTANTS
    Session = {s1, s2}
    Slot = {a}
    NumVars = 1
    Models <- NoModels
    FormulaParses = TRUE
    MaxTasks = 3
    MaxDepth = 64
    MaxFrontier = 16
    AlarmBatch = 64
    MaxLeases = 3
    MaxIssued = 5
    HelloMessages <- Assigned
    Sends = {"SPLIT", "CANDIDATE", "PROOF"}
    Faults = {"drop", "restart", "cancel", "expire"}
SYMMETRY SessionSymmetry
INVARIANTS
    ProofsCoverVerdict
    SplitHasOnePair
    OneLeasePerSlot
    ClosedJobIsIdle
PROPERTY
    CondemnedWhileWaiting
