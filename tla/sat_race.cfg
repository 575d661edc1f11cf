SPECIFICATION Spec
CONSTANTS
    Session = {s1, s2}
    Slot = {a}
    NumVars = 1
    Models <- OneModel
    FormulaParses = TRUE
    MaxTasks = 3
    MaxDepth = 64
    MaxFrontier = 16
    AlarmBatch = 64
    MaxLeases = 3
    MaxIssued = 3
    HelloMessages <- Volunteers
    Sends = {"SPLIT", "SAT", "CANDIDATE", "PROOF"}
    Faults = {"cancel", "expire"}
SYMMETRY SessionSymmetry
INVARIANTS
    VerdictSound
    CertificateSound
PROPERTIES
    QuarantineStopsWork
    
