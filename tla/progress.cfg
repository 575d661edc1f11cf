SPECIFICATION FairSpec
CONSTANTS
    Session = {s1, s2}
    Slot = {a}
    NumVars = 1
    Models <- NoModels
    FormulaParses = TRUE
    MaxTasks = 3
    MaxDepth = 64
    MaxFrontier = 16
    AlarmBatch = 1
    MaxLeases = 2
    MaxIssued = 3
    HelloMessages <- MixedProvers
    Sends = {"SPLIT", "CANDIDATE", "PROOF"}
    Faults = {"lapse"}
PROPERTIES
    WorkIsPushed
    
