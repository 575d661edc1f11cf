SPECIFICATION FairSpec
CONSTANTS
  sat = sat
  unsat = unsat
  bad = bad
  NoFile = NoFile
  File = {sat, unsat, bad}
  Sat = {sat}
  Malformed = {bad}
  Batches <- MCBatches
  MaxRequests = 3
  MaxQueued = 5
  SolverTraps = FALSE
INVARIANTS SolvesWholeFormula ShownModelIsReal
 
CHECK_DEADLOCK FALSE
