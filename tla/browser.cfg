SPECIFICATION Spec
CONSTANTS
  s1 = s1
  Slot = {s1}
  MaxLeases = 2
  Purposes = {"SEARCH", "PROOF_FINISHER"}
  FetchAnswers = {"answered", "rejected"}
  MaxLifecycles = 3
  MaxDrops = 0
  MaxPermits = 0
INVARIANTS OutboxMatchesSlots QuietWhenInactive RunsFindTheirSolver
CHECK_DEADLOCK FALSE
