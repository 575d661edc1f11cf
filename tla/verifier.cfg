SPECIFICATION FairSpec
CONSTANTS
  Variable <- MCVariable
  Formulas <- MCFormulas
  Cubes <- MCCubes
  LineId = {1, 2, 4, 5}
  LineClause <- MCLineClause
  LineHints <- MCLineHints
  MaxDerived = 2
  MaxHints = 5
  MaxChecks = 5
  Caller = {c1, c2}
  Kinds = {"SAT", "UNSAT"}
  Manifests <- MCManifests
INVARIANTS ValidIsTrue StoredIsTrue
PROPERTIES ImplementsJudge EveryCallEnds
CHECK_DEADLOCK FALSE
