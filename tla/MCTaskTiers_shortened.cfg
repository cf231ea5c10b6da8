SPECIFICATION Spec
CONSTANTS
  DomainTools <- MCDomainTools
  Steps <- MCSteps
  Info <- MCInfo
  Bad = "bad"
  Proposed <- MCProposed
  Existing = {}
  Guarded = {"delete"}
  Fragile = {"update"}
  Destructive = {"delete"}
  Levers <- MCLevers
  MaxTurns = 4
  Rankings <- MCRankings
  MaxBatch = 1
CHECK_DEADLOCK FALSE
INVARIANTS
  NoShortenedPlanCompletes
