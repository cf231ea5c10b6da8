SPECIFICATION Spec
CONSTANTS
  DomainTools <- MCDomainTools
  Steps <- MCSteps
  Info <- MCInfo
  Bad = "bad"
  Proposed <- MCProposed
  Existing = {}
  Guarded = {"delete"}
  Fragile = {"update"}
  Destructive = {"delete"}
  Levers <- MCLevers
  MaxTurns = 5
  Rankings <- MCRankings
  MaxBatch = 2
CHECK_DEADLOCK FALSE
INVARIANTS
  NoPlanStepTwice
  FinalAnswersStand
  HandoverIsExact
  CallsWithinBudget
  FirstPlanNotShortened
PROPERTIES
  TiersEnd
