SPECIFICATION EngineSpec
CONSTANTS
  Catalogue <- MCPartialCatalogue
  FsmStates <- MCFsmStates
  Tools <- MCTools
  MaxAutoSteps = 6
  MaxDepth = 1
  Rollback = TRUE
  MaxCalls = 0
  Conversed <- MCConversed
INVARIANTS
  AllOrNothing
