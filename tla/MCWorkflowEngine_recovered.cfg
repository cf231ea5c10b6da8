SPECIFICATION EngineSpec
CONSTANTS
  Catalogue <- MCShippedCatalogue
  FsmStates <- MCFsmStates
  Tools <- MCTools
  MaxAutoSteps = 6
  MaxDepth = 1
  Rollback = TRUE
  MaxCalls = 2
  Conversed <- MCConversed
PROPERTIES
  RecoveredWorkIsKept
