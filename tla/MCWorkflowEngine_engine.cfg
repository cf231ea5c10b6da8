\* Three recipes the model drives, three the engine drives alone.
SPECIFICATION EngineSpec
CONSTANTS
  Catalogue <- MCCatalogue
  FsmStates <- MCFsmStates
  Tools <- MCTools
  MaxAutoSteps = 6
  MaxDepth = 2
  Rollback = TRUE
  MaxCalls = 5
  Conversed <- MCConversed
INVARIANTS
  EngineTypeOK
  LoopEdge
  NoCompensationLost
PROPERTIES
  ImplementsTransaction
  RunReturns
