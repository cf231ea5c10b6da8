SPECIFICATION Spec
CONSTANTS
  Catalogue <- MCAlarmCatalogue
  FsmStates <- MCFsmStates
  DomainTools <- MCDomainTools
  Tools <- MCTools
  ReadOnlyTools <- MCReadOnlyTools
  MaxAutoSteps = 6
  MaxDepth = 1
  Rollback = TRUE
  MaxCalls = 9
  Conversed = {"Alarm"}
  Configs <- MCBatchedConfigs
INVARIANTS
  EngineStepsWereRunInBatches
