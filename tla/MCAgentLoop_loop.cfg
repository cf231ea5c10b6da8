SPECIFICATION Spec
CONSTANTS
  Catalogue <- MCAlarmCatalogue
  FsmStates <- MCFsmStates
  DomainTools <- MCDomainTools
  Tools <- MCTools
  ReadOnlyTools <- MCReadOnlyTools
  MaxAutoSteps = 6
  MaxDepth = 1
  Rollback = TRUE
  MaxCalls = 8
  Conversed = {"Alarm"}
  Configs <- MCLoopConfigs
INVARIANTS
  EveryCallAnswered
  GateUsesCurrentState
  CachedIsFresh
  EngineStateSync
  PromptedOnModelSteps
  EngineStepsWereRun
PROPERTIES
  ImplementsEngine
  RunTerminates
