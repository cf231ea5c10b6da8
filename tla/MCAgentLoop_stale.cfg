SPECIFICATION Spec
CONSTANTS
  Catalogue <- MCFixedCatalogue
  FsmStates <- MCFsmStates
  DomainTools <- MCDomainTools
  Tools <- MCTools
  ReadOnlyTools <- MCReadOnlyTools
  MaxAutoSteps = 6
  MaxDepth = 1
  Rollback = TRUE
  MaxCalls = 9
  Conversed = {"Fixed"}
  Configs <- MCDedupeConfigs
INVARIANTS
  CachedIsFresh
