SPECIFICATION Spec
CONSTANTS
  DomainTools <- MCDomainTools
  Proposals <- MCProposals
  Worlds <- MCWorlds
  Starts <- MCStarts
  Levers <- MCLevers
  Permitted <- MCPermitted
CHECK_DEADLOCK FALSE
INVARIANTS
  EveryKeptStepCompiled
  ProducersFirst
  PlanIsRoutable
  ReorderSavesMoves
