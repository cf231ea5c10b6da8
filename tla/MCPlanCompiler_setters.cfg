SPECIFICATION Spec
CONSTANTS
  DomainTools <- MCDomainTools
  Proposals <- MCOutOfOrder
  Worlds <- MCWorlds
  Starts <- MCStarts
  Levers <- MCLevers
  Permitted <- MCPermitted
CHECK_DEADLOCK FALSE
INVARIANT
  CreatorsFirst
