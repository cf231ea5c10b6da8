\* Every policy configuration, two environments, compensations that destroy.
SPECIFICATION Spec
CONSTANTS
  Configs <- MCSessions
  Deployments = {"staging", "production"}
  Offered <- MCNoRollback
  Inverses <- MCDestructiveInverses
  MaxCalls = 3
  MaxSteps = 1
INVARIANTS
  TypeOK
  DeployedPassedValidation
  DestructiveCapped
PROPERTIES
  RuntimeReadOnly
