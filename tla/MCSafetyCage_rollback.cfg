\* rollback_deployment is offered, as workflows/deployment_check.yaml does.
SPECIFICATION Spec
CONSTANTS
  Configs <- MCCagedConfigs
  Deployments = {"default"}
  Offered <- MCAllAtomics
  Inverses <- MCNoInverse
  MaxCalls = 2
  MaxSteps = 0
INVARIANTS
  DeployedPassedValidation
