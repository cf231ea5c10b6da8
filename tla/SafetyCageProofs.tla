-------------------------- MODULE SafetyCageProofs --------------------------
(***************************************************************************)
(* The properties of SafetyCage for every policy configuration, every set  *)
(* of deployments, every tool surface and every bound.                     *)
(***************************************************************************)
EXTENDS SafetyCage, TLAPS

(* A record of the world: its two fields, and an update of the deployments.*)
LEMMA WorldFields ==
  ASSUME NEW w \in World, NEW d \in Deployments
  PROVE  /\ w.broken \in BOOLEAN
         /\ w.deployments \in [Deployments -> Record]
         /\ w.deployments[d] \in Record
         /\ w.deployments[d].status \in Status
         /\ w.deployments[d].errors \in BOOLEAN
BY DEF World, Record

LEMMA WorldUpdate ==
  ASSUME NEW w \in World, NEW d \in Deployments, NEW r \in Record
  PROVE  [w EXCEPT !.deployments[d] = r] \in World
BY DEF World

(* Every handler leaves a world of the declared shape.                     *)
LEMMA HandlerType ==
  ASSUME world \in World,
         NEW a, NEW d \in Deployments, NEW other \in Deployments,
         NEW force \in BOOLEAN,
         Handler(a, d, other, force)
  PROVE  world' \in World
<1>1. CASE ValidateProject(d)
  <2> DEFINE r == [status |-> IF world.broken THEN "failed" ELSE "validated",
                   errors |-> world.broken]
  <2>1. r \in Record
    BY WorldFields DEF Record, Status
  <2> QED BY <1>1, <2>1, WorldUpdate DEF ValidateProject
<1>2. CASE DeployProject(d, force)
  <2>1. [world.deployments[d] EXCEPT !.status = "deployed"] \in Record
    BY WorldFields DEF Record, Status
  <2>2. world' = [world EXCEPT !.deployments[d] =
                    [world.deployments[d] EXCEPT !.status = "deployed"]]
    BY <1>2 DEF DeployProject
  <2> QED BY <2>1, <2>2, WorldUpdate
<1>3. CASE RollbackDeployment(d)
  <2>1. [world.deployments[d] EXCEPT !.status = "draft"] \in Record
    BY WorldFields DEF Record, Status
  <2>2. world' = [world EXCEPT !.deployments[d] =
                    [world.deployments[d] EXCEPT !.status = "draft"]]
    BY <1>3 DEF RollbackDeployment
  <2> QED BY <2>1, <2>2, WorldUpdate
<1>4. CASE PromoteToEnvironment(other, d)
  <2>1. [status |-> "deployed", errors |-> FALSE] \in Record
    BY DEF Record, Status
  <2> QED BY <1>4, <2>1, WorldUpdate DEF PromoteToEnvironment
<1>5. CASE UNCHANGED world
  BY <1>5
<1>6. CASE EditProject
  BY <1>6 DEF EditProject, World
<1> QED BY <1>1, <1>2, <1>3, <1>4, <1>5, <1>6 DEF Handler

LEMMA RecordExecutionType ==
  ASSUME NEW cfg, NEW a, NEW n \in Nat
  PROVE  RecordExecution(cfg, a, n) \in Nat
BY DEF RecordExecution

-----------------------------------------------------------------------------
LEMMA TypeInit == Init => TypeOK
<1> SUFFICES ASSUME Init PROVE TypeOK
  OBVIOUS
<1>1. NothingDeployed \in [Deployments -> Record]
  BY DEF NothingDeployed, Record, Status
<1>2. world \in World
  BY <1>1 DEF Init, World
<1>3. comps \in Seq(Inverses)
  BY DEF Init
<1> QED BY <1>2, <1>3 DEF Init, TypeOK

LEMMA TypeStep == TypeOK /\ [Next]_vars => TypeOK'
<1> SUFFICES ASSUME TypeOK, [Next]_vars PROVE TypeOK'
  OBVIOUS
<1>1. ASSUME NEW a \in Offered, NEW d \in Deployments, NEW other \in Deployments,
             NEW force \in BOOLEAN, Call(a, d, other, force)
      PROVE  TypeOK'
  <2>1. world' \in World
    BY <1>1, HandlerType DEF Call, TypeOK
  <2>2. count' \in Nat
    BY <1>1, RecordExecutionType DEF Call, TypeOK
  <2>3. comps' \in Seq(Inverses)
    BY <1>1 DEF Call, TypeOK
  <2>4. destroyed' \in Nat
    BY <1>1 DEF Call, TypeOK
  <2> QED BY <1>1, <2>1, <2>2, <2>3, <2>4 DEF Call, TypeOK
<1>2. CASE WorkflowFails
  BY <1>2 DEF WorkflowFails, TypeOK
<1>3. ASSUME NEW d \in Deployments, NEW other \in Deployments,
             Compensate(d, other)
      PROVE  TypeOK'
  <2>1. world' \in World
    BY <1>3, HandlerType DEF Compensate, TypeOK
  <2>2. comps' \in Seq(Inverses)
    BY <1>3 DEF Compensate, TypeOK
  <2>3. UNCHANGED <<config, count, checkpoint, failed, destroyed>>
    BY <1>3, Zenon DEF Compensate
  <2> QED BY <2>1, <2>2, <2>3 DEF TypeOK
<1>4. CASE NewRun
  <2>1. <<>> \in Seq(Inverses)
    OBVIOUS
  <2> QED BY <1>4, <2>1 DEF NewRun, TypeOK
<1>5. CASE UNCHANGED vars
  BY <1>5 DEF vars, TypeOK
<1> QED BY <1>1, <1>2, <1>3, <1>4, <1>5 DEF Next

(* The variables keep their types in every reachable state.                *)
THEOREM TypeCorrect == Spec => []TypeOK
BY TypeInit, TypeStep, PTL DEF Spec

-----------------------------------------------------------------------------
(* The counter the rule reads is exactly what was executed, and it has not *)
(* passed the limit.                                                       *)
CountIsExact == config.enabled => count = destroyed

CapInv == CountIsExact /\ DestructiveCapped

LEMMA CapInit == Init => CapInv
BY ConfigsAssumption
   DEF Init, CapInv, CountIsExact, DestructiveCapped, PolicyConfig

LEMMA CapStep == TypeOK /\ CapInv /\ [Next]_vars => CapInv'
<1> SUFFICES ASSUME TypeOK, CapInv, [Next]_vars PROVE CapInv'
  OBVIOUS
<1> config.limit \in Int /\ config.enabled \in BOOLEAN
  BY ConfigsAssumption DEF TypeOK, PolicyConfig
<1>1. ASSUME NEW a \in Offered, NEW d \in Deployments, NEW other \in Deployments,
             NEW force \in BOOLEAN, Call(a, d, other, force)
      PROVE  CapInv'
  <2>1. CountIsExact'
    BY <1>1 DEF Call, CapInv, CountIsExact, RecordExecution, TypeOK
  <2>2. CASE ~IsDestructive(config, a)
    BY <1>1, <2>1, <2>2 DEF Call, CapInv, DestructiveCapped, Active
  <2>3. CASE IsDestructive(config, a)
    <3> SUFFICES ASSUME Active("R-BULK-DESTRUCTIVE"), config.limit >= 0
                 PROVE  destroyed' <= config.limit
      BY <1>1, <2>1 DEF Call, CapInv, DestructiveCapped, Active
    <3>1. ~DenyBulkDestructive(config, a, count)
      BY <1>1 DEF Call, Denied, Denies, Active
    <3>2. count < config.limit
      BY <3>1, <2>3 DEF DenyBulkDestructive, TypeOK
    <3>3. count = destroyed /\ destroyed' = destroyed + 1
      BY <1>1, <2>3 DEF Call, CapInv, CountIsExact, Active
    <3> QED BY <3>2, <3>3 DEF TypeOK
  <2> QED BY <2>2, <2>3
<1>2. CASE WorkflowFails
  BY <1>2 DEF WorkflowFails, CapInv, CountIsExact, DestructiveCapped, Active
<1>3. ASSUME NEW d \in Deployments, NEW other \in Deployments,
             Compensate(d, other)
      PROVE  CapInv'
  BY <1>3 DEF Compensate, CapInv, CountIsExact, DestructiveCapped, Active
<1>4. CASE NewRun
  BY <1>4 DEF NewRun, CapInv, CountIsExact, DestructiveCapped, Active
<1>5. CASE UNCHANGED vars
  BY <1>5 DEF vars, CapInv, CountIsExact, DestructiveCapped, Active
<1> QED BY <1>1, <1>2, <1>3, <1>4, <1>5 DEF Next

(* R-BULK-DESTRUCTIVE caps what a run destroys through the cage, whatever  *)
(* the limit, the tools offered, the workflows and the order of calls,     *)
(* failures and new runs.                                                  *)
THEOREM CapHolds == Spec => []DestructiveCapped
<1>1. CapInv => DestructiveCapped
  BY DEF CapInv
<1> QED BY TypeInit, TypeStep, CapInit, CapStep, <1>1, PTL DEF Spec

-----------------------------------------------------------------------------
(* In operations_time the world is still the checkpoint of the run until a *)
(* compensation moves it, so restoring it changes nothing.                                           *)
ReadOnlyMode ==
  config.enabled /\ "R-RUNTIME-WRITE" \in config.rules
    /\ config.mode = "operations_time"

ReadOnlyInv == ReadOnlyMode /\ ~failed => world = checkpoint

LEMMA ReadOnlyCall ==
  ASSUME ReadOnlyMode,
         NEW a \in Offered, NEW d \in Deployments, NEW other \in Deployments,
         NEW force \in BOOLEAN, Call(a, d, other, force)
  PROVE  UNCHANGED <<world, checkpoint, config>>
<1>1. ~DenyRuntimeWrite(config, a)
  BY DEF Call, Denied, Denies, ReadOnlyMode
<1>2. IsReadOnly(a)
  BY <1>1 DEF DenyRuntimeWrite, ReadOnlyMode
<1>3. a \notin DeploymentAtomics
  BY <1>2 DEF IsReadOnly, READ_ONLY_ATOMICS, ReadOnlyPrefixed, DeploymentAtomics
<1>4. UNCHANGED world
  BY <1>2, <1>3 DEF Call, Handler, DeploymentAtomics
<1> QED BY <1>4 DEF Call

LEMMA ReadOnlyStep ==
  ASSUME ReadOnlyInv, [Next]_vars
  PROVE  ReadOnlyInv' /\ (ReadOnlyMode /\ ~failed => UNCHANGED world)
<1>1. ASSUME NEW a \in Offered, NEW d \in Deployments, NEW other \in Deployments,
             NEW force \in BOOLEAN, Call(a, d, other, force)
      PROVE  ReadOnlyInv' /\ (ReadOnlyMode /\ ~failed => UNCHANGED world)
  <2>1. UNCHANGED <<config, failed>>
    BY <1>1 DEF Call
  <2> QED BY <1>1, <2>1, ReadOnlyCall DEF ReadOnlyInv, ReadOnlyMode
<1>2. CASE WorkflowFails
  BY <1>2 DEF WorkflowFails, ReadOnlyInv, ReadOnlyMode
<1>3. ASSUME NEW d \in Deployments, NEW other \in Deployments,
             Compensate(d, other)
      PROVE  ReadOnlyInv' /\ (ReadOnlyMode /\ ~failed => UNCHANGED world)
  <2>1. failed /\ failed' = failed
    BY <1>3 DEF Compensate
  <2> QED BY <2>1 DEF ReadOnlyInv
<1>4. CASE NewRun
  BY <1>4 DEF NewRun, ReadOnlyInv, ReadOnlyMode
<1>5. CASE UNCHANGED vars
  BY <1>5 DEF vars, ReadOnlyInv, ReadOnlyMode
<1> QED BY <1>1, <1>2, <1>3, <1>4, <1>5 DEF Next

(* The cage leaves an agent in operations_time strictly read-only until a  *)
(* Saga runs, whatever tools it has and however its runs end.              *)
THEOREM ReadOnlyHolds == Spec => RuntimeReadOnly
<1>1. Init => ReadOnlyInv
  BY DEF Init, ReadOnlyInv
<1>2. ReadOnlyInv /\ [Next]_vars
        => ReadOnlyInv' /\ (ReadOnlyMode /\ ~failed => UNCHANGED world)
  BY ReadOnlyStep
<1>3. (ReadOnlyMode /\ ~failed => UNCHANGED world)
        => [Active("R-RUNTIME-WRITE") /\ config.mode = "operations_time" /\ ~failed
              => UNCHANGED world]_vars
  BY DEF ReadOnlyMode, Active
<1> QED BY <1>1, <1>2, <1>3, PTL DEF Spec, RuntimeReadOnly

-----------------------------------------------------------------------------
(* Every record with errors reads "failed", in the world and in the        *)
(* checkpoint a failed workflow returns to.                                *)
Settled(w) ==
  \A d \in Deployments : w.deployments[d].errors => w.deployments[d].status = "failed"

DeployRules ==
  config.enabled /\ {"R-DEPLOY-FORCE", "R-DEPLOY-UNVALIDATED"} \subseteq config.rules

SettledInv == DeployRules => Settled(world) /\ Settled(checkpoint)

LEMMA SettledHandler ==
  ASSUME world \in World, Settled(world),
         NEW a, NEW d \in Deployments, NEW other \in Deployments,
         a # "rollback_deployment",
         Handler(a, d, other, FALSE)
  PROVE  Settled(world')
<1> SUFFICES ASSUME NEW e \in Deployments, world'.deployments[e].errors
             PROVE  world'.deployments[e].status = "failed"
  BY DEF Settled
<1> /\ world.deployments \in [Deployments -> Record]
    /\ world.deployments[d] \in Record
    /\ world.deployments[e].errors => world.deployments[e].status = "failed"
  BY WorldFields DEF Settled
<1>1. CASE ValidateProject(d)
  BY <1>1 DEF ValidateProject, World, Record
<1>2. CASE DeployProject(d, FALSE)
  <2>1. ~world.deployments[d].errors
    BY <1>2 DEF DeployProject, Settled
  <2> QED BY <1>2, <2>1 DEF DeployProject, World, Record
<1>3. CASE PromoteToEnvironment(other, d)
  BY <1>3 DEF PromoteToEnvironment, World, Record
<1>4. CASE UNCHANGED world
  BY <1>4
<1>5. CASE EditProject
  BY <1>5 DEF EditProject, World
<1> QED BY <1>1, <1>2, <1>3, <1>4, <1>5 DEF Handler

LEMMA SettledInit == Init => SettledInv
BY DEF Init, SettledInv, Settled, NothingDeployed

LEMMA SettledStep ==
  ASSUME "rollback_deployment" \notin Offered \cup Inverses,
         TypeOK, SettledInv, [Next]_vars
  PROVE  SettledInv'
<1>1. ASSUME NEW a \in Offered, NEW d \in Deployments, NEW other \in Deployments,
             NEW force \in BOOLEAN, Call(a, d, other, force)
      PROVE  SettledInv'
  <2>1. UNCHANGED <<config, checkpoint>>
    BY <1>1 DEF Call
  <2> SUFFICES ASSUME DeployRules PROVE Settled(world')
    BY <2>1 DEF SettledInv, DeployRules, Settled
  <2>2. ~DenyForcedDeploy(a, force)
    BY <1>1 DEF Call, Denied, Denies, DeployRules
  <2>3. a = "deploy_project" => force = FALSE
    BY <2>2 DEF DenyForcedDeploy
  <2>4. Handler(a, d, other, FALSE)
    BY <1>1, <2>3 DEF Call, Handler
  <2> QED BY <2>4, SettledHandler DEF SettledInv, TypeOK
<1>2. CASE WorkflowFails
  BY <1>2 DEF WorkflowFails, SettledInv, DeployRules, Settled
<1>3. ASSUME NEW d \in Deployments, NEW other \in Deployments,
             Compensate(d, other)
      PROVE  SettledInv'
  <2>1. UNCHANGED <<config, checkpoint>>
    BY <1>3 DEF Compensate
  <2>2. comps[Len(comps)] \in Inverses
    BY <1>3 DEF Compensate, TypeOK
  <2>3. DeployRules => Settled(world')
    BY <1>3, <2>2, SettledHandler DEF Compensate, SettledInv, TypeOK
  <2> QED BY <2>1, <2>3 DEF SettledInv, DeployRules, Settled
<1>4. CASE NewRun
  BY <1>4 DEF NewRun, SettledInv, DeployRules, Settled
<1>5. CASE UNCHANGED vars
  BY <1>5 DEF vars, SettledInv, DeployRules, Settled
<1> QED BY <1>1, <1>2, <1>3, <1>4, <1>5 DEF Next

(* Where neither the agent nor a compensation can reach                    *)
(* rollback_deployment, no deployment is ever live with the errors of a    *)
(* failed validation.                                                      *)
THEOREM DeployHolds ==
  ASSUME "rollback_deployment" \notin Offered \cup Inverses
  PROVE  Spec => []DeployedPassedValidation
<1>1. TypeOK /\ SettledInv /\ [Next]_vars => SettledInv'
  BY SettledStep
<1>2. TypeOK /\ SettledInv => DeployedPassedValidation
  <2> SUFFICES ASSUME TypeOK, SettledInv,
                      Active("R-DEPLOY-FORCE"), Active("R-DEPLOY-UNVALIDATED"),
                      NEW d \in Deployments, world.deployments[d].status = "deployed"
               PROVE  ~world.deployments[d].errors
    BY DEF DeployedPassedValidation
  <2>1. Settled(world)
    BY DEF SettledInv, DeployRules, Active
  <2>2. world.deployments[d].errors \in BOOLEAN
    BY WorldFields DEF TypeOK
  <2> QED BY <2>1, <2>2 DEF Settled
<1> QED BY TypeInit, TypeStep, SettledInit, <1>1, <1>2, PTL DEF Spec
=============================================================================
