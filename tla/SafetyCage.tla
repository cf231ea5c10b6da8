----------------------------- MODULE SafetyCage -----------------------------
(***************************************************************************)
(* A session of tool calls behind the runtime cage: policy.py deciding,    *)
(* the deployment tools of tools/deployment.py acting on the world, and    *)
(* the orchestrator's dispatch path and Saga tying them together.          *)
(*                                                                         *)
(*   config       the SafetyPolicyConfig of the agent, fixed for a session *)
(*   count        SafetyPolicy.destructive_count                           *)
(*   world        broken: _collect_validation_errors(world) is not empty;  *)
(*                deployments: per deployment id its status ("none" when   *)
(*                there is no record) and whether its validation_errors    *)
(*                are non-empty                                            *)
(*   checkpoint   saga_checkpoint, the world at the entry of the run       *)
(*   comps        wf_state.compensations: the inverses the completed       *)
(*                workflow steps of this run declared                      *)
(*   failed       the workflow failed: only the Saga is left to do         *)
(*   destroyed    destructive calls that succeeded through the cage in     *)
(*                this run (not a program variable)                        *)
(***************************************************************************)
EXTENDS SafetyPolicy, Sequences

CONSTANTS
  Configs,      \* the policy configurations an agent may be built with
  Deployments,  \* deployment ids
  Offered,      \* the atomics the agent may call
  Inverses,     \* the atomics workflow steps declare as their compensation
  MaxCalls,     \* bound on destroyed within one run
  MaxSteps      \* bound on the compensations one run collects

ASSUME ConfigsAssumption == Configs \subseteq PolicyConfig
ASSUME OfferedAssumption == Offered \subseteq Atomics
ASSUME InversesAssumption == Inverses \subseteq Atomics
ASSUME BoundsAssumption == MaxCalls \in Nat /\ MaxSteps \in Nat

VARIABLES config, count, world, checkpoint, comps, failed, destroyed

vars == <<config, count, world, checkpoint, comps, failed, destroyed>>

Status == {"none", "draft", "validated", "deployed", "failed"}
Record == [status : Status, errors : BOOLEAN]
World == [broken : BOOLEAN, deployments : [Deployments -> Record]]

TypeOK ==
  /\ config \in Configs
  /\ count \in Nat
  /\ world \in World
  /\ checkpoint \in World
  /\ comps \in Seq(Inverses)
  /\ failed \in BOOLEAN
  /\ destroyed \in Nat

NothingDeployed == [d \in Deployments |-> [status |-> "none", errors |-> FALSE]]

(* A session starts on any project, with nothing validated or deployed.    *)
Init ==
  /\ config \in Configs
  /\ \E b \in BOOLEAN : world = [broken |-> b, deployments |-> NothingDeployed]
  /\ checkpoint = world
  /\ count = 0 /\ destroyed = 0
  /\ comps = <<>>
  /\ failed = FALSE

-----------------------------------------------------------------------------
(* The handlers: the effect of a successful dispatch on the world.         *)

(* Mutant: a status the record's Literal type does not list.               *)
ValidateProjectUnlisted(d) ==
  world' = [world EXCEPT !.deployments[d] =
              [status |-> IF world.broken THEN "invalid" ELSE "validated",
               errors |-> world.broken]]

ValidateProject(d) ==
  world' = [world EXCEPT !.deployments[d] =
              [status |-> IF world.broken THEN "failed" ELSE "validated",
               errors |-> world.broken]]

DeployProject(d, force) ==
  /\ force \/ world.deployments[d].status \notin {"none", "failed"}
  /\ world' = [world EXCEPT !.deployments[d].status = "deployed"]

RollbackDeployment(d) ==
  /\ world.deployments[d].status # "none"
  /\ world' = [world EXCEPT !.deployments[d].status = "draft"]

(* Mutant: the target keeps what its own last validation left on it.       *)
PromoteInPlace(from, to) ==
  /\ world.deployments[from].status \in {"validated", "deployed"}
  /\ world' = [world EXCEPT !.deployments[to].status = "deployed"]

PromoteToEnvironment(from, to) ==
  /\ world.deployments[from].status \in {"validated", "deployed"}
  /\ world' = [world EXCEPT !.deployments[to] =
                 [status |-> "deployed", errors |-> FALSE]]

(* A configuration tool may leave a reference dangling or repair one.      *)
EditProject == \E b \in BOOLEAN : world' = [world EXCEPT !.broken = b]

Handler(a, d, other, force) ==
  \/ a = "validate_project" /\ ValidateProject(d)
  \/ a = "deploy_project" /\ DeployProject(d, force)
  \/ a = "rollback_deployment" /\ RollbackDeployment(d)
  \/ a = "promote_to_environment" /\ PromoteToEnvironment(other, d)
  \/ IsReadOnly(a) /\ UNCHANGED world
  \/ a \notin DeploymentAtomics /\ ~IsReadOnly(a) /\ EditProject

-----------------------------------------------------------------------------
(* One tool call on any of the paths that dispatch: the loop, the plan, a  *)
(* specialist or a workflow's tool_call_step all check, dispatch and, when *)
(* the handler succeeded, record.  When the call completed a workflow step *)
(* the step's declared inverse is pushed.  A refused call and one whose    *)
(* handler or schema failed change nothing: they are stuttering steps.     *)
Call(a, d, other, force) ==
  /\ ~failed
  /\ destroyed < MaxCalls
  /\ ~Denied(config, a, force, world.deployments[d].status, count)
  /\ Handler(a, d, other, force)
  /\ count' = RecordExecution(config, a, count)
  /\ destroyed' = IF IsDestructive(config, a) THEN destroyed + 1 ELSE destroyed
  /\ \/ comps' = comps
     \/ /\ Len(comps) < MaxSteps
        /\ \E inv \in Inverses : comps' = Append(comps, inv)
  /\ UNCHANGED <<config, checkpoint, failed>>

(* The run ended with wf_state.failed_step set and rollback_on_failure on. *)
WorkflowFails ==
  /\ ~failed
  /\ failed' = TRUE
  /\ IF comps = <<>> THEN world' = checkpoint ELSE world' = world
  /\ UNCHANGED <<config, count, checkpoint, comps, destroyed>>

(* The Saga dispatches the inverses last to first: no check before a       *)
(* dispatch, no record after it; a failing inverse changes nothing.        *)
Compensate(d, other) ==
  /\ failed
  /\ comps # <<>>
  /\ Handler(comps[Len(comps)], d, other, FALSE) \/ UNCHANGED world
  /\ comps' = SubSeq(comps, 1, Len(comps) - 1)
  /\ UNCHANGED <<config, count, checkpoint, failed, destroyed>>

(* The next Agent.run on the same world (an interactive session).          *)
NewRun ==
  /\ failed => comps = <<>>
  /\ count' = 0 /\ destroyed' = 0
  /\ checkpoint' = world
  /\ comps' = <<>>
  /\ failed' = FALSE
  /\ UNCHANGED <<config, world>>

Next ==
  \/ \E a \in Offered, d, other \in Deployments, force \in BOOLEAN :
        Call(a, d, other, force)
  \/ WorkflowFails
  \/ \E d, other \in Deployments : Compensate(d, other)
  \/ NewRun

Spec == Init /\ [][Next]_vars

-----------------------------------------------------------------------------
Active(rule) == config.enabled /\ rule \in config.rules

(* R-BULK-DESTRUCTIVE caps what a run really destroys through the cage, on *)
(* every path and however calls, failures and denials interleave: the      *)
(* counter the rule reads never lags behind the executed calls.            *)
DestructiveCapped ==
  Active("R-BULK-DESTRUCTIVE") /\ config.limit >= 0 => destroyed <= config.limit

(* A deployment record never reads "deployed" while it still carries the   *)
(* errors of a failed validation ("refuse deploy_project when validation   *)
(* is missing or failed"), with both deploy rules active.                  *)
DeployedPassedValidation ==
  Active("R-DEPLOY-FORCE") /\ Active("R-DEPLOY-UNVALIDATED")
    => \A d \in Deployments :
          world.deployments[d].status = "deployed" => ~world.deployments[d].errors

(* In operations_time the cage leaves the agent strictly read-only: until  *)
(* the Saga runs its inverses no step of a session changes the world,      *)
(* whichever tool is called, not even the restore of the checkpoint when a *)
(* workflow fails, and however many runs and rollbacks came before.        *)
RuntimeReadOnly ==
  [][Active("R-RUNTIME-WRITE") /\ config.mode = "operations_time" /\ ~failed
       => UNCHANGED world]_vars
=============================================================================
