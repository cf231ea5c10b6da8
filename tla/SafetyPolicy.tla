---------------------------- MODULE SafetyPolicy ----------------------------
(***************************************************************************)
(* The rule table of agent/policy.py (the "outer cage"): how an atomic     *)
(* tool name is classified and which rule, if any, refuses a call.  These  *)
(* are pure operators; SafetyCage and AgentLoop give them state.           *)
(*                                                                         *)
(* Tool names are abstracted to one representative per class the rules     *)
(* tell apart: the enumerated and the prefix-recognised read-only tools,   *)
(* the enumerated and the prefix-recognised destructive tools, and writes. *)
(***************************************************************************)
EXTENDS Integers, FiniteSets

READ_ONLY_ATOMICS == {"list_points", "show_deployment_status"}
ReadOnlyPrefixed == {"get_point_value"}
DESTRUCTIVE_ATOMICS == {"delete_point", "delete_alarm", "disable_alarm"}
DestructivePrefixed == {"batch_delete_points"}
DeploymentAtomics == {"validate_project", "deploy_project",
                      "rollback_deployment", "promote_to_environment"}
PlainWrites == {"create_analog_alarm", "create_point"}

Atomics == READ_ONLY_ATOMICS \cup ReadOnlyPrefixed \cup DESTRUCTIVE_ATOMICS
             \cup DestructivePrefixed \cup DeploymentAtomics \cup PlainWrites

POLICY_RULES == {"R-DEPLOY-FORCE", "R-DEPLOY-UNVALIDATED",
                 "R-RUNTIME-WRITE", "R-BULK-DESTRUCTIVE"}

(* SafetyPolicyConfig: limit < 0 disables the cap, rules is the active     *)
(* subset ("rules: null" in a config means all of them).                   *)
PolicyConfig == [enabled : BOOLEAN,
                 mode : {"design_time", "operations_time"},
                 limit : Int,
                 byPrefix : BOOLEAN,
                 rules : SUBSET POLICY_RULES]

IsReadOnly(a) == a \in READ_ONLY_ATOMICS \cup ReadOnlyPrefixed

IsDestructive(cfg, a) ==
  \/ a \in DESTRUCTIVE_ATOMICS
  \/ /\ cfg.byPrefix
     /\ ~IsReadOnly(a)
     /\ a \in DestructivePrefixed

-----------------------------------------------------------------------------
(* The four predicates.  status is that of the deployment record the call  *)
(* names, "none" when the world has no such record; count is the policy's  *)
(* destructive_count.                                                      *)
DenyForcedDeploy(a, force) == a = "deploy_project" /\ force

DenyUnvalidatedDeploy(a, status) ==
  a = "deploy_project" /\ status \in {"none", "failed"}

(* Mutant: a list of writes instead of everything that is not a read.      *)
DenyListedWrite(cfg, a) ==
  cfg.mode = "operations_time" /\ a \in PlainWrites \cup DESTRUCTIVE_ATOMICS

DenyRuntimeWrite(cfg, a) == cfg.mode = "operations_time" /\ ~IsReadOnly(a)

DenyBulkDestructive(cfg, a, count) ==
  /\ IsDestructive(cfg, a)
  /\ cfg.limit >= 0
  /\ count >= cfg.limit

Denies(cfg, rule, a, force, status, count) ==
  \/ rule = "R-DEPLOY-FORCE" /\ DenyForcedDeploy(a, force)
  \/ rule = "R-DEPLOY-UNVALIDATED" /\ DenyUnvalidatedDeploy(a, status)
  \/ rule = "R-RUNTIME-WRITE" /\ DenyRuntimeWrite(cfg, a)
  \/ rule = "R-BULK-DESTRUCTIVE" /\ DenyBulkDestructive(cfg, a, count)

(* SafetyPolicy.check: the call is refused when an active rule refuses it. *)
(* Which of several refusing rules is reported first is left out.          *)
Denied(cfg, a, force, status, count) ==
  /\ cfg.enabled
  /\ \E rule \in cfg.rules : Denies(cfg, rule, a, force, status, count)

(* SafetyPolicy.record_execution: the new destructive_count.               *)
(* Mutant: only the enumerated destructive tools are counted.              *)
RecordListedExecution(cfg, a, count) ==
  IF cfg.enabled /\ a \in DESTRUCTIVE_ATOMICS THEN count + 1 ELSE count

RecordExecution(cfg, a, count) ==
  IF cfg.enabled /\ IsDestructive(cfg, a) THEN count + 1 ELSE count
=============================================================================
