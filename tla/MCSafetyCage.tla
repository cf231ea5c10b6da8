---------------------------- MODULE MCSafetyCage ----------------------------
(* Small sessions behind the cage: constant values for SafetyCage.         *)
EXTENDS SafetyCage

MCConfigs ==
  [enabled : BOOLEAN, mode : {"design_time", "operations_time"},
   limit : {-1, 0, 2}, byPrefix : BOOLEAN,
   rules : {POLICY_RULES, {"R-RUNTIME-WRITE"}}]

(* One configuration with the cage off: the others differ in nothing then. *)
MCOff == [enabled |-> FALSE, mode |-> "operations_time", limit |-> 2,
          byPrefix |-> TRUE, rules |-> POLICY_RULES]
MCSessions == {c \in MCConfigs : c.enabled} \cup {MCOff}

MCCagedConfigs == {c \in MCConfigs : c.enabled /\ c.rules = POLICY_RULES}

(* The DEPLOY state and the deployment workflow offer rollback_deployment; *)
(* a surface that withholds it.                                            *)
MCNoRollback == Atomics \ {"rollback_deployment"}
MCNoInverse == {}
MCAllAtomics == Atomics
MCDestructiveInverses == {"delete_alarm", "disable_alarm"}
=============================================================================
