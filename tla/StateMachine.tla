---------------------------- MODULE StateMachine ----------------------------
(***************************************************************************)
(* The state table of agent/state_machine.py as the module builds it at    *)
(* import time: the hand-written states, the escape to ASK_USER added to   *)
(* each, and one state per extra tool domain.  Tools that only the domain  *)
(* dictionaries of tools/*.py name are the constant DomainTools.           *)
(***************************************************************************)
EXTENDS Naturals, FiniteSets

CONSTANT DomainTools  \* state -> tools its domain dictionary adds to it

CoreStates == {"ANALYZE_INTENT", "CONFIG_POINT", "MANAGE_PAGES",
               "GENERATE_LAYOUT", "BIND_POINTS", "CONFIG_ALARM",
               "CONFIG_HISTORY", "CONFIG_SCRIPT", "VALIDATE", "DEPLOY",
               "ASK_USER", "DONE"}

ExtraStates == {"CONFIG_DEVICE", "CONFIG_TREND", "MANAGE_RECIPE",
                "MANAGE_USERS", "CONFIG_COMM", "MANAGE_REPORT",
                "CONFIG_SCHEDULE", "CONFIG_SECURITY", "CONFIG_DATABASE",
                "CONFIG_NOTIFICATION"}

STATES == CoreStates \cup ExtraStates

INITIAL_STATE == "ANALYZE_INTENT"

IsTerminal(s) == s = "DONE"

-----------------------------------------------------------------------------
(* The hand-written next_states.                                           *)
Finishing == {"VALIDATE", "DEPLOY", "DONE"}

CoreNext ==
  [ANALYZE_INTENT |-> {"CONFIG_ALARM", "CONFIG_POINT", "MANAGE_PAGES",
                       "GENERATE_LAYOUT", "BIND_POINTS", "CONFIG_HISTORY",
                       "CONFIG_SCRIPT", "ASK_USER"} \cup Finishing,
   CONFIG_POINT |-> {"MANAGE_PAGES", "GENERATE_LAYOUT", "CONFIG_ALARM",
                     "BIND_POINTS", "CONFIG_HISTORY", "CONFIG_SCRIPT"}
                      \cup Finishing,
   MANAGE_PAGES |-> {"GENERATE_LAYOUT", "BIND_POINTS", "CONFIG_ALARM",
                     "CONFIG_HISTORY", "CONFIG_SCRIPT"} \cup Finishing,
   GENERATE_LAYOUT |-> {"MANAGE_PAGES", "BIND_POINTS"} \cup Finishing,
   BIND_POINTS |-> {"CONFIG_ALARM", "CONFIG_HISTORY", "CONFIG_SCRIPT"}
                     \cup Finishing,
   CONFIG_ALARM |-> {"BIND_POINTS", "MANAGE_PAGES", "CONFIG_HISTORY",
                     "CONFIG_SCRIPT"} \cup Finishing,
   CONFIG_HISTORY |-> {"CONFIG_SCRIPT", "CONFIG_ALARM"} \cup Finishing,
   CONFIG_SCRIPT |-> Finishing,
   VALIDATE |-> {"DEPLOY", "ANALYZE_INTENT", "DONE"},
   DEPLOY |-> {"VALIDATE", "DONE"},
   ASK_USER |-> {"ANALYZE_INTENT", "DONE"},
   DONE |-> {}]

(* Mutant: ANALYZE_INTENT does not lead to the states of the other domains.*)
NextStatesOfTheTable(s) ==
  IF s \in ExtraStates THEN Finishing \cup {"ANALYZE_INTENT", "ASK_USER"}
  ELSE CoreNext[s]
         \cup (IF IsTerminal(s) \/ s = "ASK_USER" THEN {} ELSE {"ASK_USER"})
(* The two post-passes over the table.                                     *)
NextStates(s) ==
  IF s \in ExtraStates THEN Finishing \cup {"ANALYZE_INTENT", "ASK_USER"}
  ELSE CoreNext[s]
         \cup (IF IsTerminal(s) \/ s = "ASK_USER" THEN {} ELSE {"ASK_USER"})
         \cup (IF s = "ANALYZE_INTENT" THEN ExtraStates ELSE {})

CanTransit(from, to) == to \in STATES /\ to \in NextStates(from)

-----------------------------------------------------------------------------
(* The hand-written allowed_tools.                                         *)
CoreTools ==
  [ANALYZE_INTENT |-> {"list_pages", "list_points", "list_history",
                       "list_scripts", "show_deployment_status"},
   CONFIG_POINT |-> {"create_point", "update_point", "delete_point",
                     "list_points"},
   MANAGE_PAGES |-> {"create_page", "rename_page", "delete_page",
                     "create_widget", "list_pages"},
   GENERATE_LAYOUT |-> {"create_rect", "create_circle", "create_line",
                        "create_text", "apply_flow_layout", "group_widgets",
                        "set_widget_style", "delete_widget", "list_pages"},
   BIND_POINTS |-> {"bind_point", "list_points", "list_pages"},
   CONFIG_ALARM |-> {"create_analog_alarm", "create_digital_alarm",
                     "set_threshold", "enable_alarm", "disable_alarm",
                     "delete_alarm", "list_points"},
   CONFIG_HISTORY |-> {"enable_history", "disable_history", "set_retention",
                       "query_history", "list_history", "list_points"},
   CONFIG_SCRIPT |-> {"create_script", "update_script_body", "enable_script",
                      "disable_script", "delete_script", "list_scripts",
                      "list_points"},
   VALIDATE |-> {"validate_project", "show_deployment_status", "list_points",
                 "list_pages", "list_history", "list_scripts"},
   DEPLOY |-> {"deploy_project", "rollback_deployment",
               "show_deployment_status", "validate_project"},
   ASK_USER |-> {},
   DONE |-> {}]

AlreadyPlaced == UNION {CoreTools[s] : s \in CoreStates}

(* _categorize_tools: a domain adds what no hand-written table placed; an  *)
(* extra state has its whole domain and list_points.                       *)
AllowedTools(s) ==
  IF s \in ExtraStates THEN DomainTools[s] \cup {"list_points"}
  ELSE CoreTools[s] \cup (IF s \in DOMAIN DomainTools
                            THEN DomainTools[s] \ AlreadyPlaced ELSE {})
=============================================================================
