---------------------------- MODULE MCAgentLoop ----------------------------
(* Small agents for AgentLoop: architectures, recipes of two to four steps *)
(* shaped like the shipped ones, and the part of the state table they use. *)
EXTENDS AgentLoop, Recipes

MCFsmStates == {"ANALYZE_INTENT", "CONFIG_ALARM", "VALIDATE", "ASK_USER", "DONE"}
MCDomainTools == [s \in ExtraStates |-> {}]
MCTools == {"list_points", "create_analog_alarm"}
MCReadOnlyTools == {"list_points"}

Plainest == [sm |-> TRUE, mode |-> "off", limit |-> 2, rag |-> FALSE,
             resources |-> FALSE, safety |-> FALSE, dedupe |-> FALSE,
             turns |-> 2, batch |-> 2]
Filtering == [Plainest EXCEPT !.mode = "filter"]
Driving == [Plainest EXCEPT !.mode = "engine"]

MCLoopConfigs ==
  {[Plainest EXCEPT !.rag = TRUE, !.safety = TRUE, !.dedupe = TRUE],
   [Plainest EXCEPT !.sm = FALSE, !.resources = TRUE, !.dedupe = TRUE],
   [Plainest EXCEPT !.limit = 0, !.resources = TRUE],
   [Filtering EXCEPT !.resources = TRUE], [Filtering EXCEPT !.sm = FALSE], Driving,
   [Driving EXCEPT !.turns = 4, !.batch = 1]}

(* Two configurations kept for the counterexamples the README describes.   *)
MCBatchedConfigs == {[Driving EXCEPT !.turns = 3]}
MCDedupeConfigs == {[Driving EXCEPT !.dedupe = TRUE, !.turns = 4, !.batch = 1]}

(* EngineStepsWereRun without its hypothesis.                              *)
EngineStepsWereRunInBatches ==
  EngineMode /\ HasWorkflow =>
    \A i \in Root.x.completed : Step(Root.wf, i).kind # "llm" => i \in Root.ran

Find == In("ANALYZE_INTENT", Optional({"list_points"}))
Create == In("CONFIG_ALARM", Model({"create_analog_alarm"}))
Check == In("VALIDATE", After(Handler, {2}))
Report == In("VALIDATE", Model({"list_points"}))

(* The shape of alarm_config.yaml: look up, create, then validate.         *)
MCAlarmCatalogue == [Alarm |-> <<Find, Undoable(Create), Else(Check, 2), Report>>]
MCFixedCatalogue ==
  [Fixed |-> <<Report, In("CONFIG_ALARM", Fixed), Report>>]
=============================================================================
