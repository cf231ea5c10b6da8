---------------------------- MODULE MCTaskTiers ----------------------------
(* A request about one point: create it, alarm it, query it, delete it.    *)
EXTENDS CrewTier

MCDomainTools == [s \in ExtraStates |-> {}]

Named(tool, state, domain) ==
  [tool |-> tool, state |-> state, domain |-> domain,
   makes |-> {}, kills |-> {}, edits |-> {}, needs |-> {}]

MCInfo ==
  [create |-> [Named("create_point", "CONFIG_POINT", "points") EXCEPT !.makes = {"X"}],
   alarm |-> [Named("create_analog_alarm", "CONFIG_ALARM", "alarms")
                EXCEPT !.makes = {"A"}, !.needs = {"X"}],
   update |-> [Named("update_point", "CONFIG_POINT", "points")
                 EXCEPT !.edits = {"X"}, !.needs = {"X"}],
   query |-> [Named("query_history", "CONFIG_HISTORY", "history") EXCEPT !.needs = {"X"}],
   delete |-> [Named("delete_point", "CONFIG_POINT", "points")
                 EXCEPT !.kills = {"X"}, !.needs = {"X"}]]
MCSteps == DOMAIN MCInfo

MCProposed ==
  {<<>>, <<"bad">>, <<"create">>, <<"query">>, <<"alarm">>, <<"delete">>,
   <<"create", "alarm">>, <<"create", "bad">>, <<"bad", "query">>,
   <<"create", "delete">>, <<"create", "update">>, <<"update", "alarm">>,
   <<"query", "create">>,
   <<"create", "alarm", "delete">>}

Shipped ==
  [plan |-> TRUE, crew |-> TRUE, max_replans |-> 2, replan_on_drop |-> TRUE,
   clarify |-> TRUE, fallback |-> TRUE, verify_rounds |-> 0,
   may_create_referenced |-> TRUE, domain_gate |-> FALSE, min_domains |-> 2,
   max_specialists |-> 2, tools_per_specialist |-> 1, turns_per_specialist |-> 2,
   critic |-> TRUE, dedupe |-> TRUE]
MCLevers ==
  {Shipped,
   [Shipped EXCEPT !.crew = FALSE, !.verify_rounds = 2, !.may_create_referenced = FALSE],
   [Shipped EXCEPT !.domain_gate = TRUE, !.max_replans = 1, !.dedupe = FALSE,
                   !.verify_rounds = 1, !.max_specialists = 0],
   [Shipped EXCEPT !.crew = FALSE, !.fallback = FALSE, !.clarify = FALSE,
                   !.replan_on_drop = FALSE, !.max_replans = 0],
   [Shipped EXCEPT !.plan = FALSE, !.critic = FALSE]}
MCRankings == {<<"create_point", "query_history", "create_analog_alarm">>,
               <<"query_history", "delete_point", "create_point">>}
=============================================================================
