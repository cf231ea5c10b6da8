------------------------------ MODULE Routing ------------------------------
(***************************************************************************)
(* How the planner and the Supervisor walk the state machine               *)
(* (agent/planner.py): which states expose a tool, and the shortest legal  *)
(* route between two states.                                               *)
(***************************************************************************)
EXTENDS StateMachine, Sequences

StateOrder ==  \* the states in the order sorted() puts them
  <<"ANALYZE_INTENT", "ASK_USER", "BIND_POINTS", "CONFIG_ALARM", "CONFIG_COMM",
    "CONFIG_DATABASE", "CONFIG_DEVICE", "CONFIG_HISTORY", "CONFIG_NOTIFICATION",
    "CONFIG_POINT", "CONFIG_SCHEDULE", "CONFIG_SCRIPT", "CONFIG_SECURITY",
    "CONFIG_TREND", "DEPLOY", "DONE", "GENERATE_LAYOUT", "MANAGE_PAGES",
    "MANAGE_RECIPE", "MANAGE_REPORT", "MANAGE_USERS", "VALIDATE">>
Rank == [s \in STATES |-> CHOOSE k \in DOMAIN StateOrder : StateOrder[k] = s]

StatesExposing(tool) == {s \in STATES : tool \in AllowedTools(s)}

(* The states within n legal transitions of src.                           *)
Within(src) ==
  LET reach[n \in 0 .. Cardinality(STATES)] ==
        IF n = 0 THEN {src}
        ELSE LET near == reach[n - 1] IN near \cup UNION {NextStates(s) : s \in near}
  IN  [n \in 0 .. Cardinality(STATES) |-> reach[n]]
Reaches == [src \in STATES |-> Within(src)]

Routable(src, dst) == dst \in Reaches[src][Cardinality(STATES)]
RouteLength(src, dst) ==
  CHOOSE n \in 0 .. Cardinality(STATES) :
    dst \in Reaches[src][n] /\ (n = 0 \/ dst \notin Reaches[src][n - 1])

Closer(src, a, b) ==
  \/ RouteLength(src, a) < RouteLength(src, b)
  \/ RouteLength(src, a) = RouteLength(src, b) /\ Rank[a] <= Rank[b]

(* Mutant: the cursor stays, whether or not it exposes the tool.           *)
PickCurrent(tool, current) ==
  IF StatesExposing(tool) = {} THEN "None" ELSE current
(* "None" is a state no tool can run in from here.  The preferred state of *)
(* the code is the previous step's, which is the cursor itself.            *)
PickState(tool, current) ==
  LET owners == StatesExposing(tool)
      near == {s \in owners : Routable(current, s)}
  IN  CASE current \in owners -> current
        [] current \notin owners /\ near # {} ->
             CHOOSE s \in near : \A t \in near : Closer(current, s, t)
        [] OTHER -> "None"
=============================================================================
