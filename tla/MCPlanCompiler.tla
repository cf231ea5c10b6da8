--------------------------- MODULE MCPlanCompiler ---------------------------
(* Plans of up to four steps about one point, its alarm, a page with a     *)
(* widget, a device and a deployment.                                      *)
EXTENDS PlanCompiler

MCDomainTools ==
  [s \in ExtraStates |-> IF s = "CONFIG_DEVICE" THEN {"create_device"} ELSE {}]
  @@ [CONFIG_POINT |-> {"set_point_unit", "rename_point"},
      MANAGE_PAGES |-> {"move_widget"}]

X == <<"points", "X">>
Y == <<"points", "Y">>
A == <<"alarms", "A">>
P == <<"pages", "P">>
W == <<"pages", "P", "widgets", "W">>
V == <<"deployments", "V">>

Plain(tool, about, intended, referenced) ==
  [named |-> "atomic", tool |-> tool, args |-> about, fits |-> "valid", lacks |-> {},
   about |-> about, fields |-> {}, intended |-> intended, referenced |-> referenced]
Short(step, fields) == [step EXCEPT !.fits = "short", !.lacks = fields]

CreatePoint == Plain("create_point", X, {X}, {})
SetUnit == Plain("set_point_unit", X, {X}, {X})
XToY == Plain("rename_point", X, {Y}, {X})
YToX == Plain("rename_point", Y, {X}, {Y})
CreateAlarm == Short(Plain("create_analog_alarm", A, {A}, {X}), {"high_limit", "low_limit"})
SetThreshold == [Plain("set_threshold", A, {A}, {A}) EXCEPT !.fields = {"high_limit"}]
RenamePage == [Plain("rename_page", P, {P}, {P}) EXCEPT !.fits = "repairable"]
CreateWidget == [Plain("create_widget", W, {W}, {P}) EXCEPT !.named = "by_suffix"]
ShortWidget == Short(Plain("create_widget", W, {W}, {P}), {"position"})
MoveWidget == [Plain("move_widget", W, {W}, {W}) EXCEPT !.fields = {"position"}]
DeleteWidget == Plain("delete_widget", W, {W}, {P, W})
CreateDevice == [Plain("create_device", <<"devices", "D">>, {<<"devices", "D">>}, {X})
                   EXCEPT !.named = "by_action"]
Validate == Plain("validate_project", V, {V}, {})
Deploy == Plain("deploy_project", V, {V}, {V})
Invented == [CreatePoint EXCEPT !.named = "invented"]
BadValue == [CreatePoint EXCEPT !.fits = "invalid"]

Creations == {CreatePoint, SetUnit, CreateAlarm, SetThreshold, XToY, YToX}
Screens == {RenamePage, CreateWidget, ShortWidget, MoveWidget, DeleteWidget}
Others == {CreateDevice, Validate, Deploy, CreatePoint, CreateAlarm}
Odd == {Invented, BadValue, CreatePoint, CreateDevice, RenamePage}

Plans(steps, n) == UNION {[1 .. k -> steps] : k \in 0 .. n}
MCProposals == Plans(Creations, 4) \cup Plans(Screens, 4) \cup Plans(Others, 4)
                 \cup Plans(Odd, 3)
MCOutOfOrder == Plans({CreatePoint, SetUnit}, 2)
MCWorlds == {{}, {P}, {X, P}}
MCStarts == {"ANALYZE_INTENT", "CONFIG_POINT", "ASK_USER"}
MCPermitted == {"create_point", "set_point_unit", "rename_point",
                "create_analog_alarm", "set_threshold", "rename_page",
                "create_widget", "move_widget", "delete_widget",
                "create_device", "validate_project", "deploy_project"}
MCLevers == {[repair |-> TRUE, reorder |-> TRUE, max_steps |-> 4],
             [repair |-> TRUE, reorder |-> TRUE, max_steps |-> 2],
             [repair |-> FALSE, reorder |-> FALSE, max_steps |-> 3]}
=============================================================================
