------------------------------- MODULE World -------------------------------
(***************************************************************************)
(* The project a task works on (world/models.py, world/memory_backend.py)  *)
(* and the form of a tool call's result (tools/_base.py).  Every           *)
(* collection is a function from the ids that exist to records, as the     *)
(* code's dicts are.  The fields no handler branches on (units, ranges,    *)
(* limits, positions, bodies, ...) are one field, note.                    *)
(***************************************************************************)
EXTENDS Naturals, FiniteSets, Functions

CONSTANTS Tags, AlarmIds, PageIds, WidgetIds, GroupIds, ScriptIds, DeviceIds,
          Properties,   \* what a widget can bind: value, color, ...
          PointTypes,   \* analog, digital (string behaves like neither)
          Notes,        \* values of the fields no handler looks at
          MaxStored,    \* bound on the days an archive reaches back
          None

ASSUME StoredAssumption == MaxStored \in Nat

VARIABLE world

PartialFcn(S, T) == UNION {[D -> T] : D \in SUBSET S}

Point == [tag : Tags, type : PointTypes, note : Notes]
Alarm == [id : AlarmIds, tag : Tags, type : PointTypes,
          enabled : BOOLEAN, note : Notes]
Widget == [id : WidgetIds, page : PageIds, note : Notes,
           expects : SUBSET PointTypes, bindings : PartialFcn(Properties, Tags)]
Page == [id : PageIds, note : Notes, widgets : PartialFcn(WidgetIds, Widget)]
History == [tag : Tags, enabled : BOOLEAN, stored : 0..MaxStored, note : Notes]
ScriptTriggers == {"on_alarm", "periodic"}
Script == [id : ScriptIds, trigger : ScriptTriggers,
           tag : Tags \cup {None}, enabled : BOOLEAN, note : Notes]
Device == [id : DeviceIds, tags : SUBSET Tags, enabled : BOOLEAN, note : Notes]

(* groups is project_meta["groups"][page][group], the one entry of the     *)
(* metadata a handler writes.                                              *)
MockWorld == [points : PartialFcn(Tags, Point),
              alarms : PartialFcn(AlarmIds, Alarm),
              pages : PartialFcn(PageIds, Page),
              histories : PartialFcn(Tags, History),
              scripts : PartialFcn(ScriptIds, Script),
              devices : PartialFcn(DeviceIds, Device),
              groups : PartialFcn(PageIds \X GroupIds, SUBSET WidgetIds)]

EmptyWorld == [points |-> <<>>, alarms |-> <<>>, pages |-> <<>>,
               histories |-> <<>>, scripts |-> <<>>, devices |-> <<>>,
               groups |-> <<>>]

(* d[k] = v and del d[k].                                                  *)
Put(d, k, v) == [x \in DOMAIN d \cup {k} |-> IF x = k THEN v ELSE d[x]]
Del(d, k) == Restrict(d, DOMAIN d \ {k})

(* A handler's outcome: the world it leaves and the world_diff it reports, *)
(* as the paths of the entities it says it wrote and removed.              *)
Result(tool, w, put, gone) ==
  [tool |-> tool, ok |-> TRUE, world |-> w, put |-> put, gone |-> gone]
Fail(tool) ==
  [tool |-> tool, ok |-> FALSE, world |-> world, put |-> {}, gone |-> {}]
Said(tool) == Result(tool, world, {}, {})

Do(r) == world' = r.world
=============================================================================
