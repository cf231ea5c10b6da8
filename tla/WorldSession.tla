---------------------------- MODULE WorldSession ----------------------------
(***************************************************************************)
(* A session of tool calls against one project: any handler of the offered *)
(* domains, any arguments, in any order.  What the agent's own safeguards  *)
(* assume of the handlers is stated here: that the reported world_diff is  *)
(* the change (the dedupe cache, the blackboard and the metrics read it),  *)
(* and that what destroys something bears a name the policy cages.         *)
(***************************************************************************)
EXTENDS TagTools, PageTools, StubTools

CONSTANTS Surfaces,   \* the sets of domains a session may be offered
          Seeds       \* the initial worlds of the cases

VARIABLE offered

KeysAgreeIn(w) ==
  /\ \A t \in DOMAIN w.points : w.points[t].tag = t
  /\ \A a \in DOMAIN w.alarms : w.alarms[a].id = a
  /\ \A t \in DOMAIN w.histories : w.histories[t].tag = t
  /\ \A s \in DOMAIN w.scripts : w.scripts[s].id = s
  /\ \A d \in DOMAIN w.devices : w.devices[d].id = d
  /\ \A p \in DOMAIN w.pages :
       /\ w.pages[p].id = p
       /\ \A x \in DOMAIN w.pages[p].widgets :
            w.pages[p].widgets[x].id = x /\ w.pages[p].widgets[x].page = p

AlarmsHavePointsIn(w) ==
  \A a \in DOMAIN w.alarms : w.alarms[a].tag \in DOMAIN w.points

(* The golden cases are seeded with projects whose keys agree.             *)
ASSUME SeedsAssumption == \A w \in Seeds : w \in MockWorld /\ KeysAgreeIn(w)

(* All but golden-103, which is about the alarm it leaves orphaned, have   *)
(* the point of every alarm.                                               *)
SeedsHavePoints == \A w \in Seeds : AlarmsHavePointsIn(w)

(* The domains the registry describes; a session is offered some of them.  *)
Domains == {"points", "alarms", "history", "scripts", "devices", "pages", "graphics"}
             \cup AnswerDomains
ASSUME SurfacesAssumption == \A s \in Surfaces : s \subseteq Domains

vars == <<world, offered>>

PointCalls ==
  {Said(tool) : tool \in PointAnswers}
  \cup {CreatePoint(t, ty, n) : t \in Tags, ty \in PointTypes, n \in Notes}
  \cup {SetPoint(tool, t, n) : tool \in PointSetters, t \in Tags, n \in Notes}
  \cup {SetPointSimulation(tool, t, n) :
          tool \in SimulationSetters, t \in Tags, n \in Notes}
  \cup {SetPointType(t, ty) : t \in Tags, ty \in PointTypes}
  \cup {BatchCreatePoints(ts, ty, n) :
          ts \in SUBSET Tags, ty \in PointTypes, n \in Notes}
  \cup {CopyPoint(t, u) : t, u \in Tags} \cup {RenamePoint(t, u) : t, u \in Tags}
  \cup {DeletePoint(t) : t \in Tags} \cup {BatchDeletePoints(ts) : ts \in SUBSET Tags}

AlarmCalls ==
  {Said(tool) : tool \in AlarmAnswers}
  \cup (UNION {{CreateAnalogAlarm(a, t, n), CreateDigitalAlarm(a, t, n)} :
            a \in AlarmIds, t \in Tags, n \in Notes})
  \cup {SetAlarm(tool, a, n) : tool \in LimitSetters, a \in AlarmIds, n \in Notes}
  \cup {Annunciate(tool, a, n) : tool \in Annunciation, a \in AlarmIds, n \in Notes}
  \cup (UNION {{SetThreshold(a, n), SetAlarmPriority(a, n), SuppressAlarm(a, n)} :
                 a \in AlarmIds, n \in Notes})
  \cup (UNION {{EnableAlarm(a), DisableAlarm(a), DeleteAlarm(a)} : a \in AlarmIds})

HistoryCalls ==
  {Said(tool) : tool \in HistoryAnswers}
  \cup (UNION {{EnableHistory(t, n), SetRetention(t, n), SetStoragePolicy(t, n)} :
            t \in Tags, n \in Notes})
  \cup {SetHistory(tool, t, n) : tool \in HistorySetters, t \in Tags, n \in Notes}
  \cup (UNION {{DisableHistory(t), DeleteHistory(t)} : t \in Tags})
  \cup {PurgeHistory(t, days) : t \in Tags, days \in 0..MaxStored}

ScriptCalls ==
  {Said(tool) : tool \in ScriptAnswers}
  \cup {CreateScript(s, trigger, t, on, n) :
     s \in ScriptIds, trigger \in ScriptTriggers, t \in Tags \cup {None},
     on \in BOOLEAN, n \in Notes}
  \cup (UNION {{UpdateScriptBody(s, n), RenameScript(s, n), SetScriptPeriod(s, n)} :
                 s \in ScriptIds, n \in Notes})
  \cup (UNION {{EnableScript(s), DisableScript(s), DeleteScript(s)} : s \in ScriptIds})
  \cup {SetScriptTrigger(s, trigger) : s \in ScriptIds, trigger \in ScriptTriggers}
  \cup {BindScriptToTag(s, t) : s \in ScriptIds, t \in Tags}
  \cup {CloneScript(s, u) : s, u \in ScriptIds}

DeviceCalls ==
  {Said(tool) : tool \in DeviceAnswers}
  \cup (UNION {{CreateDevice(d, ts, n), UpdateDevice(d, ts, n)} :
            d \in DeviceIds, ts \in SUBSET Tags, n \in Notes})
  \cup (UNION {{ConfigureDeviceParams(d, n), CalibrateDevice(d, n),
                SetDeviceAlarmLimits(d, n)} : d \in DeviceIds, n \in Notes})
  \cup {PlaceDevice(tool, d, n) : tool \in Placements, d \in DeviceIds, n \in Notes}
  \cup {AssignDevice(tool, d, n) : tool \in Assignments, d \in DeviceIds, n \in Notes}
  \cup (UNION {{EnableDevice(d), DisableDevice(d), DeleteDevice(d)} : d \in DeviceIds})
  \cup {LinkDevicePoints(d, ts) : d \in DeviceIds, ts \in SUBSET Tags}
  \cup {CloneDevice(d, e) : d, e \in DeviceIds}

PageCalls ==
  {Said(tool) : tool \in PageAnswers}
  \cup (UNION {{CreatePage(p, n), RenamePage(p, n), SetPageResolution(p, n),
           SetPageBackground(p, n)} : p \in PageIds, n \in Notes})
  \cup {DeletePage(p) : p \in PageIds} \cup {ClonePage(p, q) : p, q \in PageIds}
  \cup {CreateWidget(p, x, expects, n) :
          p \in PageIds, x \in WidgetIds, expects \in SUBSET PointTypes, n \in Notes}
  \cup (UNION {{MoveWidget(p, x, n), ResizeWidget(p, x, n)} :
                 p \in PageIds, x \in WidgetIds, n \in Notes})
  \cup (UNION {{BindPoint(p, x, prop, t), UpdateWidgetBinding(p, x, prop, t)} :
                 p \in PageIds, x \in WidgetIds, prop \in Properties, t \in Tags})
  \cup {UnbindWidgetPoint(p, x, prop) :
          p \in PageIds, x \in WidgetIds, prop \in Properties}

GraphicsCalls ==
  {Said(tool) : tool \in GraphicsAnswers}
  \cup {CreateShape(tool, p, x, n) :
     tool \in Shapes, p \in PageIds, x \in WidgetIds, n \in Notes}
  \cup {CreateSymbol(tool, p, x, n) :
          tool \in Symbols, p \in PageIds, x \in WidgetIds, n \in Notes}
  \cup {ApplyFlowLayout(p, xs, n) :
          p \in PageIds, xs \in SUBSET WidgetIds, n \in Notes}
  \cup {GroupWidgets(p, g, xs) :
          p \in PageIds, g \in GroupIds, xs \in SUBSET WidgetIds}
  \cup {UngroupWidgets(p, g) : p \in PageIds, g \in GroupIds}
  \cup (UNION {{SetWidgetStyle(p, x, n), RotateWidget(p, x, n)} :
                 p \in PageIds, x \in WidgetIds, n \in Notes})
  \cup {DeleteWidget(p, x) : p \in PageIds, x \in WidgetIds}

CallsOf(domain) == CASE domain = "points" -> PointCalls
                     [] domain = "alarms" -> AlarmCalls
                     [] domain = "history" -> HistoryCalls
                     [] domain = "scripts" -> ScriptCalls
                     [] domain = "devices" -> DeviceCalls
                     [] domain = "pages" -> PageCalls
                     [] domain = "graphics" -> GraphicsCalls
                     [] domain \in AnswerDomains ->
                          {Said(tool) : tool \in AnswersOf(domain)}

Results == UNION {CallsOf(d) : d \in offered}

-----------------------------------------------------------------------------
Init == world \in Seeds /\ offered \in Surfaces

ManagePoints == "points" \in offered /\ \E r \in PointCalls : Do(r)
ManageAlarms == "alarms" \in offered /\ \E r \in AlarmCalls : Do(r)
ManageHistory == "history" \in offered /\ \E r \in HistoryCalls : Do(r)
ManageScripts == "scripts" \in offered /\ \E r \in ScriptCalls : Do(r)
ManageDevices == "devices" \in offered /\ \E r \in DeviceCalls : Do(r)
ManagePages == "pages" \in offered /\ \E r \in PageCalls : Do(r)
ManageGraphics == "graphics" \in offered /\ \E r \in GraphicsCalls : Do(r)
AnswerOnly == \E d \in offered \cap AnswerDomains : \E r \in CallsOf(d) : Do(r)

Next ==
  /\ \/ ManagePoints \/ ManageAlarms \/ ManageHistory \/ ManageScripts
     \/ ManageDevices \/ ManagePages \/ ManageGraphics \/ AnswerOnly
  /\ UNCHANGED offered

Spec == Init /\ [][Next]_vars

-----------------------------------------------------------------------------
(* Every record of the world is one the pydantic models accept, whatever   *)
(* calls led to it (world/models.py forbids extra fields; assignments by   *)
(* the handlers are not validated).                                        *)
WorldTypeOK == world \in MockWorld /\ offered \in Surfaces

(* A record carries the key it is stored under, and a widget the page it   *)
(* sits on: create, rename, copy and clone all keep the two in step, which *)
(* lookups by dict key and listings by field both rely on.                 *)
KeysAgree == KeysAgreeIn(world)

(* No sequence of creations, renames, copies and batch operations leaves   *)
(* an alarm on a point that does not exist (delete_point: "Fails if any    *)
(* alarm references it").                                                  *)
AlarmsHavePoints == AlarmsHavePointsIn(world)

-----------------------------------------------------------------------------
(* The entities of a world, each at the path a world_diff names it by.     *)
Entities(w) ==
  {<<<<"points", t>>, w.points[t]>> : t \in DOMAIN w.points}
  \cup {<<<<"alarms", a>>, w.alarms[a]>> : a \in DOMAIN w.alarms}
  \cup {<<<<"histories", t>>, w.histories[t]>> : t \in DOMAIN w.histories}
  \cup {<<<<"scripts", s>>, w.scripts[s]>> : s \in DOMAIN w.scripts}
  \cup {<<<<"devices", d>>, w.devices[d]>> : d \in DOMAIN w.devices}
  \cup {<<<<"groups", g[1], g[2]>>, w.groups[g]>> : g \in DOMAIN w.groups}
  \cup {<<<<"pages", p>>, w.pages[p].note>> : p \in DOMAIN w.pages}
  \cup (UNION {{<<<<"widgets", p, x>>, w.pages[p].widgets[x]>> :
                  x \in DOMAIN w.pages[p].widgets} : p \in DOMAIN w.pages})
Paths(entities) == {e[1] : e \in entities}
Changed(before, after) == Paths((before \ after) \cup (after \ before))

(* A reported page stands for the widgets on it.                           *)
Covers(paths, path) ==
  path \in paths \/ (path[1] = "widgets" /\ <<"pages", path[2]>> \in paths)

(* Whatever a handler changed is in the world_diff it reports, and what it *)
(* reports as written exists and as removed is gone: no write is silent.   *)
DiffTellsTheChange ==
  LET before == Entities(world)
  IN  \A r \in Results :
        LET after == Entities(r.world)
        IN  /\ \A path \in Changed(before, after) : Covers(r.put \cup r.gone, path)
            /\ r.put \subseteq Paths(after)
            /\ r.gone \cap Paths(after) = {}

(* What there is to lose: entities, bindings, what is enabled, and each    *)
(* day of an archive.                                                      *)
Holdings(w) ==
  Paths(Entities(w))
  \cup (UNION {{<<"binding", e[1][2], e[1][3], prop>> : prop \in DOMAIN e[2].bindings} :
                 e \in {f \in Entities(w) : f[1][1] = "widgets"}})
  \cup {<<"enabled", e[1]>> :
          e \in {f \in Entities(w) : /\ f[1][1] \in {"alarms", "histories",
                                                     "scripts", "devices"}
                                     /\ f[2].enabled}}
  \cup (UNION {{<<"archive", t, d>> : d \in 1..w.histories[t].stored} :
                 t \in DOMAIN w.histories})
Losers ==
  LET held == Holdings(world)
  IN  {r \in Results : ~(held \subseteq Holdings(r.world))}

(* agent/policy.py on the tools of these domains.                          *)
EnumeratedDestructive ==
  {"delete_point", "delete_page", "delete_alarm", "delete_widget",
   "delete_script", "delete_device", "disable_alarm", "disable_script",
   "disable_history"}
(* Mutant: the prefixes as first written, without the batch verb.          *)
ShortPrefixes ==
  {"delete_history", "purge_history", "disable_device", "unbind_widget_point"}
PrefixDestructive ==
  {"delete_history", "purge_history", "disable_device",
   "unbind_widget_point", "batch_delete_points"}
(* Two tools that remove something by design under another verb, and the   *)
(* one that starts an archive over.                                        *)
Uncaged == {"rename_point", "ungroup_widgets", "enable_history"}

(* Everything that loses an entity, a binding, an enabled flag or archived *)
(* data is destructive by name, but for the three tools above: the cage's  *)
(* verb list misses nothing else.                                          *)
LossesAreCaged ==
  \A r \in Losers :
    r.tool \in EnumeratedDestructive \cup PrefixDestructive \cup Uncaged

(* is_destructive is "True when atomic removes or disables an existing     *)
(* entity", and its test says enable_history does not.                     *)
OnlyCagedLose ==
  [][\/ Holdings(world) \subseteq Holdings(world')
     \/ \E r \in Results :
          /\ r.world = world'
          /\ r.tool \in EnumeratedDestructive \cup PrefixDestructive]_vars
=============================================================================
