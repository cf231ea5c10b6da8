------------------------------ MODULE TagTools ------------------------------
(***************************************************************************)
(* The handlers of manage_points, manage_alarms, manage_history,           *)
(* manage_scripts and manage_devices.  One operator per handler that       *)
(* writes; handlers with the same guard and the same effect on the fields  *)
(* kept here are one operator over the set of their names.                 *)
(***************************************************************************)
EXTENDS World

points == world.points
alarms == world.alarms
histories == world.histories
scripts == world.scripts
devices == world.devices

-----------------------------------------------------------------------------
(* manage_points *)
WithPoints(ps) == [world EXCEPT !.points = ps]
Alarmed(t) == \E a \in DOMAIN alarms : alarms[a].tag = t

CreatePoint(t, ty, n) ==
  IF t \in DOMAIN points THEN Fail("create_point")
  ELSE Result("create_point",
              WithPoints(Put(points, t, [tag |-> t, type |-> ty, note |-> n])),
              {<<"points", t>>}, {})

PointSetters == {"update_point", "set_point_unit", "set_point_range",
                 "set_point_description"}
SimulationSetters == {"set_point_simulation", "set_point_initial_value"}
SetPoint(tool, t, n) ==
  IF t \notin DOMAIN points THEN Fail(tool)
  ELSE Result(tool, [world EXCEPT !.points[t].note = n], {<<"points", t>>}, {})
SetPointSimulation(tool, t, n) == SetPoint(tool, t, n)

DeletePoint(t) ==
  IF t \notin DOMAIN points \/ Alarmed(t) THEN Fail("delete_point")
  ELSE Result("delete_point", WithPoints(Del(points, t)),
              {}, {<<"points", t>>})

RenamePoint(t, u) ==
  IF t \notin DOMAIN points \/ u \in DOMAIN points \/ Alarmed(t)
  THEN Fail("rename_point")
  ELSE Result("rename_point",
              WithPoints(Put(Del(points, t), u, [points[t] EXCEPT !.tag = u])),
              {<<"points", u>>}, {<<"points", t>>})

SetPointType(t, ty) ==
  IF t \notin DOMAIN points THEN Fail("set_point_type")
  ELSE Result("set_point_type", [world EXCEPT !.points[t].type = ty],
              {<<"points", t>>}, {})

CopyPoint(t, u) ==
  IF t \notin DOMAIN points \/ u \in DOMAIN points THEN Fail("copy_point")
  ELSE Result("copy_point",
              WithPoints(Put(points, u, [points[t] EXCEPT !.tag = u])),
              {<<"points", u>>}, {})

(* Tags that exist are passed over; the new ones start with defaults.      *)
BatchCreatePoints(ts, ty, n) ==
  LET new == ts \ DOMAIN points
  IN  Result("batch_create_points",
             WithPoints([t \in DOMAIN points \cup new |->
                           IF t \in new THEN [tag |-> t, type |-> ty, note |-> n]
                           ELSE points[t]]),
             {<<"points", t>> : t \in new}, {})

(* Mutant: the batch deletes alarmed points too.                           *)
BatchDeleteAll(ts) ==
  LET old == ts \cap DOMAIN points
  IN  Result("batch_delete_points", WithPoints(Restrict(points, DOMAIN points \ old)),
             {}, {<<"points", t>> : t \in old})

BatchDeletePoints(ts) ==
  LET old == {t \in ts \cap DOMAIN points : ~Alarmed(t)}
  IN  Result("batch_delete_points", WithPoints(Restrict(points, DOMAIN points \ old)),
             {}, {<<"points", t>> : t \in old})

(* Handlers that look the point up at most and write nothing, whatever     *)
(* their name says.                                                        *)
PointAnswers == {"set_point_scaling", "move_point_to_group", "get_point_value",
                 "set_point_archive", "export_points"}

-----------------------------------------------------------------------------
(* manage_alarms *)
CreateAlarm(tool, ty, a, t, n) ==
  IF \/ a \in DOMAIN alarms \/ t \notin DOMAIN points
     \/ points[t].type # ty
  THEN Fail(tool)
  ELSE Result(tool,
              [world EXCEPT !.alarms =
                 Put(alarms, a, [id |-> a, tag |-> t, type |-> ty,
                                 enabled |-> TRUE, note |-> n])],
              {<<"alarms", a>>}, {})
CreateAnalogAlarm(a, t, n) == CreateAlarm("create_analog_alarm", "analog", a, t, n)

CreateDigitalAlarm(a, t, n) == CreateAlarm("create_digital_alarm", "digital", a, t, n)

SetThreshold(a, n) ==
  IF a \notin DOMAIN alarms \/ alarms[a].type # "analog" THEN Fail("set_threshold")
  ELSE Result("set_threshold", [world EXCEPT !.alarms[a].note = n],
              {<<"alarms", a>>}, {})

SetEnabled(tool, a, on) ==
  IF a \notin DOMAIN alarms THEN Fail(tool)
  ELSE Result(tool, [world EXCEPT !.alarms[a].enabled = on], {<<"alarms", a>>}, {})
EnableAlarm(a) == SetEnabled("enable_alarm", a, TRUE)
DisableAlarm(a) == SetEnabled("disable_alarm", a, FALSE)

DeleteAlarm(a) ==
  IF a \notin DOMAIN alarms THEN Fail("delete_alarm")
  ELSE Result("delete_alarm", [world EXCEPT !.alarms = Del(alarms, a)],
              {}, {<<"alarms", a>>})

LimitSetters == {"set_alarm_high_limit", "set_alarm_low_limit", "set_alarm_deadband"}
Annunciation == {"acknowledge_alarm", "shelve_alarm", "unshelve_alarm"}
SetAlarm(tool, a, n) ==
  IF a \notin DOMAIN alarms THEN Fail(tool)
  ELSE Result(tool, [world EXCEPT !.alarms[a].note = n], {<<"alarms", a>>}, {})
Annunciate(tool, a, n) == SetAlarm(tool, a, n)
SetAlarmPriority(a, n) == SetAlarm("set_alarm_priority", a, n)
SuppressAlarm(a, n) == SetAlarm("suppress_alarm", a, n)

AlarmAnswers == {"set_alarm_message", "set_alarm_on_delay", "create_alarm_group",
                 "add_alarm_to_group", "test_alarm", "list_active_alarms",
                 "get_alarm_history"}

-----------------------------------------------------------------------------
(* manage_history: enabling builds a fresh record, whatever was there.     *)
EnableHistory(t, n) ==
  IF t \notin DOMAIN points THEN Fail("enable_history")
  ELSE Result("enable_history",
              [world EXCEPT !.histories =
                 Put(histories, t, [tag |-> t, enabled |-> TRUE,
                                    stored |-> 0, note |-> n])],
              {<<"histories", t>>}, {})

DisableHistory(t) ==
  IF t \notin DOMAIN histories THEN Fail("disable_history")
  ELSE Result("disable_history", [world EXCEPT !.histories[t].enabled = FALSE],
              {<<"histories", t>>}, {})

HistorySetters == {"set_sample_interval", "set_history_deadband"}
SetHistory(tool, t, n) ==
  IF t \notin DOMAIN histories THEN Fail(tool)
  ELSE Result(tool, [world EXCEPT !.histories[t].note = n],
              {<<"histories", t>>}, {})
SetRetention(t, n) == SetHistory("set_retention", t, n)
SetStoragePolicy(t, n) == SetHistory("set_storage_policy", t, n)

DeleteHistory(t) ==
  IF t \notin DOMAIN histories THEN Fail("delete_history")
  ELSE Result("delete_history", [world EXCEPT !.histories = Del(histories, t)],
              {}, {<<"histories", t>>})

(* Mutant: what a purge removed is not reported.                           *)
PurgeSilently(t, days) ==
  IF t \notin DOMAIN histories THEN Fail("purge_history")
  ELSE IF histories[t].stored <= days THEN Said("purge_history")
  ELSE Result("purge_history", [world EXCEPT !.histories[t].stored = days], {}, {})

PurgeHistory(t, days) ==
  IF t \notin DOMAIN histories THEN Fail("purge_history")
  ELSE IF histories[t].stored <= days THEN Said("purge_history")
  ELSE Result("purge_history", [world EXCEPT !.histories[t].stored = days],
              {<<"histories", t>>}, {})

HistoryAnswers == {"backfill_history", "get_history_gaps",
                   "configure_historian_connection", "set_history_precision"}

-----------------------------------------------------------------------------
(* manage_scripts *)
CreateScript(s, trigger, t, on, n) ==
  IF \/ s \in DOMAIN scripts
     \/ t # None /\ t \notin DOMAIN points
     \/ trigger = "on_alarm" /\ t # None /\ ~Alarmed(t)
  THEN Fail("create_script")
  ELSE Result("create_script",
              [world EXCEPT !.scripts =
                 Put(scripts, s, [id |-> s, trigger |-> trigger, tag |-> t,
                                  enabled |-> on, note |-> n])],
              {<<"scripts", s>>}, {})

EditScript(tool, s, new) ==
  IF s \notin DOMAIN scripts THEN Fail(tool)
  ELSE Result(tool, [world EXCEPT !.scripts[s] = new], {<<"scripts", s>>}, {})
UpdateScriptBody(s, n) ==
  EditScript("update_script_body", s, [scripts[s] EXCEPT !.note = n])
EnableScript(s) ==
  EditScript("enable_script", s, [scripts[s] EXCEPT !.enabled = TRUE])
DisableScript(s) ==
  EditScript("disable_script", s, [scripts[s] EXCEPT !.enabled = FALSE])
RenameScript(s, n) ==
  EditScript("rename_script", s, [scripts[s] EXCEPT !.note = n])
SetScriptTrigger(s, trigger) ==
  EditScript("set_script_trigger", s, [scripts[s] EXCEPT !.trigger = trigger])
SetScriptPeriod(s, n) ==
  EditScript("set_script_period", s, [scripts[s] EXCEPT !.note = n])
BindScriptToTag(s, t) ==
  IF t \notin DOMAIN points THEN Fail("bind_script_to_tag")
  ELSE EditScript("bind_script_to_tag", s, [scripts[s] EXCEPT !.tag = t])

DeleteScript(s) ==
  IF s \notin DOMAIN scripts THEN Fail("delete_script")
  ELSE Result("delete_script", [world EXCEPT !.scripts = Del(scripts, s)],
              {}, {<<"scripts", s>>})

CloneScript(s, u) ==
  IF s \notin DOMAIN scripts \/ u \in DOMAIN scripts THEN Fail("clone_script")
  ELSE Result("clone_script",
              [world EXCEPT !.scripts =
                 Put(scripts, u, [scripts[s] EXCEPT !.id = u])],
              {<<"scripts", u>>}, {})

ScriptAnswers == {"test_script", "debug_script", "get_script_logs",
                  "set_script_priority", "validate_script_syntax",
                  "import_script", "export_script"}

-----------------------------------------------------------------------------
(* manage_devices: only link_device_points looks the tags up.              *)
CreateDevice(d, ts, n) ==
  IF d \in DOMAIN devices THEN Fail("create_device")
  ELSE Result("create_device",
              [world EXCEPT !.devices =
                 Put(devices, d, [id |-> d, tags |-> ts, enabled |-> TRUE,
                                  note |-> n])],
              {<<"devices", d>>}, {})

EditDevice(tool, d, new) ==
  IF d \notin DOMAIN devices THEN Fail(tool)
  ELSE Result(tool, [world EXCEPT !.devices[d] = new], {<<"devices", d>>}, {})
UpdateDevice(d, ts, n) ==
  EditDevice("update_device", d, [devices[d] EXCEPT !.tags = ts, !.note = n])
SetDevice(tool, d, n) == EditDevice(tool, d, [devices[d] EXCEPT !.note = n])
ConfigureDeviceParams(d, n) == SetDevice("configure_device_params", d, n)
Placements == {"move_device", "set_device_template"}
PlaceDevice(tool, d, n) == SetDevice(tool, d, n)
CalibrateDevice(d, n) == SetDevice("calibrate_device", d, n)
Assignments == {"set_device_polling", "assign_device_to_area"}
AssignDevice(tool, d, n) == SetDevice(tool, d, n)
SetDeviceAlarmLimits(d, n) == SetDevice("set_device_alarm_limits", d, n)
EnableDevice(d) ==
  EditDevice("enable_device", d, [devices[d] EXCEPT !.enabled = TRUE])
DisableDevice(d) ==
  EditDevice("disable_device", d, [devices[d] EXCEPT !.enabled = FALSE])
LinkDevicePoints(d, ts) ==
  IF ~(ts \subseteq DOMAIN points) THEN Fail("link_device_points")
  ELSE EditDevice("link_device_points", d,
                  [devices[d] EXCEPT !.tags = devices[d].tags \cup ts])

DeleteDevice(d) ==
  IF d \notin DOMAIN devices THEN Fail("delete_device")
  ELSE Result("delete_device", [world EXCEPT !.devices = Del(devices, d)],
              {}, {<<"devices", d>>})

CloneDevice(d, e) ==
  IF d \notin DOMAIN devices \/ e \in DOMAIN devices THEN Fail("clone_device")
  ELSE Result("clone_device",
              [world EXCEPT !.devices = Put(devices, e, [devices[d] EXCEPT !.id = e])],
              {<<"devices", e>>}, {})

DeviceAnswers == {"get_device_status", "list_devices"}
=============================================================================
