\* Only the history tools, on a project with an archive.
SPECIFICATION Spec
CONSTANTS
  None = None
  Tags = {t1, t2}
  AlarmIds = {a1}
  PageIds = {p1}
  WidgetIds = {x1}
  GroupIds = {g1}
  ScriptIds = {s1}
  DeviceIds = {d1}
  Properties = {value}
  PointTypes = {"analog", "digital"}
  Notes = {n1}
  MaxStored = 2
  Surfaces <- MCHistoryOnly
  Seeds <- MCSeeds
PROPERTIES
  OnlyCagedLose
