\* Seven surfaces over two tags, two pages with a widget, two alarms.
SPECIFICATION Spec
CONSTANTS
  None = None
  Tags = {t1, t2}
  AlarmIds = {a1}
  PageIds = {p1, p2}
  WidgetIds = {x1}
  GroupIds = {g1}
  ScriptIds = {s1, s2}
  DeviceIds = {d1, d2}
  Properties = {value}
  PointTypes = {"analog", "digital"}
  Notes = {n1, n2}
  MaxStored = 2
  Surfaces <- MCSurfaces
  Seeds <- MCSeeds
SYMMETRY MCSymmetry
INVARIANTS
  KeysAgree
  AlarmsHavePoints
  DiffTellsTheChange
  LossesAreCaged
