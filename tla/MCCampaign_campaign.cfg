\* Two runs of two pairs each, a kill and an outage.
SPECIFICATION Spec
CONSTANTS
  p1 = p1
  p2 = p2
  keyCell = keyCell
  other = other
  Selected <- MCSelected
  MaxReruns = 1
  Cells <- MCCells
  Key = {keyCell}
  Cost <- MCCost
  WorkerCounts = {2}
  MaxStalls = 2
  MaxKills = 1
  MaxDrains = 1
CHECK_DEADLOCK FALSE
INVARIANTS
  NoPairScoredTwice
  ExitZeroIsComplete
  VerdictIsTrue
PROPERTIES
  CampaignEnds
