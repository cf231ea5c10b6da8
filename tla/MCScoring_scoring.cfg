\* Four surfaces, three calls.
SPECIFICATION ScoringSpec
CONSTANTS
  Surfaces <- MCSurfaces
  Values = {v1, v2}
  Goldens <- MCGoldens
  MaxCalls = 3
INVARIANTS
  VerdictMatchesWorld
  NoFalseFailure
