\* Two siblings wanted, under the names the record gives them.
SPECIFICATION ScoringSpec
CONSTANTS
  Surfaces <- MCSiblings
  Values = {v1, v2}
  Goldens <- MCGoldens
  MaxCalls = 2
INVARIANTS
  OneToOne
