\* Two threads, three endpoints, a conversation of three turns, a rerun.
SPECIFICATION Spec
CONSTANTS
  talker = talker
  mover = mover
  Workers <- MCWorkers
  N = 3
  MaxTurns <- MCMaxTurns
  MaxBatch = 2
  MaxRuns = 2
CHECK_DEADLOCK FALSE
INVARIANTS
  RequestsAreThreaded
  NothingIsLost
  GivesUpAfterAll
