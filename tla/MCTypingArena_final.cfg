SPECIFICATION Spec
CONSTANTS
  Durations = {1, 2}
  TextLen = 2
  Lag = 1
  MaxErrors = 1
  MaxGames = 2
CHECK_DEADLOCK FALSE
INVARIANT FinalStats
