SPECIFICATION Spec
CONSTANTS
  null = null
  Limit = 50
  MatchGoals = {10, 50, 100}
  SpeedGoals = {60, 100}
  LEVELS <- Levels
  Scores = {60}
  MaxMatches = 100
  MaxFetches = 1
CHECK_DEADLOCK FALSE
INVARIANT EveryGoalUnlocked
