SPECIFICATION FairSpec
CONSTANTS
  null = null
  Limit = 2
  MatchGoals = {1, 2, 4}
  SpeedGoals = {30}
  LEVELS <- Levels
  Scores = {29, 30}
  MaxMatches = 4
  MaxFetches = 2
CHECK_DEADLOCK FALSE
INVARIANTS TypeOK ShownIsOneMoment GoalsUnlocked LevelExact SpeedsReached
PROPERTIES UnlocksKept LoadingEnds
