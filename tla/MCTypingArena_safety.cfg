SPECIFICATION FairSpec
CONSTANTS
  Durations = {1, 2}
  TextLen = 3
  Lag = 1
  MaxErrors = 2
  MaxGames = 2
CHECK_DEADLOCK FALSE
INVARIANTS TypeOK OneResult AtMostTwo SubmittedIsShown ClockRunsWithGame
PROPERTY GameEnds
