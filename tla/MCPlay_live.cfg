SPECIFICATION FairSpec
CONSTANTS
  Users = {u1, u2}
  Names = {n1}
  MaxSockets = 2
  MaxGames = 1
  MaxMessages = 8
  MaxFaults = 1
CHECK_DEADLOCK FALSE
INVARIANTS TypeOK ConnectedIsOpen RefusalsExplained SavedWasPlayed
PROPERTY NotLostInSilence
