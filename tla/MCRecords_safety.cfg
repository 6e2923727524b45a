SPECIFICATION Spec
CONSTANTS
  u1 = u1
  u2 = u2
  n1 = n1
  n2 = n2
  s1 = s1
  s2 = s2
  s3 = s3
  Sessions = {s1, s2, s3}
  Users = {u1, u2}
  Names = {n1, n2}
  UserOf <- TwoTabs
  GuestName <- Guests
  Scores = {40, 60}
  MaxMessages = 4
  MaxFaults = 1
SYMMETRY Tabs
INVARIANTS TypeOK LeaderboardBacked SavedOnceInOrder LeaderboardCurrent
PROPERTIES RowsKept ImplementsLedger
