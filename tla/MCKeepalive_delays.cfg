SPECIFICATION FairSpec
CONSTANTS
  pongWait = 12
  writeWait = 3
  RoundTrip = 1
  Handling = 4
CHECK_DEADLOCK FALSE
INVARIANTS TypeOK ResponsiveKept DeadNoticed
PROPERTY DeadTornDown
