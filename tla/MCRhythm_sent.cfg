SPECIFICATION Spec
CONSTANTS
  Pauses = {1, 2, 20}
  MaxKeys = 5
CHECK_DEADLOCK FALSE
INVARIANT ConsistencySent
