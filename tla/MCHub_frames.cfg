SPECIFICATION Spec
CONSTANTS
  Clients = {c1, c2}
  SendCap = 2
  MaxBroadcasts = 3
INVARIANT OneEventPerFrame
