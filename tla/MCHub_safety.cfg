SPECIFICATION Spec
CONSTANTS
  Clients = {c1, c2}
  SendCap = 2
  MaxBroadcasts = 5
SYMMETRY Symmetry
INVARIANTS TypeOK NoPanic OpenIffMember DrainNeverBlocks InOrderNoGaps
PROPERTY ImplementsFeed
