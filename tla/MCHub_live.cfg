SPECIFICATION FairSpec
CONSTANTS
  Clients = {c1, c2}
  SendCap = 1
  MaxBroadcasts = 2
PROPERTIES TornDown Delivered HubServesAll
