CONSTANTS
  Clients = {c1, c2}
  Broadcasters = {b1}
  Types = {status}
  Throttled = {}
  OpsCap = 1
  BroadcastCap = 1
  SendCap = 1
  Attempts = 3
  MaxPanics = 0
SPECIFICATION FairSpec
INVARIANTS
  NoLeakedClient
PROPERTIES
  ClosedConnectionEnds
  DisconnectReleases
  RegisterCompletes
CHECK_DEADLOCK FALSE
