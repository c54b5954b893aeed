CONSTANTS
  Clients = {c1}
  Broadcasters = {b1, b2, b3}
  Types = {status, traffic}
  Throttled = {traffic}
  OpsCap = 1
  BroadcastCap = 1
  SendCap = 1
  Attempts = 2
  MaxPanics = 2
SPECIFICATION FairSpec
INVARIANTS
  NoSendOnClosed
  NoSilentGap

  
CHECK_DEADLOCK FALSE
