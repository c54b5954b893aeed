SPECIFICATION EditorSpec
CONSTANTS
  Networks = {"kcp", "xhttp"}
  Ids = {1, 2}
  Stored <- MCStored
  Ports = {2}
  Nodes = {7}
  Protocols = {"vless", "mixed", "tunnel", "hysteria", "wireguard"}
  TypedTags <- MCTags
  MaxEdits = 2
  MaxOpenings = 2
INVARIANTS  TagTellsTruth

CHECK_DEADLOCK FALSE
