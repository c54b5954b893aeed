SPECIFICATION PagesSpec
CONSTANTS
  Stored <- MCStored
  Shared <- MCShared
  Typed <- MCTyped
  Tags <- MCTags
  Trim <- MCTrim
  MaxOutbounds = 2
  MaxEdits = 2
  Address = "panel.example"
  InitSettings <- MCInitSettings
  Entries <- MCEntries
  Addresses = {"ip1", "ip2"}
  WebPorts = {0, 2}
  Domains = {"ip2"}
  BasePaths = {"x", "/x"}
  Multipliers = {1, 2}
  Slashed <- MCSlashed
  Secrets = {"t1", "t2"}
  DirectLists <- MCDirectLists
  MaxChanges = 3
  MaxSaves = 2
  MaxLost = 1
INVARIANTS  SavedIsStable  HysteriaTransport  
PROPERTY TwoFactorProven
CHECK_DEADLOCK FALSE
