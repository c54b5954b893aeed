SPECIFICATION Spec
CONSTANTS
  Clients <- MCClients
  Inbounds <- MCInbounds
  Attached <- MCAttached
  Owner <- MCOwner
  Limit = 1
  Expiring = {}
  Renewing = {}
  Resetting = {}
  Editors = {e1}
  HasNodes = TRUE
  RestartOnDisable = TRUE
  NoClient = none
INVARIANTS RecordMirrors EnabledIsServed
