SPECIFICATION LiveSpec
CONSTANTS
  Clients <- MCSharedOnly
  Inbounds <- MCInbounds
  Attached <- MCBoth
  Owner <- MCOwnerFirst
  Limit = 1
  Expiring = {"shared"}
  Renewing = {"shared"}
  Resetting = {"shared"}
  Editors = {e1}
  HasNodes = FALSE
  RestartOnDisable = FALSE
  NoClient = none
INVARIANTS OutWhenDisabled
PROPERTIES DepletedLeaves
