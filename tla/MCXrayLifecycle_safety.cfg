SPECIFICATION Spec
CONSTANTS
  Users = {u1}
  Slots = {i1, i2}
  Admins = {a1}
  Cron = cron
  Checkers = {k1}
  Jobs = {j1}
  Editors = {e1}
  NoOne = none
  StopTimesOut = FALSE
  MaxFaults = 1
SYMMETRY LifecycleSymmetry
INVARIANTS OneXray StopMarkIsTrue ServesDatabase CallsGoOn
