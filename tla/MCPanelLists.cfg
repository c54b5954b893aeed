SPECIFICATION FairSpec
CONSTANTS
  Searches = {"", "ann"}
  Sorts = {"oldest", "newest"}
  FirstSort = "oldest"
  Criteria = {"status"}
  Ranges = {""}
  MaxWrites = 2
  MaxEvents = 3
  Amounts = {0, 1, 2, 3, 4, 5, 6, 7}
  Times <- MCTimes
  Now = 3
  ExpireDiff = 2
  TrafficDiff = 2
INVARIANTS   StatusAgreesAtStart
PROPERTY ListCatchesUp
CHECK_DEADLOCK FALSE
