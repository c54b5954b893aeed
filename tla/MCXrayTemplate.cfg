SPECIFICATION EditorSpec
CONSTANTS
  Stored <- MCStored
  Typed <- MCTyped
  Default <- MCDefault
  MaxEdits = 2
  ReverseTags = {}
  Lists <- MCLists
  Strategies = {"random", "leastPing"}
  Slices <- MCSlices
  RuleSlices <- MCRuleSlices
  Names = {"c"}
  NordTags = {"nord-a", "nord-b"}
INVARIANTS CleanIsStored RoutingResolves HostsAreShown

CHECK_DEADLOCK FALSE
