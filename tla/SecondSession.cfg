SPECIFICATION MCSpec
CONSTANTS
  Requests = {c1}
  Keys = {k1}
  Risky = {"exit", "critical", "signal", "manual"}
  Heavy = {"manual"}
  Limit = 1
  FlagThreshold = 3
  AutoSubmitOnCritical = TRUE
  BlockSecond = TRUE
  Decisions = {"CLEARED"}
  MaxDeaths = 1
  Policies <- MCPolicies
  MaxPosts = 2
  Begins = {1, 2}
  MaxMishaps = 1
SYMMETRY Symmetry
CHECK_DEADLOCK FALSE
INVARIANT BlockedMeansActive
