SPECIFICATION MCSpec
CONSTANTS
  Users = {su, ad, xa, st, s2}
  UserRole <- MCRole
  UserCollege <- MCCollege
  Colleges = {c1, c2}
  None = None
  Environments <- MCEnvironments
  Sources <- MCSources
  TestCases <- MCCases
  Policy = "WEIGHTED_PER_TEST"
  Marks = 4
  Overrides = {1, 9}
  RateLimit = 2
  Requests = {r1, r2}
  MaxRequests = 3
  MaxCrashes = 1
  MaxSubs = 3
  MaxJobs = 2
  MaxRunner = 1
  Ids = {1}
  Calls = {1, 2}
  Attempts = 2
  MaxCalls = 3
  MaxFaults = 1
  su = su
  ad = ad
  xa = xa
  st = st
  s2 = s2
  c1 = c1
  c2 = c2
  Devices = {d1, d2}
  Keys = {k1}
  NoKey = NoKey
  MaxAttempts = 1
  Duration = 2
  StartAt = 1
  EndAt = 4
  MaxTime = 5
  MaxNumber = 4
  MaxGrant = 2
SYMMETRY Symmetry
INVARIANTS
  StartsConsistent
  JudgingConsistent
  EnvironmentsAgree
  QueueConsistent
CHECK_DEADLOCK FALSE
