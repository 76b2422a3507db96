SPECIFICATION MCSpec
CONSTANTS
  nw = nw  nx = nx  su = su  ad = ad  st = st  c1 = c1  c2 = c2  p1 = p1  p2 = p2
  Users = {su, ad, st, nw, nx}
  Colleges = {c1, c2, c3}
  None = None
  MaxSessions = 3
  MaxResetTokens = 3
  Requests = {r1, r2}
  MaxRequests = 3
  MaxCrashes = 1
  LoginLimit = 1
  MaxRows = 9
  MaxPayload = 2
  RowsAtStart <- MCRows
  Features = {"custom_branding", "custom_domain"}
  Plans = {p1, p2}
  PlanFeature <- MCPlanFeature
  Steps = {1, 2}
  MaxVersion = 3
  Fields = {timezone, grace}
  Notice <- MCNotice
SYMMETRY Symmetry
INVARIANTS
  SessionsEnd
  EnrolmentWhole
  TenantsConsistent
  PanelConsistent
CHECK_DEADLOCK FALSE
