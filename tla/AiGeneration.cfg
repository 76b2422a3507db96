SPECIFICATION GenSpec
CONSTANTS
  admin = admin  c1 = c1
  Users = {admin}
  RoleOf <- MCRoleOf
  CollegeOf <- MCCollegeOf
  Colleges = {c1}
  None = None
  SubjectOpen <- MCSubjectOpen
  Keys = {k1}
  MaxJobs = 3
  MaxResults = 3
  MaxSlots = 2
  Requests = {r1, r2}
  MaxRequests = 2
  MaxCrashes = 1
  DailyLimit = 2
  MonthlyLimit = 5
  Chunks = 2
  MaxRetries = 1
  OpenAfter = 1
INVARIANTS
  GenerationAccounted

  
CHECK_DEADLOCK FALSE
