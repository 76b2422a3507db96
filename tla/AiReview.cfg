SPECIFICATION MCSpec
CONSTANTS
  admin = admin  c1 = c1  t1 = t1
  Users = {admin}
  RoleOf <- MCRoleOf
  CollegeOf <- MCCollegeOf
  Colleges = {c1}
  None = None
  SubjectOpen <- MCSubjectOpen
  Keys = {k1}
  MaxJobs = 1
  MaxResults = 3
  MaxSlots = 1
  Requests = {r1, r2}
  MaxRequests = 4
  MaxCrashes = 1
  DailyLimit = 1
  MonthlyLimit = 1
  Chunks = 1
  MaxRetries = 0
  OpenAfter = 1
  OcrConfigured = TRUE
  Kinds = {"text", "scan"}
  MaxCandidates = 2
  Texts = {t1, t2}
  UnitSets <- MCUnitSets
  Pool <- MCPool
  Marks <- MCMarks
  TargetMarks = 2
  SetCodes = 2
SYMMETRY Symmetry
INVARIANTS
  ReviewAccounted
  
  
CHECK_DEADLOCK FALSE
