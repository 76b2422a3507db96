SPECIFICATION MCSpec
CONSTANTS
  Users = {su, ad, fa, st, xa, xs}
  UserRole <- MCRole
  UserCollege <- MCCollege
  Colleges = {c1, c2}
  None = None
  Sessions = {s1, s2}
  SessionCollege <- MCSessionCollege
  SessionStudent <- MCSessionStudent
  SessionAssessment <- MCSessionAssessment
  Assessments = {1, 2}
  Days = {7, 30}
  DefaultDays = 30
  RiskDeltas = {1, 2}
  RiskCap = 2
  Batch = 2
  MaxPolicies = 3
  MaxEvidence = 3
  MaxJobs = 2
  Requests = {r1, r2}
  MaxRequests = 3
  MaxCrashes = 1
  QuestionPool <- MCQuestions
  AnswerPool <- MCAnswers
  Unset = Unset
  NoTask = NoTask
  PaperLength = 2
  TotalMarks = 4
  PassingMarks = 2
  ReviewMarks = {0, 2}
  Results = {1, 2, 3}
  AssignedStudents <- MCAssignedStudents
  AssessmentCollege <- MCAssessmentCollege
  AssignedAssessments <- MCAssignedAssessments
  HiddenBoards = {2}
  OpenResults = {1}
  MaxReports = 2
  MaxRuns = 2
  MaxInsights = 2
  Verdicts = {"NORMAL", "FLAGGED", "CLEARED"}
  MaxFlags = 2
  Exams <- MCExams
  NoDate = NoDate
  Duration = 2
  MaxTime = 4
  MaxTries = 2
  MaxReads = 1
  MaxActs = 2
  su = su
  ad = ad
  fa = fa
  st = st
  xa = xa
  xs = xs
  c1 = c1
  c2 = c2
  s1 = s1
  s2 = s2
SYMMETRY Symmetry
INVARIANTS
  
  GradesAgree
  
  PortalHonest
PROPERTY
  RecordsSettle
CHECK_DEADLOCK FALSE
