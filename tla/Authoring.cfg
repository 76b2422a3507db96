SPECIFICATION MCSpec
CONSTANTS
  root = root  admin = admin  faculty = faculty  student = student
  c1 = c1  c2 = c2  s1 = s1  s2 = s2
  q1 = q1  q2 = q2  q3 = q3  a1 = a1  t1 = t1
  Questions = {q1, q2, q3, q4}
  Jobs = {j1}
  Users = {root, admin, faculty, student}
  RoleOf <- MCRoleOf
  CollegeOf <- MCCollegeOf
  Teaches <- MCTeaches
  SubjectCollege <- MCSubjectCollege
  Colleges = {c1, c2}
  Subjects = {s1, s2}
  Editors = {e1}
  Payloads <- MCPayloads
  MaxRows = 2
  None = None
  Assessments = {a1, a2}
  Sections = {x1}
  Requests = {r1, r2}
  Targets = {t1}
  QuestionMarks = {1}
  SectionMarks = {0, 2}
  PassingMarks = {2}
  Orders = {1, 2}
  DefaultMarks = 1
  MaxRequests = 3
SYMMETRY Symmetry
INVARIANTS
  
  PublishedIsReady
  
PROPERTY
  ChangesStand
CHECK_DEADLOCK FALSE
