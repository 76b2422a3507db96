SPECIFICATION Spec
CONSTANTS
    ManualQuestions = {q1, q2}
    HasObjective = TRUE
    Marks = {m1}
    NoMark = NoMark
    Adjusted = {adj}
    Policies = {"NEVER", "AFTER_END"}
    Clients = {c1, c2}
    MaxModerations = 1
    NoResult = NoResult
SYMMETRY MCSymmetry
INVARIANTS
  ReleaseIsAuthorised
  EvaluatedIsComplete
  SerialReviews
CHECK_DEADLOCK FALSE
