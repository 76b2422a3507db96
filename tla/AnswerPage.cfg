CONSTANTS
    Questions = {q1, q2}
    Flushers = {f1}
    MaxEdits = 3
    MaxFlight = 2
    NoTimer = NoTimer
SPECIFICATION FairSpec
INVARIANTS
  AnswersAccounted
  SubmitDelivers
PROPERTY
  SaveResolves
CHECK_DEADLOCK FALSE
