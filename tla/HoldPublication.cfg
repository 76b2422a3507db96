SPECIFICATION Spec
CONSTANTS
    ManualQuestions = {}
    HasObjective = TRUE
    Marks = {m1}
    NoMark = NoMark
    Adjusted = {adj}
    Policies = {"NEVER", "AFTER_END"}
    Clients = {c1, c2}
    MaxModerations = 1
    NoResult = NoResult
CHECK_DEADLOCK FALSE
PROPERTY HoldPreventsPublication
