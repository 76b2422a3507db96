CONSTANTS
    Questions = {q1}
    ManualQuestions = {q1}
    Values = {v1}
    Blank = Blank
    Clients = {c1, c2, c3}
    MaxVersion = 3
    Proctored = TRUE
    NoReceipt = NoReceipt
    NoResult = NoResult
SPECIFICATION FairSpec
INVARIANTS
  
  SubmittedIsGraded
PROPERTIES
  SweepCloses
  ReceiptIsFinal
  
  ImplementsContract
CHECK_DEADLOCK FALSE
