----------------------- MODULE ResultRelease_proofs -----------------------
(* Proofs of the invariants of ResultRelease, for any number of clients,   *)
(* manual questions and marks.                                             *)
EXTENDS ResultRelease, TLAPS

\* A transaction that writes the result has seen that it exists.
Exists ==
    \A c \in Clients :
        req[c].op \in {"review", "calculate", "moderate", "studentRead"}
            => result # NoResult

\* What an open moderation would restore, and an open reading publish, was
\* authorised.
Authorised ==
    \A c \in Clients :
        /\ req[c].op = "moderate" /\ req[c].published => released \/ Visible
        /\ req[c].op = "studentRead" => Visible

IInv ==
    /\ TypeOK
    /\ Exists
    /\ job \in {"waiting", "active"} => result # NoResult
    /\ ReleaseIsAuthorised
    /\ Authorised
    /\ EvaluatedIsComplete

LEMMA OpTypes ==
    ASSUME TypeOK, NEW c \in Clients
    PROVE  /\ req[c] = Idle => req[c].op = "idle"
           /\ req[c].op = "review" => req[c] \in Reviewing
           /\ req[c].op = "calculate" => req[c] \in Calculating
           /\ req[c].op = "moderate" => req[c] \in Moderating
           /\ req[c].op \in {"publishResults", "publishEligible", "studentRead"}
                 => req[c] \in Publishing
  BY DEF TypeOK, Idle, Reviewing, Calculating, Moderating, Publishing

LEMMA InitIInv == Init => IInv
  <1> SUFFICES ASSUME Init PROVE IInv
    OBVIOUS
  <1>1. Unmarked \in MarkSheets
    BY DEF Unmarked, MarkSheets
  <1>2. TypeOK
    <2>1. attempt \in [status: {"IN_PROGRESS", "UNDER_REVIEW", "EVALUATED"},
                       score: MarkSheets]
      BY <1>1 DEF Init
    <2>2. moderations \in
            Seq([action: {"NONE", "HELD", "RELEASED", "ADJUSTED"},
                 oldScore: Scores, newScore: Scores])
      BY DEF Init
    <2>3. req \in [Clients -> {Idle} \cup Reviewing \cup Calculating
\cup Moderating \cup Publishing]
      BY DEF Init
    <2> QED
      BY <1>1, <2>1, <2>2, <2>3 DEF Init, TypeOK
  <1>3. \A c \in Clients : req[c].op = "idle"
    BY DEF Init, Idle
  <1>4. QED
    BY <1>2, <1>3
    DEF Init, IInv, Exists, ReleaseIsAuthorised, Authorised,
        EvaluatedIsComplete

\* The value a score calculation writes to the attempt.
LEMMA WriteTypes ==
    ASSUME TypeOK, result # NoResult, NEW sheet \in MarkSheets,
           WriteScore(sheet)
    PROVE  /\ result' \in Results /\ result' # NoResult
           /\ result'.published = result.published
           /\ result'.moderation = result.moderation
           /\ attempt' \in [status: {"IN_PROGRESS", "UNDER_REVIEW", "EVALUATED"},
                            score: MarkSheets]
           /\ attempt'.score = sheet
           /\ attempt'.status = "EVALUATED" <=> ~Pending(sheet)
  <1>1. result \in Results
    BY DEF TypeOK
  <1>2. EvaluationStatus(sheet) \in {"PENDING_REVIEW", "READY"}
    BY DEF EvaluationStatus
  <1>3. result' \in Results
    BY <1>1, <1>2 DEF WriteScore, Results, Scores
  <1>4. QED
    BY <1>1, <1>3, ReleaseAssumption DEF WriteScore, AttemptStatus, Results

LEMMA NextIInv ==
    ASSUME IInv, [Next]_rvars
    PROVE  IInv'
  <1> USE DEF IInv
  <1>1. CASE UNCHANGED rvars
    BY <1>1 DEF rvars, TypeOK, Exists, ReleaseIsAuthorised, Authorised,
                EvaluatedIsComplete, Visible, Pending
  <1>2. CASE DueDate
    BY <1>2 DEF DueDate, TypeOK, Exists, ReleaseIsAuthorised, Authorised,
                EvaluatedIsComplete, Visible, Pending
  <1>3. ASSUME Submit \/ AutoSubmit
        PROVE  IInv'
    <2>1. PICK p \in BOOLEAN : FirstResult(p) /\ (p => Visible)
      <3>1. AutoPublish \in BOOLEAN /\ (AutoPublish => Visible)
        BY DEF AutoPublish
      <3> QED
        BY <1>3, <3>1 DEF Submit, AutoSubmit
    <2>2. result' \in Results /\ result' # NoResult
      <3>1. Unmarked \in Scores
        BY DEF Unmarked, Scores, MarkSheets
      <3>2. EvaluationStatus(Unmarked) \in {"PENDING_REVIEW", "READY"}
        BY DEF EvaluationStatus
      <3> QED
        BY <2>1, <3>1, <3>2, ReleaseAssumption DEF FirstResult, Results
    <2>3. job' \in {"absent", "waiting", "active", "done"}
      BY <1>3 DEF Submit, AutoSubmit, TypeOK
    <2>4. attempt' \in [status: {"IN_PROGRESS", "UNDER_REVIEW", "EVALUATED"},
                        score: MarkSheets]
      BY <2>1 DEF FirstResult, Unmarked, MarkSheets, AttemptStatus
    <2>5. TypeOK'
      BY <2>1, <2>2, <2>3, <2>4 DEF FirstResult, TypeOK
    <2>6. ReleaseIsAuthorised'
      BY <2>1 DEF FirstResult, ReleaseIsAuthorised, Visible
    <2>7. EvaluatedIsComplete'
      BY <2>1 DEF FirstResult, EvaluatedIsComplete, Pending, AttemptStatus
    <2>8. Exists' /\ Authorised'
      BY <2>1, <2>2 DEF FirstResult, Exists, Authorised, Visible
    <2> QED
      BY <2>2, <2>5, <2>6, <2>7, <2>8
  <1>4. ASSUME HoldResult \/ ReleaseResult \/ UnpublishResults
        PROVE  IInv'
    <2>1. result' \in Results /\ result' # NoResult
          /\ (result'.published => result.published)
      <3>0. result \in Results
        BY <1>4 DEF HoldResult, ReleaseResult, UnpublishResults, TypeOK
      <3>1. CASE HoldResult
        BY <3>0, <3>1, ReleaseAssumption DEF HoldResult, Results
      <3>2. CASE ReleaseResult
        BY <3>0, <3>2, ReleaseAssumption DEF ReleaseResult, Results
      <3>3. CASE UnpublishResults
        BY <3>0, <3>3, ReleaseAssumption DEF UnpublishResults, Results
      <3> QED
        BY <1>4, <3>1, <3>2, <3>3
    <2>2. UNCHANGED <<policy, due, tasks, attempt, job, moderations, released,
                      updated, req>> /\ result # NoResult
      BY <1>4 DEF HoldResult, ReleaseResult, UnpublishResults
    <2> QED
      BY <2>1, <2>2
      DEF TypeOK, Exists, ReleaseIsAuthorised, Authorised,
          EvaluatedIsComplete, Visible, Pending
  <1>5. ASSUME NEW c \in Clients, ClientStep(c)
        PROVE  IInv'
    <2>1. ASSUME NEW q \in ManualQuestions, NEW m \in Marks,
                 CompleteReviewRead(c, q, m) \/ UpdateReviewRead(c, q, m)
          PROVE  IInv'
      <3>1. /\ result # NoResult
            /\ req' = [req EXCEPT ![c] = req'[c]]
            /\ req'[c] \in Reviewing
            /\ req'[c].op = "review"
        BY <2>1
        DEF CompleteReviewRead, UpdateReviewRead, TypeOK, MarkSheets, Reviewing
      <3>2. UNCHANGED <<policy, due, tasks, result, attempt, job, moderations,
                        released>> /\ updated' \in BOOLEAN
        BY <2>1 DEF CompleteReviewRead, UpdateReviewRead, TypeOK
      <3>3. TypeOK'
        BY <3>1, <3>2 DEF TypeOK
      <3> QED
        BY <3>1, <3>2, <3>3
        DEF TypeOK, Exists, ReleaseIsAuthorised, Authorised,
            EvaluatedIsComplete, Visible, Pending
    <2>3. CASE ReviewCommit(c)
      <3>1. req[c] \in Reviewing /\ result # NoResult
        BY <2>3, OpTypes DEF ReviewCommit, Exists
      <3>2. WriteScore(req[c].sheet) /\ req[c].sheet \in MarkSheets
        BY <2>3, <3>1 DEF ReviewCommit, Reviewing
      <3>3. tasks' \in MarkSheets
        BY <2>3, <3>1 DEF ReviewCommit, Reviewing, TypeOK, MarkSheets
      <3>4. TypeOK'
        BY <2>3, <3>1, <3>2, <3>3, WriteTypes DEF ReviewCommit, TypeOK
      <3>5. EvaluatedIsComplete'
        BY <3>1, <3>2, WriteTypes DEF EvaluatedIsComplete, Pending
      <3>6. ReleaseIsAuthorised'
        BY <2>3, <3>1, <3>2, WriteTypes
        DEF ReviewCommit, ReleaseIsAuthorised, Visible
      <3>7. Exists' /\ Authorised'
        BY <2>3, <3>1, <3>2, WriteTypes
        DEF ReviewCommit, Exists, Authorised, Visible, TypeOK, Idle
      <3> QED
        BY <2>3, <3>1, <3>2, <3>4, <3>5, <3>6, <3>7, WriteTypes
        DEF ReviewCommit
    <2>4. CASE CalculateRead(c)
      <3>1. TypeOK'
        BY <2>4 DEF CalculateRead, TypeOK, Calculating
      <3> QED
        BY <2>4, <3>1
        DEF CalculateRead, TypeOK, Exists, ReleaseIsAuthorised, Authorised,
            EvaluatedIsComplete, Visible, Pending
    <2>5. CASE CalculateCommit(c)
      <3>1. req[c] \in Calculating /\ result # NoResult
        BY <2>5, OpTypes DEF CalculateCommit, Exists
      <3>2. WriteScore(req[c].sheet) /\ req[c].sheet \in MarkSheets
        BY <2>5, <3>1 DEF CalculateCommit, Calculating
      <3>4. TypeOK'
        BY <2>5, <3>1, <3>2, WriteTypes DEF CalculateCommit, TypeOK
      <3>5. EvaluatedIsComplete'
        BY <3>1, <3>2, WriteTypes DEF EvaluatedIsComplete, Pending
      <3>6. ReleaseIsAuthorised'
        BY <2>5, <3>1, <3>2, WriteTypes
        DEF CalculateCommit, ReleaseIsAuthorised, Visible
      <3>7. Exists' /\ Authorised'
        BY <2>5, <3>1, <3>2, WriteTypes
        DEF CalculateCommit, Exists, Authorised, Visible, TypeOK, Idle
      <3> QED
        BY <3>1, <3>2, <3>4, <3>5, <3>6, <3>7, WriteTypes
    <2>6. ASSUME NEW a \in {"NONE", "HELD", "RELEASED", "ADJUSTED"},
                 NEW n \in Adjusted, ModerateRead(c, a, n)
          PROVE  IInv'
      <3>1. TypeOK'
        BY <2>6 DEF ModerateRead, TypeOK, Moderating, Results
      <3>2. Authorised'
        BY <2>6
        DEF ModerateRead, TypeOK, Authorised, ReleaseIsAuthorised, Visible
      <3> QED
        BY <2>6, <3>1, <3>2
        DEF ModerateRead, TypeOK, Exists, ReleaseIsAuthorised,
            EvaluatedIsComplete, Visible, Pending
    <2>7. CASE ModerateCommit(c)
      <3>1. req[c] \in Moderating /\ result # NoResult
        BY <2>7, OpTypes DEF ModerateCommit, Exists
      <3>2. ModeratedScore(req[c]) \in Scores
        BY <3>1 DEF ModeratedScore, Moderating, Scores
      <3>3. result' \in Results /\ result' # NoResult
        BY <2>7, <3>1, <3>2, ReleaseAssumption, ZenonT(60)
        DEF ModerateCommit, TypeOK, Results, Moderating, ModeratedPublished
      <3>4. moderations' \in
              Seq([action: {"NONE", "HELD", "RELEASED", "ADJUSTED"},
                   oldScore: Scores, newScore: Scores])
        BY <2>7, <3>1, <3>2 DEF ModerateCommit, TypeOK, Moderating
      <3>5. TypeOK'
        BY <2>7, <3>3, <3>4 DEF ModerateCommit, TypeOK
      <3>6. ReleaseIsAuthorised'
        BY <2>7, <3>1
        DEF ModerateCommit, TypeOK, Results, ModeratedPublished,
            ReleaseIsAuthorised, Authorised, Visible
      <3> QED
        BY <2>7, <3>1, <3>3, <3>5, <3>6
        DEF ModerateCommit, TypeOK, Exists, Authorised, EvaluatedIsComplete,
            Visible, Pending, Idle
    <2>8. ASSUME NEW op \in {"publishResults", "publishEligible"},
                 PublishCheck(c, op)
          PROVE  IInv'
      <3>1. TypeOK'
        BY <2>8 DEF PublishCheck, TypeOK, Publishing
      <3> QED
        BY <2>8, <3>1
        DEF PublishCheck, TypeOK, Exists, ReleaseIsAuthorised, Authorised,
            EvaluatedIsComplete, Visible, Pending
    <2>9. CASE PublishResults(c) \/ PublishEligible(c)
      <3>1. Publish(c) /\ result # NoResult
        BY <2>9 DEF PublishResults, PublishEligible
      <3>2. result' \in Results /\ result' # NoResult
        BY <3>1, ReleaseAssumption DEF Publish, TypeOK, Results
      <3> QED
        BY <3>1, <3>2
        DEF Publish, TypeOK, Exists, ReleaseIsAuthorised, Authorised,
            EvaluatedIsComplete, Visible, Pending, Idle
    <2>10. CASE StudentReadSelect(c)
      <3>1. TypeOK'
        BY <2>10 DEF StudentReadSelect, TypeOK, Publishing
      <3> QED
        BY <2>10, <3>1
        DEF StudentReadSelect, TypeOK, Exists, ReleaseIsAuthorised, Authorised,
            EvaluatedIsComplete, Visible, Pending
    <2>11. CASE StudentReadPublish(c)
      <3>1. result # NoResult /\ Visible
        BY <2>11 DEF StudentReadPublish, Exists, Authorised
      <3>2. result' \in Results /\ result' # NoResult
        BY <2>11, <3>1, ReleaseAssumption
        DEF StudentReadPublish, TypeOK, Results
      <3> QED
        BY <2>11, <3>1, <3>2
        DEF StudentReadPublish, TypeOK, Exists, ReleaseIsAuthorised,
            Authorised, EvaluatedIsComplete, Visible, Pending, Idle
    <2>12. CASE Abandon(c)
      BY <2>12
      DEF Abandon, TypeOK, Exists, ReleaseIsAuthorised, Authorised,
          EvaluatedIsComplete, Visible, Pending, Idle
    <2> QED
      BY <1>5, <2>1, <2>3, <2>4, <2>5, <2>6, <2>7, <2>8, <2>9, <2>10,
         <2>11, <2>12
      DEF ClientStep
  <1> QED
    BY <1>1, <1>2, <1>3, <1>4, <1>5 DEF Next

LEMMA Invariance == Spec => []IInv
  BY InitIInv, NextIInv, PTL DEF Spec

\* Rows and transactions keep their types, for any number of clients.
THEOREM TypeCorrect == Spec => []TypeOK
  BY Invariance, PTL DEF IInv

\* No race of stale moderation, unpublication and the student's reading
\* shows a result that neither policy nor an operator has released.
THEOREM ReleaseAuthorised == Spec => []ReleaseIsAuthorised
  BY Invariance, PTL DEF IInv

\* However reviews overlap, the attempt is EVALUATED exactly when its final
\* score contains a mark for every manual answer.
THEOREM EvaluatedComplete == Spec => []EvaluatedIsComplete
  BY Invariance, PTL DEF IInv

-----------------------------------------------------------------------------
(* SerialReviews: under the lock of the objective evaluations at most one  *)
(* calculation is open, and what it has read is still what it will write.  *)

Busy(c) == req[c].op \in {"review", "calculate"}

SerialInv ==
    /\ result = NoResult => tasks = Unmarked
    /\ attempt.score = tasks
    /\ \A c \in Clients :
          /\ req[c].op = "review" =>
                /\ req[c].path = "completeReview"
                /\ req[c].sheet = [tasks EXCEPT ![req[c].question] = req[c].mark]
          /\ req[c].op = "calculate" => req[c].sheet = tasks
    /\ \A c, d \in Clients : Busy(c) /\ Busy(d) => c = d

\* A step that opens or closes no calculation and writes no mark.
LEMMA SerialFrame ==
    ASSUME SerialInv, TypeOK, NEW c \in Clients,
           UNCHANGED <<tasks, attempt>>,
           result = NoResult \/ result' # NoResult,
           req' = [req EXCEPT ![c] = req'[c]],
           req'[c].op \notin {"review", "calculate"}
    PROVE  SerialInv'
  <1>1. \A d \in Clients : d # c => req'[d] = req[d]
    BY DEF TypeOK
  <1>2. ~Busy(c)'
    BY DEF Busy
  <1>3. result' = NoResult => tasks' = Unmarked
    BY DEF SerialInv
  <1>4. attempt'.score = tasks'
    BY DEF SerialInv
  <1>5. ASSUME NEW d \in Clients
        PROVE  /\ req'[d].op = "review" =>
                     /\ req'[d].path = "completeReview"
                     /\ req'[d].sheet =
                          [tasks' EXCEPT ![req'[d].question] = req'[d].mark]
               /\ req'[d].op = "calculate" => req'[d].sheet = tasks'
    BY <1>1, <1>5 DEF SerialInv
  <1>6. ASSUME NEW d \in Clients, NEW e \in Clients, Busy(d)', Busy(e)'
        PROVE  d = e
    BY <1>1, <1>2, <1>6 DEF SerialInv, Busy
  <1> QED
    BY <1>3, <1>4, <1>5, <1>6 DEF SerialInv

\* A step that closes a calculation and writes its sheet.
LEMMA SerialWrite ==
    ASSUME SerialInv, TypeOK, NEW c \in Clients, Busy(c),
           req' = [req EXCEPT ![c] = Idle],
           attempt'.score = tasks', result' # NoResult
    PROVE  SerialInv'
  <1>1. \A d \in Clients : ~Busy(d)'
    BY DEF SerialInv, Busy, TypeOK, Idle
  <1> QED
    BY <1>1 DEF SerialInv, Busy

\* A step that opens a calculation finds no other open.
LEMMA SerialOpen ==
    ASSUME SerialInv, TypeOK, NEW c \in Clients, NEW r,
           HasObjective, EvaluationsUnlocked,
           UNCHANGED <<tasks, attempt, result>>, result # NoResult,
           req' = [req EXCEPT ![c] = r],
           \/ /\ r.op = "review" /\ r.path = "completeReview"
              /\ r.sheet = [tasks EXCEPT ![r.question] = r.mark]
           \/ r.op = "calculate" /\ r.sheet = tasks
    PROVE  SerialInv'
  <1>1. \A d \in Clients : ~Busy(d)
    BY DEF SerialInv, EvaluationsUnlocked, Busy
  <1>2. req'[c] = r /\ \A d \in Clients : d # c => req'[d] = req[d]
    BY DEF TypeOK
  <1>3. \A d \in Clients : d # c => ~Busy(d)'
    BY <1>1, <1>2 DEF Busy
  <1>4. ASSUME NEW d \in Clients
        PROVE  /\ req'[d].op = "review" =>
                     /\ req'[d].path = "completeReview"
                     /\ req'[d].sheet =
                          [tasks' EXCEPT ![req'[d].question] = req'[d].mark]
               /\ req'[d].op = "calculate" => req'[d].sheet = tasks'
    BY <1>2, <1>3, <1>4 DEF Busy
  <1> QED
    BY <1>3, <1>4 DEF SerialInv

LEMMA SerialStep ==
    ASSUME HasObjective, ~updated', IInv, SerialInv, [Next]_rvars
    PROVE  SerialInv'
  <1>0. TypeOK /\ Exists /\ IInv'
    BY NextIInv DEF IInv
  <1>1. CASE UNCHANGED rvars
    BY <1>1 DEF rvars, SerialInv, Busy
  <1>2. CASE DueDate
    BY <1>2 DEF DueDate, SerialInv, Busy
  <1>3. CASE Submit \/ AutoSubmit
    <2>0. FirstResult(AutoPublish) \/ FirstResult(FALSE)
      BY <1>3 DEF Submit, AutoSubmit
    <2>1. \A c \in Clients : ~Busy(c)
      BY <1>0, <2>0 DEF FirstResult, Exists, Busy
    <2>2. tasks' = Unmarked /\ attempt'.score = Unmarked /\ req' = req
      BY <2>0 DEF FirstResult, SerialInv
    <2> QED
      BY <2>1, <2>2 DEF SerialInv, Busy
  <1>4. CASE HoldResult \/ ReleaseResult \/ UnpublishResults
    <2>1. UNCHANGED <<tasks, attempt, req>> /\ result # NoResult
      BY <1>4 DEF HoldResult, ReleaseResult, UnpublishResults
    <2>2. result' # NoResult
      <3>1. result \in Results
        BY <1>0, <2>1 DEF TypeOK
      <3>2. result' \in Results
        BY <1>4, <3>1
        DEF HoldResult, ReleaseResult, UnpublishResults, Results
      <3> QED
        BY <3>2, ReleaseAssumption
    <2> QED
      BY <2>1, <2>2 DEF SerialInv, Busy
  <1>5. ASSUME NEW c \in Clients, ClientStep(c)
        PROVE  SerialInv'
    <2>1. ASSUME NEW q \in ManualQuestions, NEW m \in Marks,
                 CompleteReviewRead(c, q, m) \/ UpdateReviewRead(c, q, m)
          PROVE  SerialInv'
      <3> DEFINE r == [op |-> "review", path |-> "completeReview",
                       question |-> q, mark |-> m,
                       sheet |-> [tasks EXCEPT ![q] = m]]
      <3>1. CompleteReviewRead(c, q, m)
        BY <2>1 DEF UpdateReviewRead
      <3>2. EvaluationsUnlocked /\ UNCHANGED <<tasks, attempt, result>>
            /\ req' = [req EXCEPT ![c] = r] /\ result # NoResult
        BY <3>1 DEF CompleteReviewRead
      <3>3. r.op = "review" /\ r.path = "completeReview"
            /\ r.sheet = [tasks EXCEPT ![r.question] = r.mark]
        OBVIOUS
      <3> HIDE DEF r
      <3> QED
        BY <1>0, <3>2, <3>3, SerialOpen
    <2>3. CASE ReviewCommit(c)
      <3>1. req[c].sheet = tasks' /\ attempt'.score = req[c].sheet
        BY <2>3 DEF ReviewCommit, SerialInv, WriteScore
      <3>2. result' # NoResult
        <4>1. req[c] \in Reviewing /\ result # NoResult
          BY <1>0, <2>3, OpTypes DEF ReviewCommit, Exists
        <4> QED
          BY <1>0, <2>3, <4>1, WriteTypes DEF ReviewCommit, Reviewing
      <3>3. Busy(c) /\ req' = [req EXCEPT ![c] = Idle]
        BY <2>3 DEF ReviewCommit, Busy
      <3> QED
        BY <1>0, <3>1, <3>2, <3>3, SerialWrite
    <2>4. CASE CalculateRead(c)
      <3> DEFINE r == [op |-> "calculate", sheet |-> tasks]
      <3>1. EvaluationsUnlocked /\ UNCHANGED <<tasks, attempt, result>>
            /\ req' = [req EXCEPT ![c] = r] /\ result # NoResult
        BY <2>4 DEF CalculateRead, IInv
      <3>2. r.op = "calculate" /\ r.sheet = tasks
        OBVIOUS
      <3> HIDE DEF r
      <3> QED
        BY <1>0, <3>1, <3>2, SerialOpen
    <2>5. CASE CalculateCommit(c)
      <3>1. tasks' = req[c].sheet /\ attempt'.score = req[c].sheet
        BY <2>5 DEF CalculateCommit, SerialInv, WriteScore
      <3>2. result' # NoResult
        <4>1. req[c] \in Calculating /\ result # NoResult
          BY <1>0, <2>5, OpTypes DEF CalculateCommit, Exists
        <4> QED
          BY <1>0, <2>5, <4>1, WriteTypes DEF CalculateCommit, Calculating
      <3>3. Busy(c) /\ req' = [req EXCEPT ![c] = Idle]
        BY <2>5 DEF CalculateCommit, Busy
      <3> QED
        BY <1>0, <3>1, <3>2, <3>3, SerialWrite
    <2>6. ASSUME NEW a \in {"NONE", "HELD", "RELEASED", "ADJUSTED"},
                 NEW n \in Adjusted, ModerateRead(c, a, n)
          PROVE  SerialInv'
      BY <1>0, <2>6, SerialFrame DEF ModerateRead, TypeOK
    <2>7. CASE ModerateCommit(c)
      <3>1. result \in Results /\ req[c] \in Moderating
        BY <1>0, <2>7, OpTypes DEF ModerateCommit, Exists, TypeOK
      <3>2. result' \in Results
        BY <2>7, <3>1
        DEF ModerateCommit, Results, Moderating, ModeratedScore,
            ModeratedPublished, Scores
      <3>3. result' # NoResult
        BY <3>2, ReleaseAssumption
      <3> QED
        BY <1>0, <2>7, <3>3, SerialFrame DEF ModerateCommit, TypeOK, Idle
    <2>8. ASSUME NEW op \in {"publishResults", "publishEligible"},
                 PublishCheck(c, op)
          PROVE  SerialInv'
      BY <1>0, <2>8, SerialFrame DEF PublishCheck, TypeOK
    <2>9. CASE PublishResults(c) \/ PublishEligible(c)
      <3>1. Publish(c) /\ result \in Results
        BY <1>0, <2>9 DEF PublishResults, PublishEligible, TypeOK
      <3>2. result' # NoResult
        BY <3>1, ReleaseAssumption DEF Publish, Results
      <3> QED
        BY <1>0, <3>1, <3>2, SerialFrame DEF Publish, TypeOK, Idle
    <2>10. CASE StudentReadSelect(c)
      BY <1>0, <2>10, SerialFrame DEF StudentReadSelect, TypeOK
    <2>11. CASE StudentReadPublish(c)
      <3>1. result \in Results
        BY <1>0, <2>11 DEF StudentReadPublish, Exists, TypeOK
      <3>2. result' # NoResult
        BY <2>11, <3>1, ReleaseAssumption DEF StudentReadPublish, Results
      <3> QED
        BY <1>0, <2>11, <3>2, SerialFrame DEF StudentReadPublish, TypeOK, Idle
    <2>12. CASE Abandon(c)
      BY <1>0, <2>12, SerialFrame DEF Abandon, TypeOK, Idle
    <2> QED
      BY <1>5, <2>1, <2>3, <2>4, <2>5, <2>6, <2>7, <2>8, <2>9, <2>10,
         <2>11, <2>12
      DEF ClientStep
  <1> QED
    BY <1>1, <1>2, <1>3, <1>4, <1>5 DEF Next

\* As long as only completeReview is used and the exam has an objective
\* question, no committed mark is ever missing from the final score.
THEOREM Serial == Spec => []SerialReviews
  <1> DEFINE J == HasObjective /\ ~updated => SerialInv
  <1>1. Init => J
    BY DEF Init, SerialInv, Busy, Idle
  <1>2. IInv /\ J /\ [Next]_rvars => J'
    <2> SUFFICES ASSUME IInv, J, [Next]_rvars, HasObjective, ~updated'
                 PROVE  SerialInv'
      OBVIOUS
    <2>1. ~updated
      BY DEF Next, rvars, DueDate, Submit, AutoSubmit, FirstResult,
             HoldResult, ReleaseResult, UnpublishResults, ClientStep,
             CompleteReviewRead, UpdateReviewRead, ReviewCommit,
             CalculateRead, CalculateCommit, ModerateRead, ModerateCommit,
             PublishCheck, PublishResults, PublishEligible, Publish,
             StudentReadSelect, StudentReadPublish, Abandon
    <2> QED
      BY <2>1, SerialStep
  <1>3. J => SerialReviews
    BY DEF SerialReviews, SerialInv
  <1> HIDE DEF J
  <1> QED
    BY <1>1, <1>2, <1>3, Invariance, PTL DEF Spec
=============================================================================
