--------------------------- MODULE ResultRelease ---------------------------
(***************************************************************************)
(* The result of one attempt after its answers were evaluated: manual      *)
(* reviews, moderation, proctoring holds, publication by operators and     *)
(* publication by the student's own reading.                               *)
(*                                                                         *)
(* The two services that own these operations overlap: updateReview        *)
(* (student-exam) and completeReview (exam-operations) are two ways to     *)
(* mark an answer, publishResults and publishEligible two ways to publish, *)
(* moderateResult and holdResult two ways to hold.                         *)
(*                                                                         *)
(* Transactions run at READ COMMITTED; one that reads and writes later is  *)
(* two steps, with what was read in the client's slot req[c].  Row locks:  *)
(* a review updates its task row first, so two open reviews never share a  *)
(* task; calculateResult upserts the evaluations of the objective          *)
(* questions before it reads the review tasks, so two of them overlap only *)
(* in an exam without objective questions.                                 *)
(*                                                                         *)
(* Data: the objective part of the score does not change here, so a        *)
(* computed score is the function from manual questions to the marks it    *)
(* has summed; an adjusted score is a value of Adjusted.                   *)
(***************************************************************************)
EXTENDS Naturals, Sequences

CONSTANTS
    ManualQuestions,   \* SHORT_ANSWER and DESCRIPTIVE questions
    HasObjective,      \* has the exam an objective question?
    Marks,             \* marks a reviewer may award
    NoMark,            \* not reviewed: the task is not COMPLETED
    Adjusted,          \* scores a moderator may set
    Policies,          \* Assessment.resultVisibility
    Clients,           \* API requests and worker jobs
    MaxModerations,    \* bound: ResultModeration rows
    NoResult

MarkSheets == [ManualQuestions -> Marks \cup {NoMark}]

Scores == MarkSheets \cup Adjusted

Results == [score: Scores, evaluation: {"PENDING_REVIEW", "READY", "PUBLISHED"},
            published: BOOLEAN,
            moderation: {"NONE", "HELD", "RELEASED", "ADJUSTED"}]

ASSUME ReleaseAssumption ==
    /\ NoMark \notin Marks
    /\ Adjusted \cap MarkSheets = {}
    /\ HasObjective \in BOOLEAN
    /\ Policies \subseteq {"NEVER", "AFTER_SUBMISSION", "AFTER_END", "SCHEDULED"}
    /\ MaxModerations \in Nat
    /\ NoResult \notin Results

VARIABLES
    policy,       \* the assessment's resultVisibility
    due,          \* its endAt or resultPublishAt has been reached
    tasks,        \* the ManualReviewTask rows: awardedMarks
    result,       \* the Result row
    attempt,      \* TestAttempt.status and finalScore
    job,          \* the worker's result-calculation job
    moderations,  \* the ResultModeration rows
    released,     \* history: an operator has published this result
    updated,      \* history: updateReview has been used
    req           \* what each client's open transaction has read

rvars == <<policy, due, tasks, result, attempt, job, moderations, released,
           updated, req>>

Idle == [op |-> "idle"]
Reviewing == [op: {"review"}, path: {"updateReview", "completeReview"},
              question: ManualQuestions, mark: Marks, sheet: MarkSheets]
Calculating == [op: {"calculate"}, sheet: MarkSheets]
Moderating == [op: {"moderate"},
               action: {"NONE", "HELD", "RELEASED", "ADJUSTED"},
               newScore: Adjusted, score: Scores, published: BOOLEAN]
Publishing == [op: {"publishResults", "publishEligible", "studentRead"}]

(* The one type invariant. *)
TypeOK ==
    /\ policy \in Policies
    /\ due \in BOOLEAN
    /\ tasks \in MarkSheets
    /\ result \in Results \cup {NoResult}
    /\ attempt \in [status: {"IN_PROGRESS", "UNDER_REVIEW", "EVALUATED"},
                    score: MarkSheets]
    /\ job \in {"absent", "waiting", "active", "done"}
    /\ moderations \in Seq([action: {"NONE", "HELD", "RELEASED", "ADJUSTED"},
                            oldScore: Scores, newScore: Scores])
    /\ released \in BOOLEAN
    /\ updated \in BOOLEAN
    /\ req \in [Clients -> {Idle} \cup Reviewing \cup Calculating
                            \cup Moderating \cup Publishing]

Unmarked == [q \in ManualQuestions |-> NoMark]

Init ==
    /\ policy \in Policies
    /\ due \in BOOLEAN
    /\ tasks = Unmarked
    /\ result = NoResult
    /\ attempt = [status |-> "IN_PROGRESS", score |-> Unmarked]
    /\ job = "absent"
    /\ moderations = <<>>
    /\ released = FALSE
    /\ updated = FALSE
    /\ req = [c \in Clients |-> Idle]

DueDate ==
    /\ ~due
    /\ due' = TRUE
    /\ UNCHANGED <<policy, tasks, result, attempt, job, moderations, released,
                   updated, req>>

\* resultVisibilityState.
Visible ==
    \/ policy = "AFTER_SUBMISSION"
    \/ policy \in {"AFTER_END", "SCHEDULED"} /\ due

Pending(sheet) == \E q \in ManualQuestions : sheet[q] = NoMark

EvaluationStatus(sheet) ==
    IF Pending(sheet) THEN "PENDING_REVIEW" ELSE "READY"

MutAttemptStatusStale(sheet) ==
    IF Pending(tasks) THEN "UNDER_REVIEW" ELSE "EVALUATED"

AttemptStatus(sheet) ==
    IF Pending(sheet) THEN "UNDER_REVIEW" ELSE "EVALUATED"

-----------------------------------------------------------------------------
(* The first evaluation creates the result and the review tasks.           *)
(* evaluateAttempt, at submission, also publishes what needs no review;    *)
(* calculateResult, at auto-submission, does not, and the API's copy       *)
(* queues a second calculation.                                            *)

AutoPublish == ~Pending(Unmarked) /\ Visible

FirstResult(published) ==
    /\ result = NoResult
    /\ result' = [score |-> Unmarked,
                  evaluation |-> EvaluationStatus(Unmarked),
                  published |-> published,
                  moderation |-> "NONE"]
    /\ attempt' = [status |-> AttemptStatus(Unmarked), score |-> Unmarked]
    /\ UNCHANGED <<policy, due, tasks, moderations, released, updated, req>>

Submit == FirstResult(AutoPublish) /\ UNCHANGED job

AutoSubmit == FirstResult(FALSE) /\ job' \in {"absent", "waiting"}

-----------------------------------------------------------------------------
(* Reviews.  updateReview and completeReview mark the task, then sum up    *)
(* all tasks and write the result and the attempt.                         *)

\* The task row is free.
TaskUnlocked(q) ==
    \A c \in Clients : req[c].op = "review" => req[c].question # q

\* Mutant: calculateResult reads the tasks before it takes a lock.
MutEvaluationsUnlocked == TRUE

\* The evaluations of the objective questions are free, or there are none.
EvaluationsUnlocked ==
    HasObjective =>
        \A c \in Clients :
            /\ req[c].op # "calculate"
            /\ req[c].op = "review" => req[c].path # "completeReview"

\* expectedUpdatedAt and maxMarks are checked before the transaction.
CompleteReviewRead(c, q, m) ==
    /\ req[c] = Idle
    /\ result # NoResult
    /\ TaskUnlocked(q)
    /\ EvaluationsUnlocked
    /\ req' = [req EXCEPT ![c] =
                 [op |-> "review", path |-> "completeReview", question |-> q,
                  mark |-> m, sheet |-> [tasks EXCEPT ![q] = m]]]
    /\ UNCHANGED <<policy, due, tasks, result, attempt, job, moderations,
                   released, updated>>

\* recalculateResult takes no lock before it reads the tasks.
UpdateReviewRead(c, q, m) ==
    /\ req[c] = Idle
    /\ result # NoResult
    /\ TaskUnlocked(q)
    /\ req' = [req EXCEPT ![c] =
                 [op |-> "review", path |-> "updateReview", question |-> q,
                  mark |-> m, sheet |-> [tasks EXCEPT ![q] = m]]]
    /\ updated' = TRUE
    /\ UNCHANGED <<policy, due, tasks, result, attempt, job, moderations,
                   released>>

\* What calculateResult and recalculateResult write.
WriteScore(sheet) ==
    /\ result' = [result EXCEPT !.score = sheet,
                                !.evaluation = EvaluationStatus(sheet)]
    /\ attempt' = [status |-> AttemptStatus(sheet), score |-> sheet]

ReviewCommit(c) ==
    LET s == req[c] IN
    /\ s.op = "review"
    /\ tasks' = [tasks EXCEPT ![s.question] = s.mark]
    /\ WriteScore(s.sheet)
    /\ req' = [req EXCEPT ![c] = Idle]
    /\ UNCHANGED <<policy, due, job, moderations, released, updated>>

-----------------------------------------------------------------------------
(* The worker's result-calculation job, however late.                      *)

CalculateRead(c) ==
    /\ req[c] = Idle
    /\ job = "waiting"
    /\ EvaluationsUnlocked
    /\ job' = "active"
    /\ req' = [req EXCEPT ![c] = [op |-> "calculate", sheet |-> tasks]]
    /\ UNCHANGED <<policy, due, tasks, result, attempt, moderations, released,
                   updated>>

CalculateCommit(c) ==
    /\ req[c].op = "calculate"
    /\ WriteScore(req[c].sheet)
    /\ job' = "done"
    /\ req' = [req EXCEPT ![c] = Idle]
    /\ UNCHANGED <<policy, due, tasks, moderations, released, updated>>

-----------------------------------------------------------------------------
(* moderateResult reads the result before its transaction and writes score *)
(* and isPublished back.                                                   *)

ModerateRead(c, action, newScore) ==
    /\ req[c] = Idle
    /\ result # NoResult
    /\ Len(moderations) < MaxModerations
    /\ req' = [req EXCEPT ![c] = [op |-> "moderate", action |-> action,
                                  newScore |-> newScore,
                                  score |-> result.score,
                                  published |-> result.published]]
    /\ UNCHANGED <<policy, due, tasks, result, attempt, job, moderations,
                   released, updated>>

ModeratedScore(s) ==
    IF s.action = "ADJUSTED" THEN s.newScore ELSE s.score

\* Mutant: a release publishes.
MutModeratedPublished(s) == s.action # "HELD"

ModeratedPublished(s) == s.action # "HELD" /\ s.published

ModerateCommit(c) ==
    LET s == req[c] IN
    /\ s.op = "moderate"
    /\ Len(moderations) < MaxModerations
    /\ result' = [result EXCEPT !.moderation = s.action,
                                !.score = ModeratedScore(s),
                                !.published = ModeratedPublished(s)]
    /\ moderations' = Append(moderations,
                             [action |-> s.action, oldScore |-> s.score,
                              newScore |-> ModeratedScore(s)])
    /\ req' = [req EXCEPT ![c] = Idle]
    /\ UNCHANGED <<policy, due, tasks, attempt, job, released, updated>>

\* The proctoring service's holdResult and releaseResult.
HoldResult ==
    /\ result # NoResult
    /\ result' = [result EXCEPT !.moderation = "HELD"]
    /\ UNCHANGED <<policy, due, tasks, attempt, job, moderations, released,
                   updated, req>>

ReleaseResult ==
    /\ result # NoResult
    /\ result' = [result EXCEPT !.moderation = "RELEASED"]
    /\ UNCHANGED <<policy, due, tasks, attempt, job, moderations, released,
                   updated, req>>

-----------------------------------------------------------------------------
(* Publication.  Both operations count the pending reviews first and       *)
(* update all matching results in a later statement.                       *)

PublishCheck(c, op) ==
    /\ req[c] = Idle
    /\ result # NoResult => ~Pending(tasks)
    /\ req' = [req EXCEPT ![c] = [op |-> op]]
    /\ UNCHANGED <<policy, due, tasks, result, attempt, job, moderations,
                   released, updated>>

Publish(c) ==
    /\ result' = [result EXCEPT !.published = TRUE, !.evaluation = "PUBLISHED"]
    /\ released' = TRUE
    /\ req' = [req EXCEPT ![c] = Idle]
    /\ UNCHANGED <<policy, due, tasks, attempt, job, moderations, updated>>

PublishResults(c) ==
    /\ req[c].op = "publishResults"
    /\ result # NoResult
    /\ Publish(c)

PublishEligible(c) ==
    /\ req[c].op = "publishEligible"
    /\ result # NoResult
    /\ result.moderation # "HELD"
    /\ result.evaluation \in {"READY", "PUBLISHED"}
    /\ Publish(c)

UnpublishResults ==
    /\ result # NoResult
    /\ result' = [result EXCEPT !.published = FALSE, !.evaluation = "READY"]
    /\ UNCHANGED <<policy, due, tasks, attempt, job, moderations, released,
                   updated, req>>

\* publishEligibleStudentResults: the student's reading publishes what
\* studentVisibleResultWhere selects.
StudentReadSelect(c) ==
    /\ req[c] = Idle
    /\ result # NoResult
    /\ result.evaluation \in {"READY", "PUBLISHED"}
    /\ Visible
    /\ ~result.published
    /\ req' = [req EXCEPT ![c] = [op |-> "studentRead"]]
    /\ UNCHANGED <<policy, due, tasks, result, attempt, job, moderations,
                   released, updated>>

StudentReadPublish(c) ==
    /\ req[c].op = "studentRead"
    /\ result' = [result EXCEPT !.published = TRUE]
    /\ req' = [req EXCEPT ![c] = Idle]
    /\ UNCHANGED <<policy, due, tasks, attempt, job, moderations, released,
                   updated>>

\* Rolled back, refused, or an update that matches no row.
Abandon(c) ==
    /\ req[c] # Idle
    /\ job' = IF req[c].op = "calculate" THEN "waiting" ELSE job
    /\ req' = [req EXCEPT ![c] = Idle]
    /\ UNCHANGED <<policy, due, tasks, result, attempt, moderations, released,
                   updated>>

ClientStep(c) ==
    \/ \E q \in ManualQuestions, m \in Marks :
          CompleteReviewRead(c, q, m) \/ UpdateReviewRead(c, q, m)
    \/ ReviewCommit(c)
    \/ CalculateRead(c)
    \/ CalculateCommit(c)
    \/ \E a \in {"NONE", "HELD", "RELEASED", "ADJUSTED"}, n \in Adjusted :
          ModerateRead(c, a, n)
    \/ ModerateCommit(c)
    \/ \E op \in {"publishResults", "publishEligible"} : PublishCheck(c, op)
    \/ PublishResults(c)
    \/ PublishEligible(c)
    \/ StudentReadSelect(c)
    \/ StudentReadPublish(c)
    \/ Abandon(c)

Next ==
    \/ DueDate
    \/ Submit
    \/ AutoSubmit
    \/ HoldResult
    \/ ReleaseResult
    \/ UnpublishResults
    \/ \E c \in Clients : ClientStep(c)

Spec == Init /\ [][Next]_rvars

-----------------------------------------------------------------------------
(* Properties that hold.                                                   *)

\* No race of stale moderation, unpublication and the student's reading
\* shows a result whose policy hides it, unless an operator published it.
ReleaseIsAuthorised ==
    result # NoResult /\ result.published => released \/ Visible

\* The attempt row is never torn: it says EVALUATED exactly when each manual
\* answer's mark is in its final score, whichever reviews overlapped.
EvaluatedIsComplete ==
    result # NoResult =>
        (attempt.status = "EVALUATED" <=> ~Pending(attempt.score))

\* While every review goes through completeReview and the exam has an
\* objective question, the locks serialise the calculations, the worker's
\* included: no committed mark is ever missing from the final score.
SerialReviews == HasObjective /\ ~updated => attempt.score = tasks

-----------------------------------------------------------------------------
(* Properties the documents and messages of the program claim.             *)

\* docs/SECURITY.md: "moderation holds prevent publication".
HoldPreventsPublication ==
    [][result # NoResult /\ result' # NoResult =>
         (result.moderation = "HELD" /\ result'.moderation = "HELD"
             /\ result'.published => result.published)]_rvars
=============================================================================
