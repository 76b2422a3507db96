---------------------------- MODULE StudentPortal ----------------------------
(***************************************************************************)
(* What a student is shown of one assessment (StudentExamService): the card *)
(* of the assessment list, whether an attempt may start, and the results.   *)
(* Several answers are computed twice, once by the page and once by the     *)
(* operation behind it or by a database query; the properties compare them. *)
(* An attempt is numbered by its place in tries.  How attempts and results  *)
(* come about is ExamAttempt, AttemptStart and ResultRelease; here each is  *)
(* one step.  A request that reads results is several.                      *)
(***************************************************************************)
EXTENDS Integers, Sequences, FiniteSets, FiniteSetsExt

CONSTANTS Exams,      \* assessments: dates, policies, limits, possible totals
          NoDate,     \* a date column that is null
          Duration, MaxTime, MaxTries, MaxReads, MaxActs \* bounds

\* Only scheduling writes dates: it sets closesAt with endAt, to the same date.
Dates == Nat \cup {NoDate}
ExamRows == [status : {"DRAFT", "SCHEDULED", "ACTIVE", "COMPLETED", "CANCELLED", "PUBLISHED", "CLOSED"},
    assigned : BOOLEAN, others : BOOLEAN, questions : BOOLEAN, maxAttempts : Nat \ {0},
    startAt : Dates, endAt : Dates, opensAt : Dates, closesAt : Dates, publishAt : Dates,
    visibility : {"NEVER", "AFTER_SUBMISSION", "AFTER_END", "SCHEDULED"},
    scoring : {"BEST", "LATEST", "FIRST"}, scores : SUBSET Nat]

ASSUME PortalAssumption ==
    /\ {Duration, MaxTime, MaxTries, MaxReads, MaxActs} \subseteq Nat /\ MaxTime > 0
    /\ NoDate \notin Int /\ Exams \subseteq ExamRows
    /\ \A e \in Exams : e.endAt # NoDate => e.closesAt \in {NoDate, e.endAt}

VARIABLES clock, account,   \* requireStudent still admits the student
          exam, tries,      \* Assessment; TestAttempt and Result rows
          allowance,        \* AssessmentAttemptGrant
          portal,           \* the student's request
          view,             \* the payload it ended with
          revealed,            \* history: attempts whose answers were shown
          staffed,          \* history: results staff published
          reads, acts,      \* used up of the bounds
          unpublished       \* history: staff took results back

portalVars == <<clock, account, exam, tries, allowance, portal, view, revealed, staffed,
                reads, acts, unpublished>>

NoGrant == [resetBefore |-> 0, additional |-> 0]
IdlePortal == [step |-> "idle"]
NoView == [op |-> "none", n |-> 0, review |-> FALSE, calm |-> TRUE]
Numbers == DOMAIN tries
Act == acts < MaxActs /\ acts' = acts + 1 \* an act of staff

\* The rows and the request hold values of their types.
PortalTypeOK ==
    /\ clock \in 1..MaxTime /\ account \in BOOLEAN /\ revealed \subseteq Numbers
    /\ \A n \in Numbers : /\ tries[n].score \in exam.scores \cup {0}
                          /\ tries[n].createdAt <= clock
                          /\ tries[n].evaluation = "NONE" => ~tries[n].published
    /\ allowance.resetBefore <= clock /\ view.n \in {0} \cup Numbers

-----------------------------------------------------------------------------
(* The window and the limit, as the start of an attempt checks them. *)

Or(date, other) == IF date # NoDate THEN date ELSE other
StartsAt == Or(exam.startAt, exam.opensAt)
EndsAt == Or(exam.endAt, exam.closesAt)
Passed(date) == date # NoDate /\ date < clock
Ahead(date) == date # NoDate /\ date > clock

\* assignmentWhere and the not deleted assessment of the own college
Assigned == exam.assigned

\* validateStartEligibility
StartRefused == exam.status \in {"CANCELLED", "DRAFT"} \/ Ahead(StartsAt) \/ Passed(EndsAt)
                \/ ~exam.questions

CountedStatuses == {"IN_PROGRESS", "SUBMITTED", "AUTO_SUBMITTED", "EXPIRED",
                    "UNDER_REVIEW", "EVALUATED"}
AttemptCount == Cardinality({n \in Numbers : tries[n].status \in CountedStatuses
                    /\ (allowance.resetBefore # 0 => tries[n].createdAt > allowance.resetBefore)})
AttemptLimit == exam.maxAttempts + allowance.additional
Active == {n \in Numbers : tries[n].status = "IN_PROGRESS" /\ tries[n].expiresAt > clock}

StartAttempt ==
    /\ account /\ Assigned /\ ~StartRefused
    /\ Active = {} /\ AttemptCount < AttemptLimit /\ Len(tries) < MaxTries
    /\ tries' = Append(tries, [status |-> "IN_PROGRESS", createdAt |-> clock,
          expiresAt |-> Min({clock + Duration} \cup ({EndsAt} \ {NoDate})),
          evaluation |-> "NONE", score |-> 0, published |-> FALSE])
    /\ UNCHANGED <<clock, account, exam, allowance, portal, view, revealed, staffed, reads, acts, unpublished>>

-----------------------------------------------------------------------------
(* The card. *)

\* studentAssessmentCard: usedAttempts, attemptsRemaining, windowState

UsedAttempts == Cardinality({n \in Numbers : /\ tries[n].status \in CountedStatuses
    /\ \/ allowance.resetBefore = 0
       \/ tries[n].createdAt > allowance.resetBefore})
AttemptsRemaining == Max({0, exam.maxAttempts + Max({0, allowance.additional}) - UsedAttempts})

WindowState == IF Ahead(StartsAt) THEN "UPCOMING" ELSE IF Passed(EndsAt) THEN "CLOSED" ELSE "OPEN"

\* publicEligibility
PublicErrors ==
    (IF exam.status \in {"CANCELLED", "DRAFT"} THEN {"not open"} ELSE {})
    \cup (IF Ahead(StartsAt) THEN {"not started"} ELSE {})
    \cup (IF Passed(EndsAt) THEN {"closed"} ELSE {})
    \cup (IF exam.questions THEN {} ELSE {"no questions"})

-----------------------------------------------------------------------------
(* Results. *)

\* resultVisibilityState
VisibilityState ==
    CASE exam.visibility = "NEVER" -> FALSE
      [] exam.visibility = "AFTER_SUBMISSION" -> TRUE
      [] exam.visibility = "SCHEDULED" -> exam.publishAt = NoDate \/ exam.publishAt <= clock
      [] OTHER -> EndsAt = NoDate \/ EndsAt <= clock

\* studentVisibleResultWhere, a database query

VisibleWhere(n) ==
    /\ tries[n].evaluation \in {"READY", "PUBLISHED"}
    /\ \/ tries[n].published \/ exam.visibility = "AFTER_SUBMISSION"
       \/ /\ exam.visibility = "AFTER_END"
          /\ \/ exam.endAt = NoDate /\ exam.closesAt = NoDate
             \/ \E date \in {exam.endAt, exam.closesAt} \ {NoDate} : date <= clock
       \/ /\ exam.visibility = "SCHEDULED"
          /\ exam.publishAt = NoDate \/ exam.publishAt <= clock
Visible == {n \in Numbers : VisibleWhere(n)}

\* selectFinalResult, 0 for none; among equal scores the younger one counts

\* Mutant: FIRST and LATEST are mixed up.
MutSelectFinal(ns) == IF ns = {} THEN 0 ELSE
    CASE exam.scoring = "LATEST" -> Min(ns) [] exam.scoring = "FIRST" -> Max(ns)
      [] OTHER -> Max({n \in ns : \A k \in ns : tries[k].score <= tries[n].score})
SelectFinal(ns) == IF ns = {} THEN 0 ELSE
    CASE exam.scoring = "FIRST" -> Min(ns) [] exam.scoring = "LATEST" -> Max(ns)
      [] OTHER -> Max({n \in ns : \A k \in ns : tries[k].score <= tries[n].score})

-----------------------------------------------------------------------------
(* Pages without a request of several statements. *)

\* studentAssessmentCard
Card == [windowState |-> WindowState, used |-> UsedAttempts, remaining |-> AttemptsRemaining,
         latest |-> Len(tries), final |-> SelectFinal(Visible)]

\* getStudentAssessment: the card and the eligibility
AssessmentPage == [card |-> Card, eligible |-> PublicErrors = {}]

Completed == {n \in Numbers : tries[n].status \in {"SUBMITTED", "AUTO_SUBMITTED", "EVALUATED"}}

\* assignedAssessmentWhere; a comparison with null holds of no row, and
\* "completed" does not ask whose attempt it was
Listed(filter) ==
    /\ account /\ Assigned
    /\ CASE filter = "upcoming" -> exam.startAt # NoDate /\ exam.startAt > clock
         [] filter = "active" -> /\ NoDate \notin {exam.startAt, exam.endAt}
                                 /\ exam.startAt <= clock /\ exam.endAt >= clock
         [] filter = "completed" -> Completed # {} \/ exam.others
         [] OTHER -> TRUE

\* listStudentAssessments, first page
ListPage(filter) == IF Listed(filter) THEN {Card} ELSE {}

\* dashboardStats of a student
Count(filter) == Cardinality(ListPage(filter))
Dashboard == [upcoming |-> Count("upcoming"), active |-> Count("active"),
              completed |-> Cardinality(Completed), published |-> Cardinality(Visible)]

-----------------------------------------------------------------------------
(* Evaluation and publication. *)

\* a request under way is remembered to have been overtaken
Disturbed(p) == IF p.step = "idle" THEN p ELSE [p EXCEPT !.calm = FALSE]

\* the end of an attempt and its evaluation, which publishes what is due and
\* complete; the sweep and the worker do not publish
EndAttempt(n, score, pending, auto) ==
    /\ tries[n].status = "IN_PROGRESS"
    /\ tries' = [tries EXCEPT ![n].status = IF pending THEN "UNDER_REVIEW" ELSE "EVALUATED",
          ![n].score = score, ![n].evaluation = IF pending THEN "PENDING_REVIEW" ELSE "READY",
          ![n].published = ~auto /\ ~pending /\ VisibilityState]
    /\ UNCHANGED <<clock, account, exam, allowance, portal, view, revealed, staffed, reads, acts, unpublished>>

\* the last review of an attempt
CompleteReviews(n) ==
    /\ tries[n].status = "UNDER_REVIEW"
    /\ tries' = [tries EXCEPT ![n].status = "EVALUATED", ![n].evaluation = "READY"]
    /\ portal' = Disturbed(portal)
    /\ UNCHANGED <<clock, account, exam, allowance, view, revealed, staffed, reads, acts, unpublished>>

\* publishResults and unpublishResults, for all results of the assessment
Graded == {n \in Numbers : tries[n].evaluation # "NONE"}
PublishResults ==
    /\ Act /\ Graded # {}
    /\ \A n \in Numbers : tries[n].status # "UNDER_REVIEW"
    /\ tries' = [n \in Numbers |-> IF n \in Graded
                    THEN [tries[n] EXCEPT !.published = TRUE, !.evaluation = "PUBLISHED"] ELSE tries[n]]
    /\ staffed' = staffed \cup Graded
    /\ UNCHANGED <<clock, account, exam, allowance, portal, view, revealed, reads, unpublished>>
UnpublishResults ==
    /\ Act /\ Graded # {}
    /\ tries' = [n \in Numbers |-> IF n \in Graded
                    THEN [tries[n] EXCEPT !.published = FALSE, !.evaluation = "READY"] ELSE tries[n]]
    /\ portal' = Disturbed(portal) /\ unpublished' = TRUE
    /\ UNCHANGED <<clock, account, exam, allowance, view, revealed, staffed, reads>>

-----------------------------------------------------------------------------
(* Reading results: listStudentResults, getStudentResult and attemptResult  *)
(* first publish what has become due, in two statements.  attemptResult has *)
(* read the row it answers with before that, and does not ask whether the   *)
(* account is still admitted.                                               *)

\* Mutant: every page reads its row first.
MutReadsRowFirst(op) == TRUE
ReadsRowFirst(op) == op = "attempt"

OpenPage(op, n) ==
    /\ portal.step = "idle" /\ reads < MaxReads
    /\ op # "attempt" => account
    /\ n \in Graded
    /\ portal' = [step |-> "find", op |-> op, n |-> n, published |-> tries[n].published,
                  ids |-> {}, calm |-> TRUE]
    /\ reads' = reads + 1
    /\ UNCHANGED <<clock, account, exam, tries, allowance, view, revealed, staffed, acts, unpublished>>

FindEligible ==
    /\ portal.step = "find"
    /\ LET ids == {n \in Visible : ~tries[n].published}
       IN portal' = [portal EXCEPT !.ids = ids, !.step = IF ids = {} THEN "page" ELSE "update"]
    /\ UNCHANGED <<clock, account, exam, tries, allowance, view, revealed, staffed, reads, acts, unpublished>>

UpdateEligible ==
    /\ portal.step = "update"
    /\ tries' = [n \in Numbers |-> IF n \in portal.ids
                    THEN [tries[n] EXCEPT !.published = TRUE] ELSE tries[n]]
    /\ portal' = [portal EXCEPT !.step = "page"]
    /\ UNCHANGED <<clock, account, exam, allowance, view, revealed, staffed, reads, acts, unpublished>>

\* resultPayload: the answers only of a published row, and never under NEVER;
\* a row that is no longer visible is refused
QuestionReview(published) == published /\ exam.visibility # "NEVER"
AnswerPage ==
    /\ portal.step = "page" /\ portal' = IdlePortal
    /\ LET n == portal.n
           published == IF ReadsRowFirst(portal.op) THEN portal.published ELSE tries[n].published
       IN IF n \notin Visible THEN view' = NoView /\ revealed' = revealed
          ELSE /\ view' = [op |-> portal.op, n |-> n, review |-> QuestionReview(published),
                           calm |-> portal.calm]
               /\ revealed' = IF QuestionReview(published) THEN revealed \cup {n} ELSE revealed
    /\ UNCHANGED <<clock, account, exam, tries, allowance, staffed, reads, acts, unpublished>>

-----------------------------------------------------------------------------
(* Administration of attempts, and what happens elsewhere. *)

ResetStudentAttempts ==
    /\ Act /\ allowance' = [resetBefore |-> clock, additional |-> 0] /\ allowance' # allowance
    /\ UNCHANGED <<clock, account, exam, tries, portal, view, revealed, staffed, reads, unpublished>>
GrantStudentAttempt ==
    /\ Act /\ allowance' = [allowance EXCEPT !.additional = @ + 1]
    /\ UNCHANGED <<clock, account, exam, tries, portal, view, revealed, staffed, reads, unpublished>>

CancelAttempt(n) ==
    /\ Act /\ tries[n].status = "IN_PROGRESS" /\ tries' = [tries EXCEPT ![n].status = "CANCELLED"]
    /\ UNCHANGED <<clock, account, exam, allowance, portal, view, revealed, staffed, reads, unpublished>>
CancelAssessment ==
    /\ Act /\ exam.status # "CANCELLED" /\ exam' = [exam EXCEPT !.status = "CANCELLED"]
    /\ UNCHANGED <<clock, account, tries, allowance, portal, view, revealed, staffed, reads, unpublished>>
BlockStudent ==
    /\ Act /\ account /\ account' = FALSE
    /\ UNCHANGED <<clock, exam, tries, allowance, portal, view, revealed, staffed, reads, unpublished>>
TimePasses ==
    /\ clock < MaxTime /\ clock' = clock + 1 /\ portal' = Disturbed(portal)
    /\ UNCHANGED <<account, exam, tries, allowance, view, revealed, staffed, reads, acts, unpublished>>

PortalInit ==
    /\ clock = 1 /\ account = TRUE /\ exam \in Exams /\ tries = <<>> /\ allowance = NoGrant
    /\ portal = IdlePortal /\ view = NoView /\ revealed = {} /\ staffed = {}
    /\ reads = 0 /\ acts = 0 /\ unpublished = FALSE

PortalNext ==
    \/ StartAttempt \/ PublishResults \/ UnpublishResults
    \/ \E n \in Numbers, score \in exam.scores, pending, auto \in BOOLEAN :
          EndAttempt(n, score, pending, auto)
    \/ \E n \in Numbers : CompleteReviews(n) \/ CancelAttempt(n)
    \/ \E n \in Numbers, op \in {"detail", "attempt"} : OpenPage(op, n)
    \/ FindEligible \/ UpdateEligible \/ AnswerPage
    \/ ResetStudentAttempts \/ GrantStudentAttempt
    \/ CancelAssessment \/ BlockStudent \/ TimePasses

PortalSpec == PortalInit /\ [][PortalNext]_portalVars

-----------------------------------------------------------------------------
(* Properties. *)

\* The card says that an attempt may start exactly when startAttempt would let
\* a student without a running attempt start one, resets and grants included.
CardHonest == account /\ Assigned =>
    (AssessmentPage.eligible /\ Card.remaining > 0 <=> ~StartRefused /\ AttemptCount < AttemptLimit)

\* A scheduled assessment (both dates set) is in the list "upcoming" or "active"
\* exactly when its card says UPCOMING or OPEN, to the millisecond of its end,
\* and the dashboard counts it there; a result that a card or the dashboard
\* announces is that of an attempt the dashboard counts as completed (one under
\* review counts nowhere).
FiltersAgree == account /\ Assigned =>
    /\ NoDate \notin {exam.startAt, exam.endAt} =>
        /\ Dashboard.upcoming = 1 <=> Card.windowState = "UPCOMING"
        /\ Dashboard.active = 1 <=> Card.windowState = "OPEN"
    /\ ~unpublished => /\ Card.final # 0 => Card.final \in Completed
                       /\ Dashboard.published <= Dashboard.completed

\* The database query and the function that evaluateAttempt asks agree on
\* whether a finished result is due, for all dates that scheduling writes.
VisibilityAgrees == \A n \in Numbers : tries[n].evaluation \in {"READY", "PUBLISHED"} =>
    (VisibleWhere(n) <=> tries[n].published \/ VisibilityState)

\* The student saw correct answers only of attempts that were over and whose
\* results staff had published or whose date has come.
ShownWhenDue == \A n \in revealed :
    tries[n].status \in {"UNDER_REVIEW", "EVALUATED"} /\ (n \in staffed \/ VisibilityState)

\* No answers are shown while the reviews of an attempt are open, unless staff
\* unpublished the assessment, which marks every result as ready.
ShownAfterReview == ~unpublished => \A n \in revealed : tries[n].status # "UNDER_REVIEW"

\* The page of a result that has become due shows its answers at the first
\* visit, unless an unpublication, a review or a date overtakes the request.
DetailComplete == view.op = "detail" /\ view.calm /\ exam.visibility # "NEVER" => view.review

\* What the portal says about starting, windows and results agrees with what the
\* server does, at every date and between the statements of a page.
PortalHonest ==
    /\ PortalTypeOK
    /\ CardHonest
    /\ FiltersAgree
    /\ VisibilityAgrees
    /\ ShownWhenDue
    /\ ShownAfterReview
    /\ DetailComplete

\* Whatever is not an unpublication takes no visible result away, and moves the
\* final result only in the direction of the scoring policy.
FinalMonotone == [][Visible \subseteq Visible' \/ UnpublishResults]_portalVars
FinalByPolicy == [][Visible \subseteq Visible' /\ Visible # {} =>
    LET old == SelectFinal(Visible)  new == SelectFinal(Visible)'
    IN CASE exam.scoring = "FIRST" -> new <= old [] exam.scoring = "LATEST" -> new >= old
         [] OTHER -> tries'[new].score >= tries[old].score]_portalVars
=============================================================================
