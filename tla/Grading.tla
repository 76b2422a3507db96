------------------------------ MODULE Grading ------------------------------
(***************************************************************************)
(* How a submitted sheet becomes a result.  The code holds three graders:   *)
(* evaluateAttempt of StudentExamService (submission), calculateResult of    *)
(* ExamOperationsService (automatic submission and completed reviews) and    *)
(* calculateResultTx of the worker (result-calculation jobs), each with its  *)
(* own evaluateObjective; recalculateResult adds up after updateReview.      *)
(* Each runs in one transaction, so each is one step here.                   *)
(*                                                                           *)
(* Question types by what the graders tell apart: "choice" (SINGLE_CHOICE,   *)
(* TRUE_FALSE), "multiple", "blank", "number", "manual" (SHORT_ANSWER,       *)
(* DESCRIPTIVE).  Option keys are numbers in their sort order.  A text is    *)
(* one of a few that trimming and lower-casing tell apart.                   *)
(***************************************************************************)
EXTENDS Integers, Sequences, FiniteSets, FiniteSetsExt, TLC

CONSTANTS QuestionPool,   \* attempt questions with their evaluatorMetadata
          AnswerPool,     \* answer rows that saveAnswer can leave
          Unset,          \* null, undefined or NaN
          NoTask,         \* no ManualReviewTask row
          PaperLength,    \* questions of the attempt
          TotalMarks,     \* Assessment.totalMarks
          PassingMarks,   \* Assessment.passingMarks, or Unset
          ReviewMarks     \* marks that reviewers award

ASSUME GradingAssumption ==
    /\ PaperLength \in Nat \ {0} /\ TotalMarks \in Nat /\ ReviewMarks \subseteq Nat
    /\ PassingMarks \in Nat \cup {Unset}
    /\ Unset \notin Int \cup BOOLEAN /\ NoTask \notin Int \cup {Unset}
    /\ \A q \in QuestionPool : q.marks \in Nat /\ q.negative \in Nat
           /\ q.type \in {"choice", "multiple", "blank", "number", "manual"}
           /\ q.caseSensitive \in BOOLEAN
           /\ (q.type = "multiple" => q.correct # {} /\ IsFiniteSet(q.correct))

VARIABLES paper,    \* AttemptQuestion rows
          sheet,    \* the StudentAnswer row of each question, or Unset
          task,     \* ManualReviewTask: awarded marks, Unset (pending) or NoTask
          result,   \* the Result row
          graded,   \* the grader that wrote it last ("none" before submission)
          stored    \* TestAttempt.objectiveScore

gradingVars == <<paper, sheet, task, result, graded, stored>>

Places == 1..PaperLength
NoResultRow == [objective |-> 0, descriptive |-> 0, total |-> 0, percent |-> 0,
    pass |-> "PENDING", correct |-> 0, incorrect |-> 0, unanswered |-> 0,
    attempted |-> 0, ready |-> FALSE, sections |-> 0]

\* The rows hold values of their types and a result exists once graded.
GradingTypeOK ==
    /\ paper \in [Places -> QuestionPool] /\ sheet \in [Places -> AnswerPool \cup {Unset}]
    /\ task \in [Places -> ReviewMarks \cup {Unset, NoTask}]
    /\ graded \in {"none", "student", "operations", "worker", "review"}
    /\ result.pass \in {"PASS", "FAIL", "PENDING"} /\ result.ready \in BOOLEAN
    /\ (graded = "none" <=> result = NoResultRow) /\ stored \in Int

-----------------------------------------------------------------------------
(* evaluateObjective. *)

\* trim and toLocaleLowerCase on the texts of the instance
Trim(t) == IF t = " ok " THEN "ok" ELSE IF t = " " THEN "" ELSE t
Lower(t) == IF t = "OK" THEN "ok" ELSE t
NormalizeBlank(t, caseSensitive) == IF caseSensitive THEN Trim(t) ELSE Lower(Trim(t))

Selected(a) == IF a = Unset THEN <<>> ELSE a.selected
Text(a) == IF a = Unset \/ a.text = Unset THEN "" ELSE a.text
Times(k, s) == Cardinality({i \in DOMAIN s : s[i] = k})

\* two sorted arrays of keys are equal
SameKeys(s, correct) == Len(s) = Cardinality(correct) /\ \A k \in correct : Times(k, s) = 1

\* studentAnswerAnswered and isAnswered: what counts as attempted
IsAnswered(a) == a # Unset /\ (a.selected # <<>> \/ Text(a) # "" \/ a.number # Unset)

\* what evaluateObjective takes for answered: of an answer row that does not exist
\* numericalAnswer is undefined, which is not null
EvaluatedAsAnswered(q, a, caseSensitive) ==
    CASE q.type = "blank" -> NormalizeBlank(Text(a), caseSensitive) # ""
      [] q.type = "number" -> a # Unset /\ a.number # Unset
      [] OTHER -> a = Unset \/ IsAnswered(a)

Matches(q, a, caseSensitive) ==
    CASE q.type = "choice" -> Len(Selected(a)) = 1 /\ q.correct # {}
                              /\ Selected(a)[1] = Min(q.correct)
      [] q.type = "multiple" -> SameKeys(Selected(a), q.correct)
      [] q.type = "blank" -> \E t \in q.accepted :
             NormalizeBlank(t, caseSensitive) = NormalizeBlank(Text(a), caseSensitive)
      [] q.type = "number" -> a # Unset /\ a.number # Unset /\ q.expected # Unset
             /\ a.number - q.expected <= q.tolerance /\ q.expected - a.number <= q.tolerance

Evaluation(q, a, caseSensitive, matches) ==
    IF ~EvaluatedAsAnswered(q, a, caseSensitive) THEN [correct |-> Unset, marks |-> 0]
    ELSE IF matches THEN [correct |-> TRUE, marks |-> q.marks]
    ELSE [correct |-> FALSE, marks |-> -q.negative]

\* StudentExamService looks at metadata.caseSensitive ...
EvaluateObjective(q, a) == Evaluation(q, a, q.caseSensitive, Matches(q, a, q.caseSensitive))

\* Mutant: the worker compares a multiple choice key by key of the answer only.
MutWorkerEvaluateObjective(q, a) == Evaluation(q, a, FALSE,
    IF q.type = "multiple" THEN Selected(a) # <<>> /\ \A i \in DOMAIN Selected(a) :
        Selected(a)[i] \in q.correct ELSE Matches(q, a, FALSE))

\* ... ExamOperationsService and the worker never do
ApiEvaluateObjective(q, a) == Evaluation(q, a, FALSE, Matches(q, a, FALSE))
WorkerEvaluateObjective(q, a) == Evaluation(q, a, FALSE, Matches(q, a, FALSE))

-----------------------------------------------------------------------------
(* Results. *)

Objective == {i \in Places : paper[i].type # "manual"}
SumOver(S, f) == MapThenSumSet(LAMBDA i : f[i], S)

\* percentage, in hundredths: toFixed(2)
Percentage(score) == IF TotalMarks = 0 THEN 0
                     ELSE (20000 * score + TotalMarks) \div (2 * TotalMarks)
PassStatus(score) == IF PassingMarks = Unset THEN "PENDING"
                     ELSE IF score >= PassingMarks THEN "PASS" ELSE "FAIL"

\* the sheet as each grader evaluates it
ByStudent == [i \in Objective |-> EvaluateObjective(paper[i], sheet[i])]
ByOperations == [i \in Objective |-> ApiEvaluateObjective(paper[i], sheet[i])]
ByWorker == [i \in Objective |-> WorkerEvaluateObjective(paper[i], sheet[i])]

\* the counters the three graders share; ev is the sheet as one evaluates it
Marks(ev) == [i \in Objective |-> ev[i].marks]
Answered == {i \in Places : IsAnswered(sheet[i])}
Counted(ev) ==
    [objective |-> SumOver(Objective, Marks(ev)), attempted |-> Cardinality(Answered),
     unanswered |-> PaperLength - Cardinality(Answered),
     correct |-> Cardinality({i \in Objective : ev[i].correct = TRUE}),
     incorrect |-> Cardinality({i \in Objective \cap Answered : ev[i].correct = FALSE})]

\* the upserts of manualReviewTask leave tasks that exist alone
WithTasks == [i \in Places |-> IF paper[i].type = "manual" /\ task[i] = NoTask
                               THEN Unset ELSE task[i]]
Awarded(t) == SumOver({i \in Places : t[i] \in Nat}, t)
NonePending(t) == \A i \in Places : t[i] # Unset

Score(total, descriptive, counts, t, sections) ==
    [objective |-> counts.objective, descriptive |-> descriptive, total |-> total,
     percent |-> Percentage(total), pass |-> PassStatus(total), correct |-> counts.correct,
     incorrect |-> counts.incorrect, unanswered |-> counts.unanswered,
     attempted |-> counts.attempted, ready |-> NonePending(t), sections |-> sections]

\* evaluateAttempt: the objective marks are the total; sections are added up beside
EvaluateAttempt ==
    LET counts == Counted(ByStudent) IN
    Score(counts.objective, 0, counts, WithTasks, SumOver(Objective, Marks(ByStudent)))

\* calculateResult and calculateResultTx: objective and awarded marks, at most
\* the assessment's total; the section rows stay as they are
CalculateResult(ev, t) ==
    LET counts == Counted(ev)  total == Min({TotalMarks, counts.objective + Awarded(t)}) IN
    Score(total, Awarded(t), counts, t, result.sections)

\* recalculateResult: the stored objective marks and the awarded ones, uncapped
RecalculateResult(t) ==
    LET total == stored + Awarded(t) IN
    [result EXCEPT !.descriptive = Awarded(t), !.total = total,
        !.percent = Percentage(total), !.pass = PassStatus(total), !.ready = NonePending(t)]

SubmitSheet ==
    /\ graded = "none" /\ graded' = "student" /\ task' = WithTasks
    /\ result' = EvaluateAttempt /\ stored' = result'.objective
    /\ UNCHANGED <<paper, sheet>>

AutoSubmitSheet ==
    /\ graded = "none" /\ graded' = "operations" /\ task' = WithTasks
    /\ result' = CalculateResult(ByOperations, WithTasks)
    /\ stored' = result'.objective /\ UNCHANGED <<paper, sheet>>

WorkerCalculates ==
    /\ graded # "none" /\ graded' = "worker" /\ task' = WithTasks
    /\ result' = CalculateResult(ByWorker, WithTasks)
    /\ stored' = result'.objective /\ UNCHANGED <<paper, sheet>>

\* completeReview refuses marks above the question's; so does updateReview
CompleteReview(i, marks) ==
    /\ graded # "none" /\ task[i] # NoTask /\ marks <= paper[i].marks
    /\ task' = [task EXCEPT ![i] = marks] /\ graded' = "operations"
    /\ result' = CalculateResult(ByOperations, task')
    /\ stored' = result'.objective /\ UNCHANGED <<paper, sheet>>
UpdateReview(i, marks) ==
    /\ graded # "none" /\ task[i] # NoTask /\ marks <= paper[i].marks
    /\ task' = [task EXCEPT ![i] = marks] /\ graded' = "review"
    /\ result' = RecalculateResult(task')
    /\ UNCHANGED <<paper, sheet, stored>>

GradingInit ==
    /\ paper \in [Places -> QuestionPool] /\ sheet \in [Places -> AnswerPool \cup {Unset}]
    /\ task = [i \in Places |-> NoTask]
    /\ result = NoResultRow /\ graded = "none" /\ stored = 0

GradingNext ==
    \/ SubmitSheet \/ AutoSubmitSheet \/ WorkerCalculates
    \/ \E i \in Places, marks \in ReviewMarks : CompleteReview(i, marks) \/ UpdateReview(i, marks)

GradingSpec == GradingInit /\ [][GradingNext]_gradingVars

-----------------------------------------------------------------------------
CaseMatters == \E i \in Places : paper[i].type = "blank" /\ paper[i].caseSensitive

\* The three evaluateObjective agree on every question and answer, but for
\* blanks with caseSensitive, which only StudentExamService honours.
GradersAgree == \A i \in Objective :
    /\ ApiEvaluateObjective(paper[i], sheet[i]) = WorkerEvaluateObjective(paper[i], sheet[i])
    /\ ~paper[i].caseSensitive =>
           EvaluateObjective(paper[i], sheet[i]) = WorkerEvaluateObjective(paper[i], sheet[i])

\* "Result calculation is idempotent" (docs/WORKERS.md): whichever grader wrote
\* the result, a calculation that finds the same reviews leaves the score and
\* the counters alone (case-sensitive blanks apart), as long as the marks of the
\* assessment cover those awarded.
RecalculationStable == [][
    graded # "none" /\ task' = task /\ ~CaseMatters
    /\ result.objective + Awarded(task) <= TotalMarks => result' = result]_gradingVars

\* A question that was not answered is counted so by every grader and loses no
\* marks, unless it is a choice question whose answer row was never created:
\* those lose their negative marks in all three graders.
UnansweredFree == \A i \in Objective : ~IsAnswered(sheet[i]) =>
    \A m \in {EvaluateObjective(paper[i], sheet[i]).marks,
              WorkerEvaluateObjective(paper[i], sheet[i]).marks} :
        m = 0 \/ (sheet[i] = Unset /\ paper[i].type \in {"choice", "multiple"}
                  /\ m = -paper[i].negative)

FullMarks == [i \in Places |-> paper[i].marks]
Negatives == [i \in Places |-> paper[i].negative]

\* The counters and the sections add up: every question is attempted or not,
\* the judged ones were attempted, and the sections of a submission hold its
\* objective marks; the total stays within the marks of the paper.
ResultAddsUp == graded # "none" =>
    /\ result.attempted + result.unanswered = PaperLength
    /\ result.correct + result.incorrect <= result.attempted
    /\ graded = "student" => result.sections = result.objective
    /\ result.total <= SumOver(Places, FullMarks)
    /\ result.total >= -SumOver(Objective, Negatives)

\* The three graders and the two calculations give one result for one answer
\* sheet, and it adds up.
GradesAgree ==
    /\ GradingTypeOK
    /\ GradersAgree
    /\ UnansweredFree
    /\ ResultAddsUp
=============================================================================
