----------------------------- MODULE MCRecords -----------------------------
(* A platform administrator, an administrator, a faculty member and a        *)
(* student of one college and an administrator and a student of another;     *)
(* a behaviour stays in one area.                                            *)
EXTENDS StaffViews, StudentPortal

VARIABLE area
CONSTANTS su, ad, fa, st, xa, xs, c1, c2, s1, s2

MCRole == [u \in Users |-> CASE u = su -> "SUPER_ADMIN" [] u \in {ad, xa} -> "COLLEGE_ADMIN"
             [] u = fa -> "FACULTY" [] OTHER -> "STUDENT"]
MCCollege == [u \in Users |-> CASE u = su -> None [] u \in {xa, xs} -> c2 [] OTHER -> c1]
MCSessionCollege == [s \in Sessions |-> c1]
MCSessionStudent == [s \in Sessions |-> st]
MCSessionAssessment == [s \in Sessions |-> IF s = s1 THEN 1 ELSE 2]
MCAssessmentCollege == [a \in Assessments |-> IF a = 2 THEN c2 ELSE c1]
MCAssignedStudents == [u \in Users |-> IF u = fa THEN {st} ELSE {}]
MCAssignedAssessments == [u \in Users |-> IF u = fa THEN {1} ELSE {}]

Question(type, correct, accepted, case, expected) == [type |-> type, marks |-> 2,
    negative |-> 1, correct |-> correct, accepted |-> accepted,
    caseSensitive |-> case, expected |-> expected, tolerance |-> 1]
MCQuestions == {Question("choice", {1}, {}, FALSE, Unset),
    Question("multiple", {1, 2}, {}, FALSE, Unset),
    Question("blank", {}, {" ok ", "OK"}, FALSE, Unset), Question("blank", {}, {"OK"}, TRUE, Unset),
    Question("number", {}, {}, FALSE, 5), Question("number", {}, {}, FALSE, Unset),
    Question("manual", {}, {}, FALSE, Unset)}
Keys(s) == [selected |-> s, text |-> Unset, number |-> Unset]
MCAnswers == {Keys(<<>>), Keys(<<1>>), Keys(<<2>>), Keys(<<1, 2>>), Keys(<<2, 2>>),
    [Keys(<<>>) EXCEPT !.text = "ok"], [Keys(<<>>) EXCEPT !.text = "OK"],
    [Keys(<<>>) EXCEPT !.number = 6], [Keys(<<>>) EXCEPT !.number = 3]}

Exam(dates, others, visibility, due, scoring) ==
    [status |-> "SCHEDULED", assigned |-> TRUE, questions |-> TRUE, maxAttempts |-> 1,
     startAt |-> dates[1], endAt |-> dates[2], opensAt |-> others[1], closesAt |-> others[2],
     visibility |-> visibility, publishAt |-> due, scoring |-> scoring, others |-> scoring = "FIRST",
     scores |-> IF scoring = "BEST" THEN {0, 1} ELSE {0}]
Never == <<NoDate, NoDate>>
Plain == Exam(<<1, 3>>, <<1, 3>>, "AFTER_END", NoDate, "BEST")
MCExams == {Exam(<<2, 3>>, <<2, 3>>, "NEVER", NoDate, "LATEST"),
    Exam(<<2, 3>>, <<2, 3>>, "AFTER_END", NoDate, "LATEST"),
    Exam(<<2, 3>>, <<2, 3>>, "SCHEDULED", NoDate, "FIRST"),
    Exam(<<2, 3>>, <<2, 3>>, "SCHEDULED", 4, "BEST"),
    Exam(Never, <<NoDate, 2>>, "AFTER_END", NoDate, "LATEST"),
    Exam(Never, <<2, NoDate>>, "AFTER_SUBMISSION", NoDate, "FIRST"),
    [Plain EXCEPT !.status = "DRAFT"], [Plain EXCEPT !.questions = FALSE],
    [Plain EXCEPT !.assigned = FALSE]}

ResultRow(c, s, a, pct, time) == [there |-> FALSE, college |-> c, student |-> s,
    assessment |-> a, pct |-> pct, time |-> time, ready |-> TRUE, eligible |-> TRUE,
    published |-> FALSE]
MCRows == {ResultRow(c1, st, 1, pct, 5) : pct \in {-500, 4050, 10000}}
          \cup {ResultRow(c1, st, 1, 4050, Unset)}
FixedRows == [x \in Results |-> CASE x = 1 -> ResultRow(c1, st, 1, 8000, 5)
    [] x = 2 -> ResultRow(c2, xs, 2, 2000, 5)
    [] x = 3 -> ResultRow(c1, st, 1, 6000, Unset)]

Stored(s) == [session |-> s, hold |-> FALSE, expired |-> TRUE, days |-> DefaultDays,
              stored |-> TRUE]
There(rows) == [x \in Results |-> [rows[x] EXCEPT !.there = TRUE, !.published = TRUE]]

EvidenceRows ==
    /\ policy = [p \in Policies |-> NoPolicy] /\ recent = <<>> /\ doubled = {}
    /\ riskSum = [s \in Sessions |-> 0] /\ risk = [s \in Sessions |-> 0] /\ unsettled = {}
    /\ job = [j \in Jobs |-> NoJob] /\ req = [r \in Requests |-> NoReq]
    /\ requests = 0 /\ crashes = 0
    /\ IF area \in {"retention", "risk"}
       THEN /\ snapshot = [s \in Sessions |-> DefaultDays]
            /\ evidence = [e \in Items |-> CASE e = 1 -> [Stored(s1) EXCEPT !.hold = TRUE]
                 [] e = 2 -> Stored(s1) [] e = 3 -> Stored(s2) [] OTHER -> NoEvidence]
            /\ review = [s \in Sessions |-> IF s = s2 THEN "NEEDS_FOLLOW_UP" ELSE "NONE"]
       ELSE /\ snapshot = [s \in Sessions |-> 0]
            /\ evidence = [e \in Items |-> NoEvidence]
            /\ review = [s \in Sessions |-> "NONE"]

MCInit ==
    /\ area \in {"policy", "retention", "risk", "grading", "reports", "dashboard", "boards", "staff",
                "portal"}
    /\ EvidenceRows
    /\ IF area = "grading" THEN GradingInit
       ELSE /\ paper = [i \in Places |-> Question("manual", {}, {}, FALSE, Unset)]
            /\ sheet = [i \in Places |-> Unset] /\ task = [i \in Places |-> NoTask]
            /\ result = NoResultRow /\ graded = "none" /\ stored = 0
    /\ ReportRowsInit /\ StaffInit
    /\ PortalInit /\ (area = "portal" \/ exam = [Plain EXCEPT !.status = "DRAFT"])
    /\ CASE area = "boards" -> row \in {There(rows) : rows \in [Results -> MCRows]}
         [] area \in {"dashboard", "staff"} -> row = There(FixedRows)
         [] OTHER -> row = [FixedRows EXCEPT ![1].there = TRUE, ![2].there = TRUE]

Same == UNCHANGED <<gradingVars, row, reportRows>>
MCNext ==
    /\ UNCHANGED area
    /\ area = "portal" \/ UNCHANGED portalVars
    /\ area = "staff" \/ UNCHANGED securityRows
    /\ \/ area = "portal" /\ PortalNext /\ UNCHANGED reportVars
       \/ area = "staff" /\ StaffNext
       \/ area = "policy" /\ PolicyNext /\ Same
       \/ area = "retention" /\ (RetentionNext \/ ReviewNext) /\ UNCHANGED riskSum /\ Same
       \/ area = "risk" /\ ReviewNext /\ (\A r \in Requests : req'[r].op # "decide") /\ Same
       \/ area \in {"policy", "retention", "risk"} /\ EvidenceCrash /\ Same
       \/ area = "grading" /\ GradingNext /\ UNCHANGED <<evidenceVars, row, reportRows>>
       \/ area = "reports" /\ (ReportNext \/ \E x \in Results : NewResultRow(x))
       \/ area = "dashboard" /\ DashboardNext
       \/ area = "boards" /\ BoardNext
       \/ area \in {"reports", "dashboard", "boards", "staff"} /\ ViewsCrash

MCSpec == MCInit /\ [][MCNext]_<<staffVars, portalVars, area>>
Symmetry == Permutations(Requests)

\* Results do not move by themselves: a calculation that finds the same reviews
\* changes nothing, and only an unpublication takes a visible result away; the
\* final one moves in the direction of the scoring policy.
RecordsSettle == RecalculationStable /\ FinalMonotone /\ FinalByPolicy
=============================================================================
