----------------------------- MODULE StaffViews -----------------------------
(***************************************************************************)
(* What staff see of attempts, reviews and results in StudentExamService and *)
(* ExamOperationsService, each with a scope of its own, and the review of    *)
(* the security events an exam page logged: the verdict on the attempt is    *)
(* one statement, the mark on each of its flags another.  An attempt is its  *)
(* session.                                                                  *)
(***************************************************************************)
EXTENDS Reports

CONSTANTS Verdicts,    \* SecurityReviewStatus
          MaxFlags     \* bound: flags of an attempt

ASSUME StaffAssumption == MaxFlags \in Nat /\ "NORMAL" \in Verdicts

VARIABLES flags,       \* AttemptSecurityFlag.reviewStatus by attempt, oldest first
          verdict,     \* AttemptSecurityReview.status
          marked,      \* history: how many flags the last verdict found
          crossed      \* history: attempts with overlapping or cut-off reviews

securityRows == <<flags, verdict, marked, crossed>>
staffVars == <<reportVars, securityRows>>

\* Flags and verdicts have values of their type.
StaffTypeOK ==
    /\ flags \in [Sessions -> UNION {[1..n -> Verdicts] : n \in 0..MaxFlags}]
    /\ verdict \in [Sessions -> Verdicts \cup {None}]
    /\ DOMAIN marked = Sessions /\ \A s \in Sessions : marked[s] \in 0..Len(flags[s])
    /\ crossed \subseteq Sessions

-----------------------------------------------------------------------------
(* Views. *)

\* a request of one query that shows rows
View(u, routes, route, rows) ==
    /\ Quick(u, routes, route) /\ Show(u, rows)
    /\ UNCHANGED <<otherRows, row, report, run, cache, insight, board, req, crashes, securityRows>>

\* ensureAssessmentManagementAccess; the subject's faculty are the assigned ones
ManagementAccess(u, a) ==
    /\ UserRole[u] \in StaffRoles
    /\ UserRole[u] # "SUPER_ADMIN" => AssessmentCollege[a] = UserCollege[u]
    /\ UserRole[u] = "FACULTY" => a \in AssignedAssessments[u]

RowsOf(a) == {x \in Results : row[x].there /\ row[x].assessment = a}

\* assessmentResults, assessmentAttempts and, for staff, attemptResult
AssessmentResults(u, a) ==
    /\ ManagementAccess(u, a)
    /\ \/ \E route \in {"listResults", "attempts"} : View(u, ResultRoutes, route, RowsOf(a))
       \/ \E x \in RowsOf(a) : View(u, ResultRoutes, "attemptResult", {x})

\* collegeScope of ExamOperationsService: only platform users are asked which
\* college they mean, and faculty see all of their college
OperationsScope(u, c) ==
    InCollege(IF UserRole[u] = "SUPER_ADMIN" THEN c ELSE UserCollege[u])
\* another user without a college is refused
HasCollege(u) == UserRole[u] = "SUPER_ADMIN" \/ UserCollege[u] # None

\* listReviews, getReview and the counters of dashboardStats
ReviewList(u) ==
    /\ UserRole[u] \in StaffRoles /\ HasCollege(u)
    /\ \E route \in {"listReviews", "getReview", "stats"} :
           View(u, ResultRoutes, route, OperationsScope(u, None))

\* operationsDashboard and listReviews take a college, ...
OperationsDashboard(u, c) == HasCollege(u) /\
    \E route \in {"dashboard", "listReviews"} :
        View(u, OperationsRoutes, route, OperationsScope(u, c))
\* ... analytics and securitySummary none, ...
OperationsAnalytics(u) == HasCollege(u) /\
    View(u, OperationsRoutes, "analytics", OperationsScope(u, None))
SecuritySummary(u) == HasCollege(u) /\
    \E route \in {"listEvents", "attemptEvents"} :
        View(u, OperationsRoutes, route, OperationsScope(u, None))
\* ... and an export is of one assessment
ExportResults(u, a) == HasCollege(u) /\
    View(u, OperationsRoutes, "exportResults", RowsOf(a) \cap OperationsScope(u, None))

-----------------------------------------------------------------------------
(* Security events. *)

\* logSecurityEvent of the attempt's student, in one transaction
LogSecurityEvent(u, s) ==
    /\ Quick(u, ExamRoutes, "event") /\ SessionStudent[s] = u
    /\ Len(flags[s]) < MaxFlags
    /\ flags' = [flags EXCEPT ![s] = Append(@, "NORMAL")]
    /\ UNCHANGED <<otherRows, row, reportRows, req, crashes, verdict, marked, crossed>>

Reviewing(s) == {r \in Requests : req[r].op = "marking" /\ req[r].session = s}

\* updateSecurityReview: the verdict is upserted ...
UpsertVerdict(r, u, s, status) ==
    /\ Call(r, u, OperationsRoutes, "reviewEvent")
    /\ UserRole[u] # "SUPER_ADMIN" => SessionCollege[s] = UserCollege[u]
    /\ verdict' = [verdict EXCEPT ![s] = status]
    /\ crossed' = IF Reviewing(s) # {} THEN crossed \cup {s} ELSE crossed \ {s}
    /\ Go(r, [NoReq EXCEPT !.op = "marking", !.user = u, !.session = s, !.data = status])
    /\ UNCHANGED <<otherRows, row, reportRows, crashes, flags, marked>>

\* ... and then every flag of the attempt gets its status
MarkFlags(r) ==
    /\ req[r].op = "marking" /\ Done(r)
    /\ flags' = [flags EXCEPT ![req[r].session] = [i \in DOMAIN @ |-> req[r].data]]
    /\ marked' = [marked EXCEPT ![req[r].session] = Len(flags[req[r].session])]
    /\ UNCHANGED <<otherRows, row, reportRows, requests, crashes, verdict, crossed>>

\* the process restarts, also between the two
ViewsCrash ==
    /\ ReportsCrash
    /\ crossed' = crossed \cup {s \in Sessions : Reviewing(s) # {}}
    /\ UNCHANGED <<flags, verdict, marked>>

StaffInit ==
    /\ flags = [s \in Sessions |-> <<>>] /\ verdict = [s \in Sessions |-> None]
    /\ marked = [s \in Sessions |-> 0] /\ crossed = {}

StaffNext ==
    \/ \E u \in Users : ReviewList(u) \/ OperationsAnalytics(u) \/ SecuritySummary(u)
    \/ \E u \in Users, a \in Assessments : AssessmentResults(u, a) \/ ExportResults(u, a)
    \/ \E u \in Users, c \in Colleges \cup {None} : OperationsDashboard(u, c)
    \/ \E u \in Users, s \in Sessions : LogSecurityEvent(u, s)
    \/ \E r \in Requests, u \in Users, s \in Sessions, status \in Verdicts :
           UpsertVerdict(r, u, s, status)
    \/ \E r \in Requests : MarkFlags(r)

ViewsInit ==
    /\ EvidenceInit /\ GradingInit /\ ReportRowsInit /\ StaffInit
    /\ row \in [Results -> StudentResult] /\ RowsAgree

ViewsNext ==
    \/ (ReportNext \/ DashboardNext \/ BoardNext \/ \E x \in Results : NewResultRow(x))
       /\ UNCHANGED securityRows
    \/ StaffNext \/ ViewsCrash

ViewsSpec == ViewsInit /\ [][ViewsNext]_staffVars

-----------------------------------------------------------------------------
\* Between reviews, every flag the last review found has the attempt's verdict
\* and every younger one waits for the next review, unless two reviews of the
\* attempt overlapped or a restart came between the two statements of one.
FlagsFollowVerdict == \A s \in Sessions \ crossed : Reviewing(s) = {} =>
    \A i \in DOMAIN flags[s] :
        flags[s][i] = IF i <= marked[s] THEN verdict[s] ELSE "NORMAL"

\* What reports and views of staff show, and the flags they review, agree with
\* the rows.
ViewsConsistent == ReportsTypeOK /\ StaffTypeOK /\ ReportsConsistent /\ FlagsFollowVerdict
=============================================================================
