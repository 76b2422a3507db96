------------------------------ MODULE Reports ------------------------------
(***************************************************************************)
(* Analytics and reports (AnalyticsService): result reports and the files   *)
(* they leave behind, the cached college dashboard, insights drawn from it,  *)
(* student analytics, leaderboards, and the statistics under them.  Results  *)
(* are numbered by createdAt; percentages are hundredths, as in Grading.  A  *)
(* report's text is the set of result rows in it.  Dates of queries, report  *)
(* types and the read-only counters of the dashboards are left out.          *)
(***************************************************************************)
EXTENDS Evidence, Grading

CONSTANTS Results,        \* 1..n
          AssignedStudents,   \* students of a faculty member's batches; {}: no batches
          AssessmentCollege, AssignedAssessments,   \* and of a member's subjects
          HiddenBoards,   \* assessments with resultVisibility NEVER
          OpenResults,    \* assessments whose resultVisibility shows results by now
          MaxReports, MaxRuns, MaxInsights   \* bounds: rows of each table

ASSUME ReportsAssumption ==
    /\ {MaxReports, MaxRuns, MaxInsights} \subseteq Nat /\ Results \subseteq Nat /\ IsFiniteSet(Results)
    /\ HiddenBoards \cup OpenResults \subseteq Assessments
    /\ AssignedStudents \in [Users -> SUBSET Users]
    /\ AssessmentCollege \in [Assessments -> Colleges]
    /\ AssignedAssessments \in [Users -> SUBSET Assessments]

VARIABLES row,       \* Result rows; there: created already
          report,    \* ReportDefinition
          run,       \* ReportGenerationJob, and the ReportFile of the job
          cache,     \* Redis: analytics:role:college:college:query
          insight,   \* AnalyticsInsight
          board,     \* the latest LeaderboardSnapshot
          shown      \* history: the rows the latest answer was drawn from, and for whom

reportRows == <<report, run, cache, insight, board, shown>>
reportVars == <<evidenceVars, gradingVars, row, reportRows>>
otherRows == <<policyRows, riskRows, evidence, review, job, gradingVars>>

NoReport == [college |-> None, owner |-> None, shared |-> FALSE]
NoRun == [status |-> "NONE", college |-> None, requester |-> None, count |-> 0,
          rows |-> {}, file |-> FALSE, expired |-> FALSE, cut |-> FALSE]
NoInsight == [college |-> None, basis |-> {}, weak |-> FALSE, status |-> "NONE"]
CacheKeys == {"SUPER_ADMIN", "COLLEGE_ADMIN"} \X (Colleges \cup {None}) \X (Colleges \cup {None})

StudentResult == [there : BOOLEAN, college : Colleges, student : Users, assessment : Assessments,
    pct : Int, time : Nat \cup {Unset}, ready : BOOLEAN, eligible : BOOLEAN, published : BOOLEAN]
\* start: a student takes an assessment of the own college
RowsAgree == \A x \in Results : /\ row[x].college = UserCollege[row[x].student]
                               /\ row[x].college = AssessmentCollege[row[x].assessment]

\* Every table of the reports holds values of its type.
ReportsTypeOK ==
    /\ row \in [Results -> StudentResult] /\ RowsAgree
    /\ \A i \in 1..MaxReports : report[i] = NoReport \/ report[i].owner \in Users
    /\ \A j \in 1..MaxRuns : run[j].status \in {"NONE", "COMPLETED", "CANCELLED"}
           /\ run[j].rows \subseteq Results
    /\ DOMAIN cache \subseteq CacheKeys /\ \A k \in DOMAIN cache : cache[k] \subseteq Results
    /\ \A i \in 1..MaxInsights : insight[i].basis \subseteq Results
    /\ \A i \in DOMAIN board : board[i].id \in Results
    /\ shown.user \in Users \cup {None} /\ shown.rows \subseteq Results

-----------------------------------------------------------------------------
(* Scopes. *)

\* scopeCollege: platform users may ask for any college or, naming none, for all
ScopeAllowed(u, c) == UserRole[u] = "SUPER_ADMIN" \/ (UserCollege[u] # None
                                                    /\ c \in {UserCollege[u], None})
ScopeCollege(u, c) == IF c # None THEN c ELSE UserCollege[u]
InCollege(c) == {x \in Results : row[x].there /\ (c = None \/ row[x].college = c)}

\* reportScope; jobScope and fileScope, which ask for the requester as well
ReportInScope(u, i) == report[i] # NoReport /\ (UserRole[u] # "SUPER_ADMIN" =>
    report[i].college = UserCollege[u] /\ (report[i].owner = u \/ report[i].shared))

FileInScope(u, j) == run[j] # NoRun /\ (UserRole[u] # "SUPER_ADMIN" =>
    run[j].college = UserCollege[u] /\ run[j].requester = u)

ReportCollegeId(u) == IF UserRole[u] = "SUPER_ADMIN" THEN None ELSE UserCollege[u]
Show(u, rows) == shown' = [user |-> u, rows |-> rows]

\* a request of one statement
Quick(u, routes, route) == Budget /\ RoleAdmitted(routes[route], UserRole[u])

-----------------------------------------------------------------------------
(* Result rows come from grading and publication. *)

NewResultRow(x) ==
    /\ Budget /\ ~row[x].there /\ \A y \in Results : y < x => row[y].there
    /\ row' = [row EXCEPT ![x].there = TRUE]
    /\ UNCHANGED <<otherRows, reportRows, req, crashes>>
PublishRow(x, published) ==
    /\ Budget /\ row[x].there /\ row[x].published # published
    /\ row' = [row EXCEPT ![x].published = published]
    /\ UNCHANGED <<otherRows, reportRows, req, crashes>>

-----------------------------------------------------------------------------
(* Reports. *)

CreateReport(u) ==
    /\ Quick(u, ReportRoutes, "createReport")
    /\ HasFree(report, NoReport)
    /\ report' = [report EXCEPT ![Free(report, NoReport)] =
           [college |-> ReportCollegeId(u), owner |-> u, shared |-> FALSE]]
    /\ UNCHANGED <<otherRows, row, run, cache, insight, board, shown, req, crashes>>

DeleteReport(u, i) ==
    /\ Quick(u, ReportRoutes, "deleteReport") /\ ReportInScope(u, i)
    /\ report' = [report EXCEPT ![i] = NoReport]
    /\ UNCHANGED <<otherRows, row, run, cache, insight, board, shown, req, crashes>>

\* resultReports and resultReportsCsv
ResultReports(u, c) ==
    /\ Quick(u, ReportRoutes, "resultReports") /\ ScopeAllowed(u, c)
    /\ Show(u, InCollege(ScopeCollege(u, c)))
    /\ UNCHANGED <<otherRows, row, report, run, cache, insight, board, req, crashes>>

\* runReport reads the rows in the scope of the user who runs it ...
RunReport(r, u, i, c) ==
    /\ Call(r, u, ReportRoutes, "runReport") /\ ReportInScope(u, i) /\ ScopeAllowed(u, c)
    /\ Go(r, [NoReq EXCEPT !.op = "runJob", !.user = u, !.ids = InCollege(ScopeCollege(u, c)),
              !.data = report[i].college])
    /\ UNCHANGED <<otherRows, row, reportRows, crashes>>

\* ... writes the job, completed, under the report's college ...
RunJob(r) ==
    /\ req[r].op = "runJob" /\ HasFree(run, NoRun)
    /\ LET j == Free(run, NoRun) IN
         /\ run' = [run EXCEPT ![j].status = "COMPLETED", ![j].college = req[r].data,
                ![j].requester = req[r].user, ![j].count = Cardinality(req[r].ids)]
         /\ req' = [req EXCEPT ![r].op = "runFile", ![r].job = j]
    /\ UNCHANGED <<otherRows, row, report, cache, insight, board, shown, requests, crashes>>

\* Mutant: the file is filled by a query of its own.
MutRunFile(r) ==
    /\ req[r].op = "runFile" /\ Done(r)
    /\ run' = [run EXCEPT ![req[r].job].file = TRUE, ![req[r].job].rows =
           InCollege(req[r].data)]
    /\ UNCHANGED <<otherRows, row, report, cache, insight, board, shown, requests, crashes>>

\* ... and then the file
RunFile(r) ==
    /\ req[r].op = "runFile" /\ Done(r)
    /\ run' = [run EXCEPT ![req[r].job].file = TRUE, ![req[r].job].rows = req[r].ids]
    /\ UNCHANGED <<otherRows, row, report, cache, insight, board, shown, requests, crashes>>

\* cancelReportJob, whatever the status; the file stays
CancelReportJob(u, j) ==
    /\ Quick(u, ReportRoutes, "cancelJob") /\ FileInScope(u, j)
    /\ run' = [run EXCEPT ![j].status = "CANCELLED"]
    /\ UNCHANGED <<otherRows, row, report, cache, insight, board, shown, req, crashes>>

FileExpires(j) ==
    /\ Budget /\ run[j].file /\ ~run[j].expired
    /\ run' = [run EXCEPT ![j].expired = TRUE]
    /\ UNCHANGED <<otherRows, row, report, cache, insight, board, shown, req, crashes>>

DownloadReport(u, j) ==
    /\ Quick(u, ReportRoutes, "download")
    /\ run[j].file /\ FileInScope(u, j) /\ ~run[j].expired
    /\ Show(u, run[j].rows)
    /\ UNCHANGED <<otherRows, row, report, run, cache, insight, board, req, crashes>>

-----------------------------------------------------------------------------
(* The cached college dashboard and the insights. *)

CacheKey(u, c) == <<UserRole[u], UserCollege[u], c>>

\* college: the cached answer; Redis may fail, and then the answer is computed
College(r, u, c, then) ==
    /\ ScopeAllowed(u, c)
    /\ LET k == CacheKey(u, c)  rows == InCollege(ScopeCollege(u, c)) IN
       \/ /\ k \in DOMAIN cache
          /\ Go(r, [NoReq EXCEPT !.op = then, !.user = u, !.data = c, !.ids = cache[k]])
       \/ /\ k \notin DOMAIN cache
          /\ Go(r, [NoReq EXCEPT !.op = "fill", !.user = u, !.data = c, !.ids = rows, !.then = then])
       \/ Go(r, [NoReq EXCEPT !.op = then, !.user = u, !.data = c, !.ids = rows])

CollegeAnalytics(r, u, c) ==
    /\ Call(r, u, AnalyticsRoutes, "college") /\ College(r, u, c, "answer")
    /\ UNCHANGED <<otherRows, row, reportRows, crashes>>

\* the computed answer goes to the cache for a minute
CacheFill(r) ==
    /\ req[r].op = "fill" /\ Step(r, req[r].then)
    /\ LET key == CacheKey(req[r].user, req[r].data) IN
         cache' = [k \in DOMAIN cache \cup {key} |-> IF k = key THEN req[r].ids ELSE cache[k]]
    /\ UNCHANGED <<otherRows, row, report, run, insight, board, shown, requests, crashes>>
CacheExpires(k) ==
    /\ Budget /\ k \in DOMAIN cache
    /\ cache' = [q \in DOMAIN cache \ {k} |-> cache[q]]
    /\ UNCHANGED <<otherRows, row, report, run, insight, board, shown, req, crashes>>

Answer(r) ==
    /\ req[r].op = "answer" /\ Done(r) /\ Show(req[r].user, req[r].ids)
    /\ UNCHANGED <<otherRows, row, report, run, cache, insight, board, requests, crashes>>

\* generateInsights names its college in the query; college() refuses faculty
GenerateInsights(r, u, c) ==
    /\ Call(r, u, ReportRoutes, "generateInsights") /\ UserRole[u] \in AdminRoles
    /\ ScopeAllowed(u, c) /\ College(r, u, ScopeCollege(u, c), "insight")
    /\ UNCHANGED <<otherRows, row, reportRows, crashes>>

PassRate(rows) == IF rows = {} THEN 0
    ELSE (Cardinality({x \in rows : row[x].pct >= 4000}) * 100) \div Cardinality(rows)

WriteInsight(r) ==
    /\ req[r].op = "insight" /\ Done(r) /\ HasFree(insight, NoInsight)
    /\ insight' = [insight EXCEPT ![Free(insight, NoInsight)] =
           [college |-> req[r].data, basis |-> req[r].ids,
            weak |-> PassRate(req[r].ids) < 60, status |-> "PENDING_REVIEW"]]
    /\ UNCHANGED <<otherRows, row, report, run, cache, board, shown, requests, crashes>>

ReviewInsight(u, i, status) ==
    /\ Quick(u, ReportRoutes, "reviewInsight") /\ insight[i] # NoInsight
    /\ UserRole[u] # "SUPER_ADMIN" => UserCollege[u] # None /\ insight[i].college = UserCollege[u]
    /\ insight' = [insight EXCEPT ![i].status = status]
    /\ Show(u, insight[i].basis)
    /\ UNCHANGED <<otherRows, row, report, run, cache, board, req, crashes>>

-----------------------------------------------------------------------------
(* Students and leaderboards. *)

\* studentVisibleResultWhere
StudentVisible(s) == {x \in Results : row[x].there /\ row[x].student = s /\ row[x].ready
    /\ (row[x].published \/ row[x].assessment \in OpenResults)}

\* ensureStudentVisible: a faculty member without batches sees every student
EnsureStudentVisible(u, s) ==
    /\ UserRole[u] # "SUPER_ADMIN" => UserCollege[s] = UserCollege[u]
    /\ UserRole[u] = "FACULTY" => AssignedStudents[u] = {} \/ s \in AssignedStudents[u]

StudentAnalytics(u, s) ==
    /\ UserRole[s] = "STUDENT"
    /\ IF u = s THEN Quick(u, AnalyticsRoutes, "student")
       ELSE Quick(u, AnalyticsRoutes, "studentById") /\ EnsureStudentVisible(u, s)
    /\ Show(u, StudentVisible(s))
    /\ UNCHANGED <<otherRows, row, report, run, cache, insight, board, req, crashes>>

\* percentage desc, timeTakenSeconds asc (null last), createdAt asc
Better(x, y) ==
    LET a == row[x]  b == row[y]
        quicker(s, t) == s # t /\ (t = Unset \/ (s # Unset /\ s < t)) IN
    \/ a.pct > b.pct
    \/ a.pct = b.pct /\ quicker(a.time, b.time)
    \/ a.pct = b.pct /\ a.time = b.time /\ x < y

Eligible(u, a) == {x \in Results : row[x].there /\ row[x].assessment = a
    /\ row[x].published /\ row[x].eligible
    /\ (UserRole[u] = "STUDENT" => row[x].student = u)}

\* rows in an order that tells any two apart
Ordered(rows, before(_, _)) == CHOOSE s \in [1..Cardinality(rows) -> rows] :
    \A i, j \in DOMAIN s : i < j => before(s[i], s[j])

\* entries of assessmentLeaderboard
Entries(rows) ==
    LET s == Ordered(rows, Better)  n == Cardinality(rows) IN
    [i \in 1..n |-> [id |-> s[i], rank |-> i, percentile |-> ((n - i + 1) * 10000) \div n]]

\* scopedAssessment
AssessmentInScope(u, a) ==
    /\ UserRole[u] # "SUPER_ADMIN" => AssessmentCollege[a] = UserCollege[u]
    /\ UserRole[u] = "FACULTY" => AssignedAssessments[u] = {} \/ a \in AssignedAssessments[u]

\* assessmentLeaderboard: the results are read ...
Leaderboard(r, u, a) ==
    /\ Call(r, u, AnalyticsRoutes, "leaderboard")
    /\ AssessmentInScope(u, a) /\ a \notin HiddenBoards
    /\ Go(r, [NoReq EXCEPT !.op = "board", !.user = u, !.ids = Eligible(u, a)])
    /\ UNCHANGED <<otherRows, row, reportRows, crashes>>

\* ... and stored as a snapshot
StoreBoard(r) ==
    /\ req[r].op = "board" /\ Done(r)
    /\ board' = Entries(req[r].ids) /\ Show(req[r].user, req[r].ids)
    /\ UNCHANGED <<otherRows, row, report, run, cache, insight, requests, crashes>>

-----------------------------------------------------------------------------
(* Statistics. *)

Below(x, y) == row[x].pct < row[y].pct \/ (row[x].pct = row[y].pct /\ x < y)
Sorted(rows) == LET s == Ordered(rows, Below) IN
    [i \in 1..Cardinality(rows) |-> row[s[i]].pct]

\* twice the median of scoreStats
Median(s) == LET n == Len(s) IN
    CASE n = 0 -> 0
      [] n % 2 = 1 -> 2 * s[n \div 2 + 1]
      [] OTHER -> s[n \div 2] + s[n \div 2 + 1]

Buckets == <<<<0, 2000>>, <<2100, 4000>>, <<4100, 6000>>, <<6100, 8000>>, <<8100, 10000>>>>
Histogram(s) == [b \in DOMAIN Buckets |->
    Cardinality({i \in DOMAIN s : s[i] >= Buckets[b][1] /\ s[i] <= Buckets[b][2]})]

-----------------------------------------------------------------------------
\* the process restarts
ReportsCrash ==
    /\ crashes < MaxCrashes /\ crashes' = crashes + 1
    /\ \E r \in Requests : req[r] # NoReq
    /\ run' = [j \in 1..MaxRuns |-> IF \E r \in Requests :
           req[r].op = "runFile" /\ req[r].job = j THEN [run[j] EXCEPT !.cut = TRUE] ELSE run[j]]
    /\ req' = [r \in Requests |-> NoReq]
    /\ UNCHANGED <<otherRows, row, report, cache, insight, board, shown, requests>>

ReportRowsInit ==
    /\ report = [i \in 1..MaxReports |-> NoReport] /\ run = [j \in 1..MaxRuns |-> NoRun]
    /\ cache = <<>> /\ insight = [i \in 1..MaxInsights |-> NoInsight] /\ board = <<>>
    /\ shown = [user |-> None, rows |-> {}]

ReportNext ==
    \/ \E u \in Users : CreateReport(u)
    \/ \E u \in Users, i \in 1..MaxReports : DeleteReport(u, i)
    \/ \E u \in Users, c \in Colleges \cup {None} : ResultReports(u, c)
    \/ \E u \in Users, j \in 1..MaxRuns : CancelReportJob(u, j) \/ DownloadReport(u, j)
    \/ \E j \in 1..MaxRuns : FileExpires(j)
    \/ \E r \in Requests : RunJob(r) \/ RunFile(r)
          \/ \E u \in Users, i \in 1..MaxReports, c \in Colleges \cup {None} : RunReport(r, u, i, c)

DashboardNext ==
    \/ \E r \in Requests : CacheFill(r) \/ Answer(r) \/ WriteInsight(r)
          \/ \E u \in Users, c \in Colleges \cup {None} :
                 CollegeAnalytics(r, u, c) \/ GenerateInsights(r, u, c)
    \/ \E k \in CacheKeys : CacheExpires(k)
    \/ \E u \in Users, i \in 1..MaxInsights, status \in {"USEFUL", "DISMISSED"} :
           ReviewInsight(u, i, status)

BoardNext ==
    \/ \E u \in Users, s \in Users : StudentAnalytics(u, s)
    \/ \E r \in Requests : StoreBoard(r)
          \/ \E u \in Users, a \in Assessments : Leaderboard(r, u, a)
    \/ \E x \in Results, b \in BOOLEAN : PublishRow(x, b)

-----------------------------------------------------------------------------
\* What a user is shown, by a report, a downloaded file, the cached dashboard,
\* an insight, a student's analytics or a leaderboard, comes from results of the
\* own college, and for a student from the own results: although a platform
\* administrator may run a college's report over every college, and answers of
\* the dashboard are kept for a minute.
TenantSeesOwn == shown.user \in Users =>
    /\ UserRole[shown.user] # "SUPER_ADMIN" =>
           \A x \in shown.rows : row[x].college = UserCollege[shown.user]
    /\ UserRole[shown.user] = "STUDENT" =>
           \A x \in shown.rows : row[x].student = shown.user

\* A report job that says COMPLETED has a file with as many rows as the job
\* counted, unless its handler is still at work or was cut off in between.
JobHasFile == \A j \in 1..MaxRuns : run[j].status = "COMPLETED" =>
    \/ run[j].file /\ Cardinality(run[j].rows) = run[j].count
    \/ run[j].cut \/ \E r \in Requests : req[r].op = "runFile" /\ req[r].job = j

EntryAgrees(i) ==
    LET pct(k) == row[board[k].id].pct IN
    (\A k \in DOMAIN board \ {i} : pct(k) # pct(i)) =>
        /\ board[i].percentile =
               (Cardinality({k \in DOMAIN board : pct(k) <= pct(i)}) * 10000) \div Len(board)
        /\ board[i].rank = 1 + Cardinality({k \in DOMAIN board : pct(k) > pct(i)})

\* A stored leaderboard gives each result the percentile the analytics page
\* explains: the share of eligible published scores below or equal to it (scores
\* that tie are told apart by time, so they are left out).
PercentileAgrees == \A i \in DOMAIN board : EntryAgrees(i)

\* The median has as many values on either side, and the histogram counts
\* every whole percentage from 0 to 100 once.  It counts no fraction between two
\* buckets, and negative marks and the uncapped recalculation leave the range.
StatsAgree ==
    LET rows == InCollege(None)  s == Sorted(rows)  n == Len(s)  h == Histogram(s)
        whole == {i \in DOMAIN s : s[i] \in 0..10000 /\ s[i] % 100 = 0} IN
    /\ n > 0 =>
        /\ 2 * Cardinality({i \in DOMAIN s : 2 * s[i] <= Median(s)}) >= n
        /\ 2 * Cardinality({i \in DOMAIN s : 2 * s[i] >= Median(s)}) >= n
    /\ (\A i \in DOMAIN s : i \in whole) => SumOver(DOMAIN Buckets, h) = n

\* What reports, files, dashboards and leaderboards show is the tenant's, is there
\* when its job says so, and agrees with the statistics it claims to be.
ReportsConsistent ==
    /\ TenantSeesOwn
    /\ JobHasFile
    /\ PercentileAgrees
    /\ StatsAgree
=============================================================================
