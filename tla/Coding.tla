------------------------------- MODULE Coding -------------------------------
(***************************************************************************)
(* Coding questions (CodingService) and the code runner's own jobs           *)
(* (CodeRunnerService).  A student runs or submits a source of one coding    *)
(* question of an open attempt; staff rejudge, hold, release, override and   *)
(* compare.  Nothing is executed: evaluate derives a status from the text.   *)
(* Every database statement of a request is a step of its own, so requests   *)
(* interleave between them.  Rows are numbered in the order of creation.     *)
(***************************************************************************)
EXTENDS AccessControl, Configuration, Integers, FiniteSets, FiniteSetsExt

CONSTANTS Users, UserRole, UserCollege, Colleges, None,
          Environments,  \* the deployments looked at
          Sources,       \* the programs: [status, language, tokens]
          TestCases,     \* [public, active, weight] records with an id
          Policy,        \* partialScoringPolicy of the question
          Marks,         \* assignedMarks
          Overrides,     \* scores staff ask for
          RateLimit,     \* 60 in the code
          Requests, MaxRequests, MaxCrashes, MaxSubs, MaxJobs, MaxRunner \* bounds

ASSUME CodingAssumption ==
    /\ {Marks, RateLimit, MaxRequests, MaxCrashes, MaxSubs, MaxJobs, MaxRunner} \subseteq Nat
    /\ Overrides \subseteq Nat
    /\ UserRole \in [Users -> Roles] /\ UserCollege \in [Users -> Colleges \cup {None}]
    /\ Policy \in {"WEIGHTED_PER_TEST", "EQUAL"} /\ None \notin Users
    /\ IsFiniteSet(Requests) /\ IsFiniteSet(TestCases)
    /\ \A t \in TestCases : t.weight \in Nat

Subs == 1..MaxSubs
Students == {u \in Users : UserRole[u] = "STUDENT"}
JobIds == 1..MaxJobs

VARIABLES env, up,   \* the environment, and whether bootstrap got past it
          open,      \* the students whose attempt is neither terminal nor expired
          room,      \* history: submissions a closed attempt could still get
          rate,      \* Redis coding-rate:action:user, and whether the key has a TTL
          sub,       \* CodingSubmission
          evals,     \* CodingEvaluation, with the cases its execution ran
          runner,    \* RunnerJob and the CodingExecution it started
          answer,    \* StudentAnswer.codingSubmissionRef
          match,     \* CodingSimilarityMatch
          plag,      \* CodingPlagiarismJob
          exec,      \* CodeExecutionJob
          serving, requests, crashes,
          overlapped, torn   \* history: students and submissions, see Overlaps

codingVars == <<env, up, open, room, rate, sub, evals, runner, answer, match, plag,
                exec, serving, requests, crashes, overlapped, torn>>

NoSub == [owner |-> None, source |-> None, final |-> FALSE, status |-> "NONE",
          score |-> 0, tests |-> 0, latest |-> 0, review |-> "NOT_REQUIRED",
          by |-> None, override |-> -1]
NoJob == [sub |-> 0, college |-> None, status |-> "NONE", by |-> None]
NoPlag == [college |-> None, status |-> "NONE", compared |-> {}, matches |-> 0]
NoExec == [college |-> None, user |-> None, status |-> "NONE"]
NoReq == [pc |-> "idle", user |-> None, sub |-> 0, job |-> 0, final |-> FALSE,
          source |-> None, cases |-> {}, version |-> 0, pairs |-> {}]

\* Every table of the coding module holds values of its type.
CodingTypeOK ==
    /\ open \subseteq Students /\ DOMAIN room = Students
    /\ \A i \in Subs : /\ sub[i].owner \in Students \cup {None}
                       /\ sub[i].score \in 0..Marks
                       /\ sub[i].latest \in {0} \cup JobIds
    /\ \A j \in JobIds : runner[j].sub \in {0} \cup Subs
    /\ \A e \in evals : e.sub \in Subs /\ e.version \in Nat /\ e.score \in 0..Marks
    /\ \A s \in Students : answer[s] \in {0} \cup Subs
    /\ \A p \in match : {p.a, p.b} \subseteq Subs
    /\ \A r \in Requests : serving[r].user \in Users \cup {None}

-----------------------------------------------------------------------------
(* Requests. *)

rows == <<sub, evals, runner, answer, match, plag, exec>>
idleRows == <<env, up, open, room, rate>>
Begin(r, u, step) ==
    /\ up /\ serving[r].pc = "idle" /\ requests < MaxRequests
    /\ requests' = requests + 1
    /\ serving' = [serving EXCEPT ![r] = [step EXCEPT !.user = u]]
    /\ UNCHANGED crashes
Quick(u, routes, route) ==
    /\ up /\ requests < MaxRequests /\ RoleAdmitted(routes[route], UserRole[u])
    /\ requests' = requests + 1
    /\ UNCHANGED <<serving, crashes, overlapped, torn>>
Continue(r, step) == serving' = [serving EXCEPT ![r] = step] /\ UNCHANGED <<requests, crashes>>
Finish(r) == Continue(r, NoReq)
At(r, pc) == serving[r].pc = pc
Fresh(table, none, ids) == {i \in ids : table[i] = none
                                /\ \A k \in ids : k < i => table[k] # none}
Judging(i) == {r \in Requests : serving[r].sub = i /\ ~At(r, "answer")}

-----------------------------------------------------------------------------
(* run and submit, up to the stored submission. *)

InFlight(s) == {r \in Requests : serving[r].user = s /\ serving[r].pc \in {"count", "save"}}

StudentCodingContext(u) == u \in open
Language(src) == src.language # "disabled"

\* studentCodingContext and language; dto is validated.  Two submits of one
\* student at once are remembered: the later may be overtaken.
RunOrSubmit(r, u, src, final) ==
    /\ RoleAdmitted(CodingRoutes[IF final THEN "submitCode" ELSE "runCode"], UserRole[u])
    /\ StudentCodingContext(u) /\ Language(src)
    /\ Begin(r, u, [NoReq EXCEPT !.pc = "count", !.source = src, !.final = final])
    /\ overlapped' = overlapped \cup
         {s \in {u} : final /\ \E q \in Requests : serving[q].user = u /\ serving[q].final}
    /\ UNCHANGED <<idleRows, rows, torn>>

\* rateLimit: INCR, and EXPIRE after the first
Count(r) ==
    /\ At(r, "count")
    /\ LET key == <<serving[r].user, serving[r].final>>
       IN /\ rate' = [rate EXCEPT ![key] = @ + 1]
          /\ IF rate[key] + 1 > RateLimit THEN Finish(r)
             ELSE Continue(r, [serving[r] EXCEPT !.pc = "save"])
    /\ UNCHANGED <<env, up, open, room, rows, overlapped, torn>>

\* the rate window of a key ends
WindowEnds(key) ==
    /\ rate[key] > 0 /\ rate' = [rate EXCEPT ![key] = 0]
    /\ UNCHANGED <<env, up, open, room, rows, serving, requests, crashes, overlapped, torn>>

\* saveSubmission: the row, QUEUED, and its first revision; then evaluate
\* begins by looking at the runner's mode
RunnerUsable == /\ RunnerMode(env) # "DISABLED"
                /\ ~(RunnerMode(env) = "MOCK" /\ Value(env, "NODE_ENV") = "production")
PublicCases == {t \in TestCases : t.public /\ t.active}

CasesOf(final) == IF final THEN {t \in TestCases : t.active} ELSE PublicCases

SaveSubmission(r) ==
    /\ At(r, "save")
    /\ \E i \in Fresh(sub, NoSub, Subs) :
          /\ sub' = [sub EXCEPT ![i] = [NoSub EXCEPT !.owner = serving[r].user,
                        !.source = serving[r].source, !.final = serving[r].final, !.status = "QUEUED"]]
          /\ IF RunnerUsable
             THEN Continue(r, [serving[r] EXCEPT !.pc = "judge", !.sub = i,
                                             !.cases = CasesOf(serving[r].final)])
             ELSE Finish(r)
    /\ room' = IF serving[r].user \in open THEN room ELSE [room EXCEPT ![serving[r].user] = @ - 1]
    /\ UNCHANGED <<env, up, open, rate, evals, runner, answer, match, plag, exec, overlapped, torn>>

\* the attempt is submitted, expires or is cancelled meanwhile
CloseAttempt(s) ==
    /\ s \in open /\ open' = open \ {s}
    /\ room' = [room EXCEPT ![s] = Cardinality(InFlight(s))]
    /\ UNCHANGED <<env, up, rate, rows, serving, requests, crashes, overlapped, torn>>

-----------------------------------------------------------------------------
(* evaluate, for a run, a submit or a rejudge. *)

Weight(cases) == MapThenSumSet(LAMBDA t : t.weight, cases)

\* what all cases of an accepted source earn together, in exact arithmetic
Earned(src, cases) ==
    IF src.status # "ACCEPTED" \/ cases = {} THEN 0
    ELSE IF Policy = "WEIGHTED_PER_TEST"
         THEN (Marks * Weight(cases)) \div (IF Weight(cases) = 0 THEN 1 ELSE Weight(cases))
         ELSE Marks
FinalStatus(src, cases) ==
    IF src.status = "ACCEPTED" /\ Earned(src, cases) < Marks
    THEN "PARTIALLY_ACCEPTED" ELSE src.status

\* the runner job and the execution, RUNNING
StartJob(r) ==
    /\ At(r, "judge")
    /\ \E j \in Fresh(runner, NoJob, JobIds) :
          /\ runner' = [runner EXCEPT ![j] = [NoJob EXCEPT !.sub = serving[r].sub,
                  !.college = UserCollege[sub[serving[r].sub].owner], !.status = "RUNNING"]]
          /\ Continue(r, [serving[r] EXCEPT !.pc = "version", !.job = j])
    /\ UNCHANGED <<idleRows, sub, evals, answer, match, plag, exec, overlapped, torn>>

\* the result rows and the finished execution, then the count of evaluations
ReadVersion(r) ==
    /\ At(r, "version")
    /\ Continue(r, [serving[r] EXCEPT !.pc = "evaluation",
             !.version = Cardinality({e \in evals : e.sub = serving[r].sub}) + 1])
    /\ UNCHANGED <<idleRows, rows, overlapped, torn>>

\* the evaluation; (submissionId, version) is unique, so of two judgings that
\* counted alike the second ends here and leaves its job RUNNING
Collides(i, v) == \E e \in evals : e.sub = i /\ e.version = v

CreateEvaluation(r) ==
    /\ At(r, "evaluation")
    /\ IF Collides(serving[r].sub, serving[r].version)
       THEN /\ torn' = torn \cup {serving[r].sub} /\ evals' = evals /\ Finish(r)
       ELSE /\ evals' = evals \cup {[sub |-> serving[r].sub, version |-> serving[r].version,
                  job |-> serving[r].job, score |-> Earned(serving[r].source, serving[r].cases),
                  cases |-> serving[r].cases, staff |-> UserRole[serving[r].user] # "STUDENT"]}
            /\ torn' = torn
            /\ Continue(r, [serving[r] EXCEPT !.pc = "update"])
    /\ UNCHANGED <<idleRows, sub, runner, answer, match, plag, exec, overlapped>>

UpdateSubmission(r) ==
    /\ At(r, "update")
    /\ sub' = [sub EXCEPT ![serving[r].sub] = [@ EXCEPT
             !.status = FinalStatus(serving[r].source, serving[r].cases),
             !.score = Earned(serving[r].source, serving[r].cases),
             !.tests = Cardinality(serving[r].cases), !.latest = serving[r].job]]
    /\ Continue(r, [serving[r] EXCEPT !.pc = "complete"])
    /\ UNCHANGED <<idleRows, evals, runner, answer, match, plag, exec, overlapped, torn>>

\* the job is COMPLETED whatever it is now; only a submit goes on to the answer

\* Mutant: a practice run becomes the answer too.
MutCompleteJob(r) ==
    /\ At(r, "complete")
    /\ runner' = [runner EXCEPT ![serving[r].job].status = "COMPLETED"]
    /\ IF UserRole[serving[r].user] = "STUDENT"
       THEN Continue(r, [serving[r] EXCEPT !.pc = "answer"]) ELSE Finish(r)
    /\ UNCHANGED <<idleRows, sub, evals, answer, match, plag, exec, overlapped, torn>>
CompleteJob(r) ==
    /\ At(r, "complete")
    /\ runner' = [runner EXCEPT ![serving[r].job].status = "COMPLETED"]
    /\ IF serving[r].final /\ UserRole[serving[r].user] = "STUDENT"
       THEN Continue(r, [serving[r] EXCEPT !.pc = "answer"]) ELSE Finish(r)
    /\ UNCHANGED <<idleRows, sub, evals, answer, match, plag, exec, overlapped, torn>>

UpsertAnswer(r) ==
    /\ At(r, "answer")
    /\ answer' = [answer EXCEPT ![serving[r].user] = serving[r].sub]
    /\ Finish(r)
    /\ UNCHANGED <<idleRows, sub, evals, runner, match, plag, exec, overlapped, torn>>

-----------------------------------------------------------------------------
(* Staff. *)

ScopedSubmission(u, i) == sub[i] # NoSub
    /\ (UserRole[u] # "SUPER_ADMIN" => UserCollege[sub[i].owner] = UserCollege[u])

\* rejudge: as final, and on every test case, inactive ones too
Rejudge(r, u, i) ==
    /\ RoleAdmitted(CodingRoutes["rejudge"], UserRole[u]) /\ ScopedSubmission(u, i)
    /\ RunnerUsable
    /\ Begin(r, u, [NoReq EXCEPT !.pc = "judge", !.sub = i, !.final = TRUE,
                                 !.source = sub[i].source, !.cases = TestCases])
    /\ torn' = IF Judging(i) = {} THEN torn ELSE torn \cup {i}
    /\ UNCHANGED <<idleRows, rows, overlapped>>

\* setReviewStatus; a CodingReviewTask records it
SetReviewStatus(u, i, status) ==
    /\ Quick(u, CodingRoutes, IF status = "HELD" THEN "hold" ELSE "release")
    /\ ScopedSubmission(u, i)
    /\ sub' = [sub EXCEPT ![i].review = status, ![i].by = u]
    /\ UNCHANGED <<idleRows, evals, runner, answer, match, plag, exec>>

Capped(score) == IF score < Marks THEN score ELSE Marks
OverrideScore(u, i, score) ==
    /\ Quick(u, CodingRoutes, "manualScore") /\ ScopedSubmission(u, i)
    /\ sub' = [sub EXCEPT ![i] = [@ EXCEPT !.score = Capped(score), !.review = "OVERRIDDEN",
                                           !.by = u, !.override = Capped(score)]]
    /\ UNCHANGED <<idleRows, evals, runner, answer, match, plag, exec>>

\* job, then cancelJob: any status becomes CANCELLED
JobInScope(u, j) ==
    /\ runner[j] # NoJob
    /\ UserRole[u] # "SUPER_ADMIN" => runner[j].college = UserCollege[u]
    /\ UserRole[u] = "STUDENT" => runner[j].sub # 0 /\ sub[runner[j].sub].owner = u
CancelJob(u, j) ==
    /\ Quick(u, CodingRoutes, "cancelJob") /\ JobInScope(u, j)
    /\ runner' = [runner EXCEPT ![j].status = "CANCELLED", ![j].by = u]
    /\ UNCHANGED <<idleRows, sub, evals, answer, match, plag, exec>>

\* rejudgeAssessment records a finished job and judges nothing
RejudgeAssessment(u) ==
    /\ Quick(u, CodingRoutes, "rejudgeAssessment")
    /\ \E j \in Fresh(runner, NoJob, JobIds) :
          runner' = [runner EXCEPT ![j] = [NoJob EXCEPT !.status = "COMPLETED",
              !.college = IF UserRole[u] = "SUPER_ADMIN" THEN None ELSE UserCollege[u]]]
    /\ UNCHANGED <<idleRows, sub, evals, answer, match, plag, exec>>

-----------------------------------------------------------------------------
(* Plagiarism. *)

\* userCollege: a platform user without a college searches the college ""
UserCollegeKnown(u) == UserCollege[u] # None \/ UserRole[u] = "SUPER_ADMIN"

\* similarity: shared tokens over all tokens, at least 0.7; equal sources match
Similar(x, y) == x = y \/ 10 * Cardinality(x.tokens \cap y.tokens)
                            >= 7 * (IF x.tokens \cup y.tokens = {} THEN 1
                                    ELSE Cardinality(x.tokens \cup y.tokens))

Matching(is) == {p \in is \X is : p[1] < p[2]
    /\ sub[p[1]].source.language = sub[p[2]].source.language
    /\ Similar(sub[p[1]].source, sub[p[2]].source)}

\* createPlagiarismJob: the job, the (at most 50) submissions of the college
CreatePlagiarismJob(r, u) ==
    /\ RoleAdmitted(CodingRoutes["createPlagiarismJob"], UserRole[u]) /\ UserCollegeKnown(u)
    /\ plag = NoPlag
    /\ LET is == {i \in Subs : sub[i] # NoSub /\ UserCollege[sub[i].owner] = UserCollege[u]}
       IN /\ Begin(r, u, [NoReq EXCEPT !.pc = "match", !.pairs = Matching(is)])
          /\ plag' = [college |-> UserCollege[u], status |-> "RUNNING", compared |-> is,
                      matches |-> Cardinality(Matching(is))]
    /\ UNCHANGED <<idleRows, sub, evals, runner, answer, match, exec, overlapped, torn>>

\* one match row after the other, then COMPLETED with the count
RecordMatch(r) ==
    /\ At(r, "match")
    /\ IF serving[r].pairs = {}
       THEN plag' = [plag EXCEPT !.status = "COMPLETED"] /\ match' = match /\ Finish(r)
       ELSE /\ LET p == CHOOSE p \in serving[r].pairs : TRUE
               IN /\ match' = match \cup {[a |-> p[1], b |-> p[2], status |-> "UNREVIEWED",
                                           by |-> None]}
                  /\ Continue(r, [serving[r] EXCEPT !.pairs = @ \ {p}])
            /\ plag' = plag
    /\ UNCHANGED <<idleRows, sub, evals, runner, answer, exec, overlapped, torn>>

MatchStatus(decision) == CASE decision = "RELEASED" -> "CLEARED"
                           [] decision = "INVALIDATED" -> "CONFIRMED"
                           [] OTHER -> "SUSPICIOUS"
ReviewPlagiarismMatch(u, p, decision) ==
    /\ Quick(u, CodingRoutes, "reviewPlagiarism")
    /\ p \in match /\ plag.college = UserCollege[u]
    /\ match' = (match \ {p}) \cup {[p EXCEPT !.status = MatchStatus(decision), !.by = u]}
    /\ UNCHANGED <<idleRows, sub, evals, runner, answer, plag, exec>>

-----------------------------------------------------------------------------
(* CodeRunnerService: a job that nothing ever runs unless it is a mock. *)

RunnerSubmit(u) ==
    /\ Quick(u, RunnerRoutes, "submit") /\ RunnerUsable
    /\ \E x \in Fresh(exec, NoExec, 1..MaxRunner) :
          exec' = [exec EXCEPT ![x] = [college |-> UserCollege[u], user |-> u,
                      status |-> IF RunnerMode(env) = "MOCK" THEN "ACCEPTED" ELSE "PENDING"]]
    /\ UNCHANGED <<idleRows, sub, evals, runner, answer, match, plag>>

\* the process stops: requests end where they are
Crash ==
    /\ crashes < MaxCrashes /\ crashes' = crashes + 1
    /\ torn' = torn \cup {serving[r].sub : r \in {q \in Requests : serving[q].sub # 0}}
    /\ serving' = [r \in Requests |-> NoReq]
    /\ UNCHANGED <<env, up, open, room, rate, rows, requests, overlapped>>

-----------------------------------------------------------------------------

CodingInit ==
    /\ env \in Environments /\ up = (Issues(env) = {})
    /\ open = Students /\ room = [s \in Students |-> 0]
    /\ rate = [k \in Students \X BOOLEAN |-> 0]
    /\ sub = [i \in Subs |-> NoSub] /\ evals = {}
    /\ runner = [j \in JobIds |-> NoJob] /\ answer = [s \in Students |-> 0]
    /\ match = {} /\ plag = NoPlag /\ exec = [x \in 1..MaxRunner |-> NoExec]
    /\ serving = [r \in Requests |-> NoReq] /\ requests = 0 /\ crashes = 0
    /\ overlapped = {} /\ torn = {}

StudentNext(u) ==
    \/ \E r \in Requests, src \in Sources, final \in BOOLEAN : RunOrSubmit(r, u, src, final)
    \/ \E j \in JobIds : CancelJob(u, j)
    \/ RunnerSubmit(u)
    \/ u \in Students /\ CloseAttempt(u)
StaffNext(u) ==
    \/ \E i \in Subs, status \in {"HELD", "RELEASED"} : SetReviewStatus(u, i, status)
    \/ \E i \in Subs, score \in Overrides : OverrideScore(u, i, score)
    \/ RejudgeAssessment(u)
    \/ \E r \in Requests : CreatePlagiarismJob(r, u)
    \/ \E p \in match, d \in {"RELEASED", "INVALIDATED", "HELD"} : ReviewPlagiarismMatch(u, p, d)
RejudgeNext(u) == \E r \in Requests, i \in Subs : Rejudge(r, u, i)
JudgeNext == \E r \in Requests :
    \/ Count(r) \/ SaveSubmission(r) \/ StartJob(r) \/ ReadVersion(r)
    \/ CreateEvaluation(r) \/ UpdateSubmission(r) \/ CompleteJob(r) \/ UpsertAnswer(r)
    \/ RecordMatch(r)
SystemNext == JudgeNext \/ Crash \/ \E k \in DOMAIN rate : WindowEnds(k)
CodingNext == SystemNext \/ \E u \in Users : StudentNext(u) \/ StaffNext(u) \/ RejudgeNext(u)
CodingSpec == CodingInit /\ [][CodingNext]_codingVars

-----------------------------------------------------------------------------
(* Properties. *)

\* "latest submission counts" (the submit response): unless two submits of a
\* student overlapped or a crash cut one short, the answer refers to the
\* student's newest final submission whose submit has ended.
LatestCounts == \A s \in Students \ overlapped :
    LET done == {i \in Subs : sub[i].owner = s /\ sub[i].final /\ sub[i].latest # 0
                     /\ i \notin torn
                     /\ ~\E r \in Requests : serving[r].user = s /\ serving[r].sub = i}
    IN done # {} => answer[s] >= Max(done) /\ sub[answer[s]].owner = s
                    /\ sub[answer[s]].final

\* studentCodingContext is checked before the rate limit and the row: after an
\* attempt has closed, no more submissions appear than requests it had let in.
LateBounded == \A s \in Students \ open : room[s] >= 0

\* A submission that no two judgings touched at once and no crash cut short
\* shows its newest evaluation, or a score that staff set over it.
ScoreSource == \A i \in Subs : sub[i] # NoSub /\ i \notin torn /\ Judging(i) = {} =>
    LET es == {e \in evals : e.sub = i}
        newest == {e \in es : \A d \in es : d.version <= e.version}
    IN \A e \in newest : /\ sub[i].latest = e.job /\ sub[i].tests = Cardinality(e.cases)
                         /\ sub[i].score \in {e.score, sub[i].override}

\* The versions of a submission's evaluations are 1..n, whatever overlaps.
Versions == \A i \in Subs :
    LET es == {e \in evals : e.sub = i}
    IN {e.version : e \in es} = 1..Cardinality(es)

\* A runner job shown as RUNNING is being judged by a request, unless a version
\* collision or a crash abandoned it.
JobAccounted == \A j \in JobIds : runner[j].status = "RUNNING" =>
    runner[j].sub \in torn \/ \E r \in Requests : serving[r].job = j

\* A student learns the outcome of hidden cases only by a final submission, or
\* when staff rejudged the run.
HiddenOnlyFinal == \A e \in evals :
    sub[e.sub].final \/ e.staff \/ \A t \in e.cases : t.public

\* A completed comparison has a row for exactly the pairs of submissions of its
\* college that are in one language and similar, and its count is theirs.
MatchesAccounted == plag.status = "COMPLETED" =>
    /\ Cardinality(match) = plag.matches
    /\ {{p.a, p.b} : p \in match} = {{q[1], q[2]} : q \in
         {q \in plag.compared \X plag.compared : q[1] # q[2]
            /\ sub[q[1]].source.language = sub[q[2]].source.language
            /\ Similar(sub[q[1]].source, sub[q[2]].source)}}

\* Submissions, evaluations, jobs and answers agree however judgings overlap and
\* whenever the attempt closes or the process restarts.
JudgingConsistent ==
    /\ CodingTypeOK
    /\ LatestCounts
    /\ LateBounded
    /\ ScoreSource
    /\ Versions
    /\ JobAccounted
    /\ HiddenOnlyFinal
    /\ MatchesAccounted

\* The three programs that judge the environment agree on production: whatever
\* by either variable is production never shows a mocked result.
MockOutsideProduction ==
    RunnerMode(env) = "MOCK" /\ (evals # {} \/ \E x \in DOMAIN exec : exec[x].status = "ACCEPTED")
        => "production" \notin {Value(env, "NODE_ENV"), Value(env, "APP_ENV")}

\* The variables for which startup may refuse what the gate has passed: those the
\* gate does not look at, a default it does not know (unset providers), a spelling
\* of MOCK, a short secret, a malformed URL, a value outside of its enumeration.
GateBlind(e) ==
    {"INTERNAL_SERVICE_TOKEN", "SWAGGER_ENABLED", "CODE_RUNNER_URL", "AZURE_OPENAI_ENDPOINT",
     "EMAIL_FROM"}
    \cup {v \in {"EMAIL_PROVIDER", "STORAGE_PROVIDER", "AI_PROVIDER"} : v \notin DOMAIN e}
    \cup {v \in {"CODE_RUNNER_MODE"} : Raw(e, v) = "mock"}
    \cup {v \in {"JWT_ACCESS_SECRET", "JWT_REFRESH_SECRET"} : Raw(e, v) = "short"}
    \cup {v \in {"API_URL", "FRONTEND_URL"} : Raw(e, v) = "not a URL"}
    \cup {v \in DOMAIN Admitted : Value(e, v) \notin Admitted[v]}

\* Startup refuses an environment that passes the release gate for nothing else.
GateCoversStartup == GateFails(env) = {} => Issues(env) \subseteq GateBlind(env)

\* A process that started as APP_ENV production can be unready only for want of
\* telemetry or backups.
ReadyExplained == up => ReadinessFails(env) \subseteq {"monitoring", "backups"}

\* In staging and production the page that a password reset mail opens is of an
\* origin the API answers with credentials, unless WEB_ORIGIN is all there is
\* and holds blanks.
ResetLinkServed == up /\ Strict(env) /\ ResetAddress(env) # " " =>
    NormalizeOrigin(ResetAddress(env)) \in CorsOrigins(env)

\* The provider status that administrators see says configured exactly when a
\* generation would reach the provider, but for a provider key set to nothing
\* beside a filled AI_API_KEY.
AiStatusTruthful == up => (AiConfigured(env) <=> AiUsable(env))
    \/ (Keyed(env) /\ KeyOf(env) \in DOMAIN env /\ Lacks(env, KeyOf(env)) /\ ~Lacks(env, "AI_API_KEY"))

\* The places that decide what production is, and what a setting is worth, agree
\* about every environment.
EnvironmentsAgree ==
    /\ MockOutsideProduction
    /\ GateCoversStartup
    /\ ReadyExplained
    /\ ResetLinkServed
    /\ AiStatusTruthful
=============================================================================
