------------------------------ MODULE Evidence ------------------------------
(***************************************************************************)
(* Proctoring policies, evidence, reviews and risk (the part of              *)
(* ProctoringService that ProctoringSession leaves out): which policy a      *)
(* session takes its snapshot from, evidence stored with the snapshot's      *)
(* retention, deletion by hand and by retention jobs, the reviews that       *)
(* protect evidence, and the risk score.  Every statement that another       *)
(* request can come before is a step of its own.  A policy is its scope and  *)
(* its evidenceRetentionDays; an event is its riskDelta.                     *)
(***************************************************************************)
EXTENDS Integers, Sequences, FiniteSets, FiniteSetsExt, AccessControl

CONSTANTS Users, UserRole, UserCollege,   \* role and college of each user
          Colleges, None,
          Sessions, SessionCollege, SessionStudent,
          SessionAssessment,  \* an assessment id; 0 stands for null
          Assessments,        \* positive numbers, in the order of their ids
          Days,           \* evidenceRetentionDays a policy may have
          DefaultDays,    \* 30
          RiskDeltas,     \* the risk weights of events
          RiskCap,        \* 100
          Batch,          \* rows a retention job takes (50)
          MaxPolicies, MaxEvidence, MaxJobs,  \* bounds: rows of each table
          Requests,       \* slots for requests in flight
          MaxRequests,    \* bound: requests started and clock ticks
          MaxCrashes      \* bound: restarts of the API process

Policies == 1..MaxPolicies
Items == 1..MaxEvidence
Jobs == 1..MaxJobs

ASSUME EvidenceAssumption ==
    /\ UserRole \in [Users -> Roles] /\ UserCollege \in [Users -> Colleges \cup {None}]
    /\ SessionCollege \in [Sessions -> Colleges] /\ SessionStudent \in [Sessions -> Users]
    /\ None \notin Sessions \cup Colleges
    /\ SessionAssessment \in [Sessions -> Assessments] /\ Assessments \subseteq Nat \ {0}
    /\ Days \subseteq Nat \ {0} /\ DefaultDays \in Days /\ RiskDeltas \subseteq Nat
    /\ {RiskCap, Batch, MaxPolicies, MaxEvidence, MaxJobs, MaxRequests, MaxCrashes} \subseteq Nat

VARIABLES policy,
          recent,      \* policy ids by updatedAt, the latest last
          snapshot,    \* evidenceRetentionDays of a session's policySnapshot; 0: no session row
          evidence,
          review,      \* ProctoringReview.status by session
          riskSum,     \* the sum of a session's event weights
          risk,        \* ProctoringSession.riskScore
          job,         \* ProctoringRetentionJob rows
          req,         \* the handlers in flight
          doubled,     \* history: colleges that may have got two default policies
          unsettled,   \* history: sessions with overlapping or cut-off recalculations
          requests, crashes

policyRows == <<policy, recent, snapshot, doubled>>
riskRows == <<riskSum, risk, unsettled>>
evidenceVars == <<policyRows, riskRows, evidence, review, job, req, requests, crashes>>

ActiveReview == {"PENDING", "IN_REVIEW", "NEEDS_FOLLOW_UP"}
ReviewOutcomes == {"CLEARED", "POLICY_VIOLATION", "INVALIDATED"}
NoPolicy == [college |-> None, assessment |-> 0, default |-> FALSE,
             active |-> FALSE, days |-> 0]
NoEvidence == [session |-> None, hold |-> FALSE, expired |-> FALSE, days |-> 0,
               stored |-> FALSE]
NoJob == [status |-> "NONE", college |-> None, count |-> 0, removed |-> 0,
          raced |-> FALSE, orphan |-> FALSE]
\* after: the evidence put on hold, reopened: the sessions whose review became
\* active, since the request read them
NoReq == [op |-> "idle", user |-> None, session |-> None, days |-> 0, sum |-> 0,
          ids |-> {}, job |-> 0, after |-> {}, reopened |-> {}, then |-> "", data |-> None]

\* Every column holds a value of its type, and a policy row that exists is in
\* the update order exactly once (policy, evidence, review and job rows).
EvidenceTypeOK ==
    /\ policy \in [Policies -> [college : Colleges \cup {None},
           assessment : Assessments \cup {0}, default : BOOLEAN, active : BOOLEAN,
           days : Days \cup {0}]]
    /\ {recent[i] : i \in DOMAIN recent} = {p \in Policies : policy[p].days # 0}
    /\ Len(recent) = Cardinality({p \in Policies : policy[p].days # 0})
    /\ snapshot \in [Sessions -> Days \cup {0}]
    /\ \A e \in Items : evidence[e].stored => evidence[e].session \in Sessions
    /\ review \in [Sessions -> ActiveReview \cup ReviewOutcomes \cup {"NONE"}]
    /\ riskSum \in [Sessions -> Nat] /\ risk \in [Sessions -> 0..RiskCap]
    /\ \A j \in Jobs : job[j].status \in {"NONE", "PROCESSING", "COMPLETED"}
    /\ DOMAIN req = Requests /\ doubled \subseteq Colleges /\ unsettled \subseteq Sessions
    /\ requests \in 0..MaxRequests /\ crashes \in 0..MaxCrashes

-----------------------------------------------------------------------------
(* Requests. *)

Budget == requests < MaxRequests /\ requests' = requests + 1
Call(r, u, routes, route) ==
    /\ Budget /\ req[r] = NoReq /\ RoleAdmitted(routes[route], UserRole[u])
Go(r, new) == req' = [req EXCEPT ![r] = new]
Step(r, op) == req' = [req EXCEPT ![r].op = op]
Done(r) == req' = [req EXCEPT ![r] = NoReq]

\* scopedSession and scopedEvidence: the tenant's own rows, a student's own rows
InScope(u, s) ==
    /\ UserRole[u] # "SUPER_ADMIN" => SessionCollege[s] = UserCollege[u]
    /\ UserRole[u] = "STUDENT" => SessionStudent[s] = u

\* studentAttempt and latestAttempt
OwnAttempt(u, s) == SessionStudent[s] = u /\ SessionCollege[s] = UserCollege[u]

-----------------------------------------------------------------------------
(* Policies. *)

Rows(T, free) == {i \in DOMAIN T : T[i] # free}
Free(T, free) == Min(DOMAIN T \ Rows(T, free))
HasFree(T, free) == DOMAIN T # Rows(T, free)
UpdatedAt(p) == CHOOSE i \in DOMAIN recent : recent[i] = p
Without(p) == IF \A i \in DOMAIN recent : recent[i] # p THEN recent
              ELSE [i \in 1..(Len(recent) - 1) |-> IF i < UpdatedAt(p) THEN recent[i] ELSE recent[i + 1]]
Touch(p) == recent' = Append(Without(p), p)

\* the where clause of resolvePolicy
Candidates(s) == {p \in Rows(policy, NoPolicy) :
    /\ policy[p].active
    /\ \/ policy[p].assessment = SessionAssessment[s]
       \/ policy[p].default /\ policy[p].college \in {SessionCollege[s], None}}

\* orderBy assessmentId desc (PostgreSQL puts null first), isDefault desc,
\* updatedAt desc
Before(p, q) ==
    LET a == policy[p].assessment  b == policy[q].assessment IN
    \/ a # b /\ (a = 0 \/ (b # 0 /\ a > b))
    \/ a = b /\ policy[p].default /\ ~policy[q].default
    \/ a = b /\ (policy[p].default <=> policy[q].default) /\ UpdatedAt(p) > UpdatedAt(q)

Chosen(s) == CHOOSE p \in Candidates(s) : \A q \in Candidates(s) \ {p} : Before(p, q)

\* resolvePolicy, the query: a found policy goes to the upsert, and none to the
\* creation of the strict default
ResolvePolicy(r, u, s, then) ==
    IF Candidates(s) # {}
    THEN Go(r, [NoReq EXCEPT !.op = "upsert", !.user = u, !.session = s, !.then = then,
                !.days = policy[Chosen(s)].days])
    ELSE Go(r, [NoReq EXCEPT !.op = "default", !.user = u, !.session = s, !.then = then])

\* resolvePolicy, the creation
CreateDefault(r) ==
    LET s == req[r].session  c == SessionCollege[s] IN
    /\ req[r].op = "default" /\ HasFree(policy, NoPolicy)
    /\ LET p == Free(policy, NoPolicy) IN
         /\ policy' = [policy EXCEPT ![p] = [college |-> c, assessment |-> 0,
                default |-> TRUE, active |-> TRUE, days |-> DefaultDays]]
         /\ Touch(p)
    /\ req' = [req EXCEPT ![r].op = "upsert", ![r].days = DefaultDays]
    /\ doubled' = IF \E q \in Requests \ {r} :
                      req[q].op = "default" /\ SessionCollege[req[q].session] = c
                  THEN doubled \cup {c} ELSE doubled
    /\ UNCHANGED <<snapshot, riskRows, evidence, review, job, requests, crashes>>

\* upsertSession: only the creating upsert writes the snapshot; the row it
\* returns is what the handler goes on with
UpsertSession(r) ==
    LET s == req[r].session
        days == IF snapshot[s] = 0 THEN req[r].days ELSE snapshot[s] IN
    /\ req[r].op = "upsert"
    /\ snapshot' = [snapshot EXCEPT ![s] = days]
    /\ IF req[r].then = "evidence"
       THEN req' = [req EXCEPT ![r].op = "store", ![r].days = days]
       ELSE Done(r)
    /\ UNCHANGED <<policy, recent, doubled, riskRows, evidence, review, job, requests, crashes>>

\* consent, systemCheck and start resolve a policy whether or not there is a session
StartSession(r, u, s) ==
    /\ Call(r, u, ProctoredRoutes, "startSession") /\ OwnAttempt(u, s)
    /\ ResolvePolicy(r, u, s, "")
    /\ UNCHANGED <<policyRows, riskRows, evidence, review, job, crashes>>

\* createPolicy with policyData: never a default; a platform administrator's
\* policy belongs to no college, and the assessment is taken as sent
CreatePolicy(r, u, a, d) ==
    /\ Call(r, u, InvigilatorRoutes, "createPolicy") /\ HasFree(policy, NoPolicy)
    /\ LET p == Free(policy, NoPolicy) IN
         /\ policy' = [policy EXCEPT ![p] = [college |->
                IF UserRole[u] = "SUPER_ADMIN" THEN None ELSE UserCollege[u],
                assessment |-> a, default |-> FALSE, active |-> TRUE, days |-> d]]
         /\ Touch(p)
    /\ UNCHANGED <<snapshot, doubled, riskRows, evidence, review, job, req, crashes>>

\* policyScope: a college's policies and the ones of no college
PolicyInScope(u, p) == UserRole[u] # "SUPER_ADMIN" =>
    policy[p].college \in {UserCollege[u], None}

\* updatePolicy (policyUpdateData leaves absent fields alone) and setPolicyActive
ChangePolicy(r, u, p, new) ==
    /\ p \in Rows(policy, NoPolicy) /\ PolicyInScope(u, p) /\ new # policy[p]
    /\ policy' = [policy EXCEPT ![p] = new] /\ Touch(p)
    /\ UNCHANGED <<snapshot, riskRows, evidence, review, job, req, crashes>>
UpdatePolicy(r, u, p, a, d) ==
    /\ Call(r, u, InvigilatorRoutes, "updatePolicy")
    /\ ChangePolicy(r, u, p, [policy[p] EXCEPT !.assessment = a, !.days = d])
    /\ UNCHANGED doubled
SetPolicyActive(r, u, p, active) ==
    /\ Call(r, u, InvigilatorRoutes, "activatePolicy")
    /\ ChangePolicy(r, u, p, [policy[p] EXCEPT !.active = active])
    /\ doubled' = IF active THEN doubled \cup ({policy[p].college} \ {None}) ELSE doubled

-----------------------------------------------------------------------------
(* Evidence. *)

\* uploadEvidence: ensureSession, which resolves a policy when there is no session
UploadEvidence(r, u, s) ==
    /\ Call(r, u, ProctoredRoutes, "uploadEvidence") /\ OwnAttempt(u, s)
    /\ IF snapshot[s] # 0
       THEN Go(r, [NoReq EXCEPT !.op = "store", !.user = u, !.session = s, !.days = snapshot[s]])
       ELSE ResolvePolicy(r, u, s, "evidence")
    /\ UNCHANGED <<policyRows, riskRows, evidence, review, job, crashes>>

\* ... validateEvidence and the row with its retentionDate
StoreEvidence(r, valid) ==
    /\ req[r].op = "store" /\ HasFree(evidence, NoEvidence) /\ Done(r)
    /\ evidence' = IF ~valid THEN evidence
                   ELSE [evidence EXCEPT ![Free(evidence, NoEvidence)] =
                       [session |-> req[r].session, hold |-> FALSE, expired |-> FALSE,
                        days |-> req[r].days, stored |-> TRUE]]
    /\ UNCHANGED <<policyRows, riskRows, review, job, requests, crashes>>

\* the row's expiresAt goes by
Expire(e) ==
    /\ Budget /\ evidence[e].stored /\ ~evidence[e].expired
    /\ evidence' = [evidence EXCEPT ![e].expired = TRUE]
    /\ UNCHANGED <<policyRows, riskRows, review, job, req, crashes>>

\* legalHold is read here and set by nobody: an operator writes the column
SetHold(e, hold) ==
    /\ Budget /\ evidence[e].stored /\ evidence[e].hold # hold
    /\ evidence' = [evidence EXCEPT ![e].hold = hold]
    /\ req' = [r \in Requests |-> IF e \in req[r].ids
                 THEN [req[r] EXCEPT !.after = @ \cup {e}] ELSE req[r]]
    /\ UNCHANGED <<policyRows, riskRows, review, job, crashes>>

\* rows leave; other requests that had them in their lists are overtaken
RemoveRows(ids) == evidence' = [e \in Items |->
    IF e \in ids THEN [evidence[e] EXCEPT !.stored = FALSE] ELSE evidence[e]]
Raced(j, ids) == {k \in Jobs \ {j} : \E q \in Requests :
    req[q].job = k /\ req[q].ids \cap ids # {}}

\* deleteEvidence: the row is read, a held one refused ...
DeleteEvidence(r, u, e) ==
    /\ Call(r, u, InvigilatorRoutes, "deleteEvidence") /\ evidence[e].stored
    /\ InScope(u, evidence[e].session) /\ ~evidence[e].hold
    /\ Go(r, [NoReq EXCEPT !.op = "delete", !.user = u, !.ids = {e}])
    /\ UNCHANGED <<policyRows, riskRows, evidence, review, job, crashes>>

\* ... and deleted
DeleteRow(r) ==
    /\ req[r].op = "delete" /\ RemoveRows(req[r].ids) /\ Done(r)
    /\ job' = [j \in Jobs |-> IF j \in Raced(0, req[r].ids)
                 THEN [job[j] EXCEPT !.raced = TRUE] ELSE job[j]]
    /\ UNCHANGED <<policyRows, riskRows, review, requests, crashes>>

\* retention, in its statements: the job row (scopeCollege refuses users of no college)
Retention(r, u) ==
    /\ Call(r, u, InvigilatorRoutes, "runRetention") /\ HasFree(job, NoJob)
    /\ UserRole[u] # "SUPER_ADMIN" /\ UserCollege[u] # None
    /\ LET j == Free(job, NoJob) IN
         /\ job' = [job EXCEPT ![j].status = "PROCESSING", ![j].college = UserCollege[u]]
         /\ Go(r, [NoReq EXCEPT !.op = "select", !.user = u, !.job = j])
    /\ UNCHANGED <<policyRows, riskRows, evidence, review, crashes>>

Removable(c) == {e \in Items : LET v == evidence[e] IN
    v.stored /\ v.expired /\ ~v.hold /\ SessionCollege[v.session] = c}

\* at most Batch expired rows that are not held, in no order
RetentionSelect(r) ==
    /\ req[r].op = "select"
    /\ LET all == Removable(UserCollege[req[r].user]) IN
       \E ids \in kSubset(Min({Batch, Cardinality(all)}), all) :
           req' = [req EXCEPT ![r].op = "reviews", ![r].ids = ids]
    /\ UNCHANGED <<policyRows, riskRows, evidence, review, job, requests, crashes>>

\* Mutant: a review that needs follow-up does not count as active.
MutRetentionReviews(r) ==
    /\ req[r].op = "reviews"
    /\ req' = [req EXCEPT ![r].op = "remove", ![r].ids =
           {e \in @ : review[evidence[e].session] \notin {"PENDING", "IN_REVIEW"}}]
    /\ UNCHANGED <<policyRows, riskRows, evidence, review, job, requests, crashes>>

\* the ones of sessions under active review are left out
RetentionReviews(r) ==
    /\ req[r].op = "reviews"
    /\ req' = [req EXCEPT ![r].op = "remove", ![r].ids =
           {e \in @ : review[evidence[e].session] \notin ActiveReview}]
    /\ UNCHANGED <<policyRows, riskRows, evidence, review, job, requests, crashes>>

RetentionRemove(r) ==
    LET ids == {e \in req[r].ids : evidence[e].stored}  j == req[r].job IN
    /\ req[r].op = "remove" /\ RemoveRows(ids) /\ Step(r, "count")
    /\ job' = [k \in Jobs |-> CASE k = j -> [job[k] EXCEPT !.removed = Cardinality(ids)]
                                [] k \in Raced(j, ids) -> [job[k] EXCEPT !.raced = TRUE]
                                [] OTHER -> job[k]]
    /\ UNCHANGED <<policyRows, riskRows, review, requests, crashes>>

RetentionDone(r) ==
    /\ req[r].op = "count" /\ Done(r)
    /\ job' = [job EXCEPT ![req[r].job].status = "COMPLETED",
                          ![req[r].job].count = Cardinality(req[r].ids)]
    /\ UNCHANGED <<policyRows, riskRows, evidence, review, requests, crashes>>

-----------------------------------------------------------------------------
(* Reviews and risk. *)

\* a review becomes status; requests past their read of the reviews are overtaken
SetReview(r, s, status, new) ==
    /\ review' = [review EXCEPT ![s] = status]
    /\ req' = [q \in Requests |->
          CASE q = r -> new
            [] req[q].op = "remove" /\ status \in ActiveReview ->
                 [req[q] EXCEPT !.reopened = @ \cup {s}]
            [] OTHER -> req[q]]

\* flag: the session is marked, and ensureReview puts the review (back) to PENDING
Flag(r, u, s) ==
    /\ Call(r, u, InvigilatorRoutes, "flag") /\ snapshot[s] # 0 /\ InScope(u, s)
    /\ Go(r, [NoReq EXCEPT !.op = "flag", !.user = u, !.session = s])
    /\ UNCHANGED <<policyRows, riskRows, evidence, review, job, crashes>>
FlagReview(r) ==
    LET s == req[r].session IN
    /\ req[r].op = "flag"
    /\ SetReview(r, s, "PENDING", [NoReq EXCEPT !.op = "record", !.user = req[r].user, !.session = s])
    /\ UNCHANGED <<policyRows, riskRows, evidence, job, requests, crashes>>

\* decide: ensureReview first, whatever the review's status was ...
Decide(r, u, s, decision) ==
    /\ Call(r, u, InvigilatorRoutes, "decideReview") /\ snapshot[s] # 0 /\ InScope(u, s)
    /\ SetReview(r, s, "PENDING", [NoReq EXCEPT !.op = "decide", !.user = u, !.session = s,
                                   !.data = decision])
    /\ UNCHANGED <<policyRows, riskRows, evidence, job, crashes>>

\* ... and then the decision
DecideWrite(r) ==
    /\ req[r].op = "decide" /\ SetReview(r, req[r].session, req[r].data, NoReq)
    /\ UNCHANGED <<policyRows, riskRows, evidence, job, requests, crashes>>

\* events of a session that exists (the student's browser), and warn: recorded,
\* then the risk is recalculated
Report(r, u, s, warn) ==
    /\ IF warn THEN Call(r, u, InvigilatorRoutes, "warn") /\ InScope(u, s)
               ELSE Call(r, u, ProctoredRoutes, "recordEvents") /\ OwnAttempt(u, s)
    /\ snapshot[s] # 0
    /\ Go(r, [NoReq EXCEPT !.op = "record", !.user = u, !.session = s])
    /\ UNCHANGED <<policyRows, riskRows, evidence, review, job, crashes>>

RecordEvent(r, w) ==
    /\ req[r].op = "record" /\ Step(r, "risk")
    /\ riskSum' = [riskSum EXCEPT ![req[r].session] = @ + w]
    /\ UNCHANGED <<policyRows, risk, unsettled, evidence, review, job, requests, crashes>>

\* recalculateRisk reads the events ...
RiskRead(r) ==
    LET s == req[r].session IN
    /\ req[r].op = "risk"
    /\ req' = [req EXCEPT ![r].op = "score", ![r].sum = riskSum[s]]
    /\ unsettled' = IF \E q \in Requests \ {r} : req[q].op = "score" /\ req[q].session = s
                    THEN unsettled \cup {s} ELSE unsettled
    /\ UNCHANGED <<policyRows, riskSum, risk, evidence, review, job, requests, crashes>>

\* ... and writes the capped sum later
RiskWrite(r) ==
    /\ req[r].op = "score" /\ Done(r)
    /\ risk' = [risk EXCEPT ![req[r].session] = Min({req[r].sum, RiskCap})]
    /\ UNCHANGED <<policyRows, riskSum, unsettled, evidence, review, job, requests, crashes>>

-----------------------------------------------------------------------------
\* the process restarts: every handler in flight is cut off
EvidenceCrash ==
    /\ crashes < MaxCrashes /\ crashes' = crashes + 1
    /\ \E r \in Requests : req[r] # NoReq
    /\ req' = [r \in Requests |-> NoReq]
    /\ job' = [j \in Jobs |-> IF job[j].status = "PROCESSING"
                 THEN [job[j] EXCEPT !.orphan = TRUE] ELSE job[j]]
    /\ unsettled' = unsettled \cup {req[r].session :
           r \in {q \in Requests : req[q].op \in {"risk", "score"}}}
    /\ UNCHANGED <<policyRows, riskSum, risk, evidence, review, requests>>

EvidenceInit ==
    /\ policy = [p \in Policies |-> NoPolicy] /\ recent = <<>>
    /\ snapshot = [s \in Sessions |-> 0] /\ doubled = {}
    /\ evidence = [e \in Items |-> NoEvidence]
    /\ review = [s \in Sessions |-> "NONE"]
    /\ riskSum = [s \in Sessions |-> 0] /\ risk = [s \in Sessions |-> 0] /\ unsettled = {}
    /\ job = [j \in Jobs |-> NoJob]
    /\ req = [r \in Requests |-> NoReq]
    /\ requests = 0 /\ crashes = 0

PolicyNext == \E r \in Requests :
    \/ \E u \in Users, s \in Sessions : StartSession(r, u, s) \/ UploadEvidence(r, u, s)
    \/ CreateDefault(r) \/ UpsertSession(r)
    \/ \E valid \in BOOLEAN : StoreEvidence(r, valid)
    \/ \E u \in Users, a \in Assessments \cup {0}, d \in Days : CreatePolicy(r, u, a, d)
    \/ \E u \in Users, p \in Policies : \E a \in {policy[p].assessment} \cup Assessments :
           \E d \in Days : UpdatePolicy(r, u, p, a, d)
    \/ \E u \in Users, p \in Policies, b \in BOOLEAN : SetPolicyActive(r, u, p, b)

RetentionNext ==
    \/ \E e \in Items, b \in BOOLEAN : SetHold(e, b)
    \/ \E e \in Items : Expire(e)
    \/ \E r \in Requests :
       \/ \E u \in Users : Retention(r, u) \/ \E e \in Items : DeleteEvidence(r, u, e)
       \/ DeleteRow(r) \/ RetentionSelect(r) \/ RetentionReviews(r)
       \/ RetentionRemove(r) \/ RetentionDone(r)

ReviewNext == \E r \in Requests :
    \/ \E u \in Users, s \in Sessions :
       \/ Flag(r, u, s)
       \/ \E d \in ActiveReview \cup ReviewOutcomes : Decide(r, u, s, d)
       \/ \E b \in BOOLEAN : Report(r, u, s, b)
    \/ FlagReview(r) \/ DecideWrite(r)
    \/ \E w \in RiskDeltas : RecordEvent(r, w)
    \/ RiskRead(r) \/ RiskWrite(r)

EvidenceNext == PolicyNext \/ RetentionNext \/ ReviewNext \/ EvidenceCrash
EvidenceSpec == EvidenceInit /\ [][EvidenceNext]_evidenceVars

-----------------------------------------------------------------------------
\* Evidence is kept for as long as the policy snapshot of its session says
\* (docs/EVIDENCE_RETENTION.md), whichever policies the requests that raced to
\* create the session had resolved.
RetentionFollowsSnapshot == \A e \in Items :
    evidence[e].session # None => evidence[e].days = snapshot[evidence[e].session]

\* A college has one active default policy, unless two resolutions found none
\* at the same time or a default was activated again (resolvePolicy).
OneDefault == \A c \in Colleges \ doubled :
    Cardinality({p \in Policies : policy[p].default /\ policy[p].active
                                  /\ policy[p].college = c}) <= 1

\* A row on legal hold is deleted by nobody who could have known: neither by
\* hand nor by a retention job, unless the hold came after that request read
\* the row ("Evidence under legal hold is not deleted.").
HeldKept == \A r \in Requests : req[r].op \in {"delete", "remove"} =>
    \A e \in req[r].ids : evidence[e].hold => e \in req[r].after

\* A retention job deletes no evidence of a session under active review, unless
\* the review became active after the job read the reviews ("Evidence attached
\* to active reviews is not deleted.").
ReviewedKept == \A r \in Requests : req[r].op = "remove" =>
    \A e \in req[r].ids : review[evidence[e].session] \in ActiveReview =>
        evidence[e].session \in req[r].reopened

\* A completed retention job reports the rows it really removed, unless another
\* deletion had some of them meanwhile; an unfinished one is being worked on or
\* was cut off by a restart.
JobTruthful == \A j \in Jobs :
    /\ job[j].status = "COMPLETED" /\ ~job[j].raced => job[j].count = job[j].removed
    /\ job[j].status = "PROCESSING" =>
           job[j].orphan \/ \E r \in Requests : req[r].job = j

\* When no handler of a session is at work its risk score is the capped sum of
\* its events, unless two recalculations overlapped or a restart cut one off.
RiskSettles == \A s \in Sessions \ unsettled :
    (\A r \in Requests : req[r].session # s) => risk[s] = Min({riskSum[s], RiskCap})

\* What is recorded about a session is kept and settles: evidence for as long as
\* its policy snapshot, a hold or a review says, jobs that report what they did,
\* a risk score that is the sum of its events.
RecordsKept ==
    /\ EvidenceTypeOK
    /\ RetentionFollowsSnapshot /\ OneDefault /\ HeldKept /\ ReviewedKept
    /\ JobTruthful /\ RiskSettles
=============================================================================
