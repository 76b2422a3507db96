---------------------------- MODULE AiGeneration ----------------------------
(***************************************************************************)
(* Generation of questions by an AI provider (AiWorkflowsService and         *)
(* AiProviderFactory): single requests and batches, the limits on their      *)
(* number, the run of a job inside the API process (started without being    *)
(* awaited, so several runs of one job can overlap and none survives a       *)
(* crash), the provider with its retries and its circuit breaker, cancel,    *)
(* regenerate and retry.  Every statement on the database is a step of its   *)
(* own where another request can come in between; one day and one month are  *)
(* modelled, because the passing of either only frees quota.  A provider     *)
(* answers a job with one question.                                          *)
(***************************************************************************)
EXTENDS Integers, FiniteSets, AccessControl

CONSTANTS Users, RoleOf, CollegeOf, Colleges, None,
          SubjectOpen,      \* <<user, college>>: the subject asked for is there,
                            \* and assigned to the user if it is faculty
          Keys,             \* idempotency keys; a chunk of a batch has none
          MaxJobs,          \* bound: jobs created
          MaxResults,       \* bound: generated questions stored
          MaxSlots,         \* bound: runs of one job in flight
          Requests,         \* slots for requests in flight
          MaxRequests,      \* bound: requests started
          MaxCrashes,       \* bound: restarts of the API process
          DailyLimit,       \* AI_DAILY_LIMIT, jobs of a user
          MonthlyLimit,     \* AI_MONTHLY_LIMIT, jobs of a college
          Chunks,           \* jobs of a batch: ceil(requestedCount / chunkSize)
          MaxRetries,       \* AI_MAX_RETRIES
          OpenAfter         \* failed calls that open the breaker

Jobs == 1..MaxJobs
Results == 1..MaxResults
Runs == Jobs \X (1..MaxSlots)

ASSUME GenerationAssumption ==
    /\ RoleOf \in [Users -> Roles]
    /\ CollegeOf \in [Users -> Colleges \cup {None}]
    /\ \A u \in Users : RoleOf[u] # "SUPER_ADMIN" => CollegeOf[u] # None
    /\ SubjectOpen \subseteq Users \X Colleges
    /\ {MaxJobs, MaxResults, MaxSlots, MaxRequests, MaxCrashes, DailyLimit,
        MonthlyLimit, Chunks, MaxRetries, OpenAfter} \subseteq Nat
    /\ None \notin Users \cup Colleges \cup Keys

VARIABLES jobs,      \* aiGenerationJob rows
          results,   \* aiGenerationResult rows
          usage,     \* aiUsageRecord rows of each job
          batch,     \* the aiBatchGeneration row
          run,       \* the processGenerationJob calls in flight
          breaker,   \* AiProviderFactory: failureCount and disabledUntil
          req,       \* the handlers in flight
          stopped,   \* history: results of a job when it was cancelled in time
          requests, crashes

genVars == <<jobs, results, usage, batch, run, breaker, req, stopped,
             requests, crashes>>

NoJob == [status |-> "NONE", owner |-> None, college |-> None, key |-> None]
NoResult == [job |-> 0, status |-> "NONE"]
NoRun == [pc |-> "idle", tries |-> 0]
NoReq == [op |-> "idle", user |-> None, college |-> None, key |-> None,
          job |-> 0, left |-> 0, made |-> {}, status |-> "NONE"]
JobStatus == {"NONE", "QUEUED", "PROCESSING", "COMPLETED", "FAILED", "CANCELLED"}
BatchStatus == {"NONE", "PROCESSING", "COMPLETED", "PARTIALLY_COMPLETED", "CANCELLED"}
ReviewStatus == {"NONE", "PENDING", "APPROVED", "REJECTED", "SAVED"}

\* the steps a handler waits in, with those of AiReview and AiLibrary
Ops == {"idle", "create", "chunk", "chunkCreate", "progress", "progressWrite", "retry",
        "batchWrite", "cancel", "requeue", "version", "save", "mark", "approve", "candidate",
        "prompt", "rollback", "units", "paper", "sets"}
ReqRow == [op : Ops, user : Users \cup {None}, college : Colleges \cup {None},
           key : Keys \cup {None}, job : Nat, left : Nat, made : SUBSET Nat,
           status : BatchStatus]

GenTypeOK ==
    /\ jobs \in [Jobs -> [status : JobStatus, owner : Users \cup {None},
                          college : Colleges \cup {None}, key : Keys \cup {None}]]
    /\ results \in [Results -> [job : 0..MaxJobs, status : ReviewStatus]]
    /\ usage \in [Jobs -> Nat]
    /\ batch \in [status : BatchStatus, ids : SUBSET Jobs,
                  college : Colleges \cup {None}]
    /\ run \in [Runs -> [pc : {"idle", "read", "mark", "call", "bill",
                               "finish", "fail"}, tries : 0..MaxRetries]]
    /\ breaker \in [failures : 0..OpenAfter, open : BOOLEAN]
    /\ req \in [Requests -> ReqRow]
    /\ stopped \in [Jobs -> Nat \cup {-1}]
    /\ requests \in 0..MaxRequests /\ crashes \in 0..MaxCrashes

GenInit ==
    /\ jobs = [j \in Jobs |-> NoJob]
    /\ results = [g \in Results |-> NoResult]
    /\ usage = [j \in Jobs |-> 0]
    /\ batch = [status |-> "NONE", ids |-> {}, college |-> None]
    /\ run = [x \in Runs |-> NoRun]
    /\ breaker = [failures |-> 0, open |-> FALSE]
    /\ req = [r \in Requests |-> NoReq]
    /\ stopped = [j \in Jobs |-> -1]
    /\ requests = 0 /\ crashes = 0

Exists(j) == jobs[j].status # "NONE"
FreeJobs == {j \in Jobs : ~Exists(j)}
FreeResults == {g \in Results : results[g].job = 0}
First(S) == CHOOSE x \in S : \A y \in S : x <= y
ResultsOf(j) == {g \in Results : results[g].job = j}

-----------------------------------------------------------------------------
(* Scope, limits, provider. *)

\* scopeCollege: a platform user names the college, any other user has one
Scoped(u, college) ==
    IF RoleOf[u] = "SUPER_ADMIN" THEN college # None ELSE college = CollegeOf[u]

\* jobWhere, documentWhere, questionWhere, plainCollegeWhere...
InTenant(u, college) == RoleOf[u] = "SUPER_ADMIN" \/ college = CollegeOf[u]

JobsOf(u) == {j \in Jobs : Exists(j) /\ jobs[j].owner = u}
CollegeJobs(u) == {j \in Jobs : Exists(j) /\
                      (CollegeOf[u] # None => jobs[j].college = CollegeOf[u])}

\* enforceUsageLimits
UnderQuota(u) == Cardinality(JobsOf(u)) < DailyLimit
                 /\ Cardinality(CollegeJobs(u)) < MonthlyLimit

\* getProvider refuses while disabledUntil lies ahead
ProviderReady == ~breaker.open

\* withTimeoutAndRetry after the last attempt
CountFailure == LET n == IF breaker.failures < OpenAfter THEN breaker.failures + 1 ELSE OpenAfter
                IN  [failures |-> n, open |-> breaker.open \/ n >= OpenAfter]

\* disabledUntil passes; failureCount keeps its value
BreakerCools ==
    /\ breaker.open /\ breaker' = [breaker EXCEPT !.open = FALSE]
    /\ UNCHANGED <<jobs, results, usage, batch, run, req, stopped, requests, crashes>>

-----------------------------------------------------------------------------
(* A request for questions, alone or as a chunk of a batch. *)

FreeSlots(j) == {k \in 1..MaxSlots : run[<<j, k>>].pc = "idle"}

\* Mutant: the jobs of a retry are queued again and none is run.
MutStartRuns(S) == run

\* runGenerationJob for each job of S
StartRuns(S) == [x \in Runs |->
    IF x[1] \in S /\ x[2] = First(FreeSlots(x[1]))
    THEN [NoRun EXCEPT !.pc = "read"] ELSE run[x]]

Begin(r) == req[r].op = "idle" /\ requests < MaxRequests /\ requests' = requests + 1

SameKey(u, college, key) == {j \in JobsOf(u) :
    jobs[j].college = college /\ jobs[j].key = key}

\* generateQuestions up to the creation of the job; a request whose key has a
\* job is answered with it
GenerateQuestions(r, u, college, key) ==
    /\ RoleOf[u] \in AiRoutes["generateQuestions"]
    /\ Begin(r) /\ UnderQuota(u)
    /\ Scoped(u, college) /\ <<u, college>> \in SubjectOpen
    /\ IF key # None /\ SameKey(u, college, key) # {} THEN UNCHANGED req
       ELSE /\ ProviderReady
            /\ req' = [req EXCEPT ![r] = [NoReq EXCEPT !.op = "create",
                   !.user = u, !.college = college, !.key = key]]
    /\ UNCHANGED <<jobs, results, usage, batch, run, breaker, stopped, crashes>>

\* aiGenerationJob.create and runGenerationJob; a batch goes on to its next chunk
CreateJob(r) ==
    LET q == req[r] j == First(FreeJobs) IN
    /\ q.op \in {"create", "chunkCreate"} /\ FreeJobs # {}
    /\ jobs' = [jobs EXCEPT ![j] = [status |-> "QUEUED", owner |-> q.user,
           college |-> q.college, key |-> q.key]]
    /\ run' = StartRuns({j})
    /\ req' = [req EXCEPT ![r] = IF q.op = "create" THEN NoReq
           ELSE [q EXCEPT !.op = "chunk", !.left = @ - 1, !.made = @ \cup {j}]]
    /\ UNCHANGED <<results, usage, batch, breaker, stopped, requests, crashes>>

-----------------------------------------------------------------------------
(* Batches. *)

\* batchGenerateQuestions: the row comes first, with no jobs
BatchGenerateQuestions(r, u, college) ==
    /\ RoleOf[u] \in AiRoutes["batchGenerateQuestions"]
    /\ batch.status = "NONE" /\ Begin(r) /\ Scoped(u, college)
    /\ batch' = [status |-> "PROCESSING", ids |-> {}, college |-> college]
    /\ req' = [req EXCEPT ![r] = [NoReq EXCEPT !.op = "chunk", !.user = u,
           !.college = college, !.left = Chunks]]
    /\ UNCHANGED <<jobs, results, usage, run, breaker, stopped, crashes>>

\* the chunk's generateQuestions: a refusal ends the loop and the request
BatchChunk(r) ==
    LET q == req[r] IN
    /\ q.op = "chunk" /\ q.left > 0
    /\ req' = [req EXCEPT ![r] =
           IF /\ UnderQuota(q.user) /\ ProviderReady
              /\ <<q.user, q.college>> \in SubjectOpen
           THEN [q EXCEPT !.op = "chunkCreate"] ELSE NoReq]
    /\ UNCHANGED <<jobs, results, usage, batch, run, breaker, stopped, requests, crashes>>

\* the jobs of the batch are written at the end of the loop
BatchFinish(r) ==
    /\ req[r].op = "chunk" /\ req[r].left = 0
    /\ batch' = [batch EXCEPT !.ids = req[r].made]
    /\ req' = [req EXCEPT ![r] = [req[r] EXCEPT !.op = "progress"]]
    /\ UNCHANGED <<jobs, results, usage, run, breaker, stopped, requests, crashes>>

InBatch(status) == {j \in batch.ids : jobs[j].status = status}

\* batchProgress: the status that follows from the jobs
BatchStatusNow ==
    IF InBatch("CANCELLED") # {} /\ InBatch("CANCELLED") = batch.ids THEN "CANCELLED"
    ELSE IF InBatch("FAILED") # {} THEN "PARTIALLY_COMPLETED"
    ELSE IF InBatch("COMPLETED") = batch.ids /\ batch.ids # {}
    THEN "COMPLETED" ELSE "PROCESSING"

\* batchProgress reads the batch and its jobs, and writes in a later statement
ProgressRead(r) ==
    /\ req[r].op = "progress"
    /\ req' = [req EXCEPT ![r] = [NoReq EXCEPT !.op = "progressWrite",
           !.status = BatchStatusNow]]
    /\ UNCHANGED <<jobs, results, usage, batch, run, breaker, stopped, requests, crashes>>

ProgressWrite(r) ==
    /\ req[r].op = "progressWrite"
    /\ batch' = [batch EXCEPT !.status = req[r].status]
    /\ req' = [req EXCEPT ![r] = NoReq]
    /\ UNCHANGED <<jobs, results, usage, run, breaker, stopped, requests, crashes>>

BatchRequest(r, u, route) ==
    /\ RoleOf[u] \in AiRoutes[route] /\ Begin(r)
    /\ batch.status # "NONE" /\ InTenant(u, batch.college)

GetBatchGeneration(r, u) ==
    /\ BatchRequest(r, u, "getBatchGeneration")
    /\ req' = [req EXCEPT ![r].op = "progress"]
    /\ UNCHANGED <<jobs, results, usage, batch, run, breaker, stopped, crashes>>

\* runs of j that have found the job not cancelled
Past(j) == {x \in Runs : x[1] = j /\ run[x].pc \notin {"idle", "read"}}

\* a job cancelled before any run has looked at it
Stop(S) == [j \in Jobs |-> IF j \in S /\ Past(j) = {}
                           THEN Cardinality(ResultsOf(j)) ELSE stopped[j]]

\* cancelBatchGeneration: the jobs first
CancelBatchGeneration(r, u) ==
    LET S == InBatch("QUEUED") \cup InBatch("PROCESSING") IN
    /\ BatchRequest(r, u, "cancelBatchGeneration")
    /\ jobs' = [j \in Jobs |-> IF j \in S THEN [jobs[j] EXCEPT !.status = "CANCELLED"]
                               ELSE jobs[j]]
    /\ stopped' = Stop(S)
    /\ req' = [req EXCEPT ![r] = [@ EXCEPT !.op = "batchWrite", !.status = "CANCELLED"]]
    /\ UNCHANGED <<results, usage, batch, run, breaker, crashes>>

\* retryBatchGeneration reads the failed jobs ...
RetryBatchGeneration(r, u) ==
    /\ BatchRequest(r, u, "retryBatchGeneration")
    /\ req' = [req EXCEPT ![r] = [@ EXCEPT !.op = "retry", !.made = InBatch("FAILED")]]
    /\ UNCHANGED <<jobs, results, usage, batch, run, breaker, stopped, crashes>>

\* ... queues them whatever became of them, and runs them
Requeue(S) ==
    /\ \A j \in S : FreeSlots(j) # {}
    /\ jobs' = [j \in Jobs |-> IF j \in S THEN [jobs[j] EXCEPT !.status = "QUEUED"]
                               ELSE jobs[j]]
    /\ run' = StartRuns(S)
    /\ stopped' = [j \in Jobs |-> IF j \in S THEN -1 ELSE stopped[j]]

RetryWrite(r) ==
    /\ req[r].op = "retry" /\ Requeue(req[r].made)
    /\ req' = [req EXCEPT ![r] = [@ EXCEPT !.op = "batchWrite", !.status = "PROCESSING"]]
    /\ UNCHANGED <<results, usage, batch, breaker, requests, crashes>>

\* the write of the batch's status, before batchProgress replaces it
BatchWrite(r) ==
    /\ req[r].op = "batchWrite"
    /\ batch' = [batch EXCEPT !.status = req[r].status]
    /\ req' = [req EXCEPT ![r].op = "progress"]
    /\ UNCHANGED <<jobs, results, usage, run, breaker, stopped, requests, crashes>>

-----------------------------------------------------------------------------
(* One job: cancel and regenerate. *)

JobRequest(r, u, j, route) ==
    /\ RoleOf[u] \in AiRoutes[route] /\ Begin(r)
    /\ Exists(j) /\ InTenant(u, jobs[j].college)

\* cancelJob refuses a job it has read as finished, and writes later
CancelJob(r, u, j) ==
    /\ JobRequest(r, u, j, "cancelJob")
    /\ jobs[j].status \notin {"COMPLETED", "FAILED"}
    /\ req' = [req EXCEPT ![r] = [@ EXCEPT !.op = "cancel", !.job = j]]
    /\ UNCHANGED <<jobs, results, usage, batch, run, breaker, stopped, crashes>>

CancelWrite(r) ==
    /\ req[r].op = "cancel"
    /\ jobs' = [jobs EXCEPT ![req[r].job].status = "CANCELLED"]
    /\ stopped' = Stop({req[r].job})
    /\ req' = [req EXCEPT ![r] = NoReq]
    /\ UNCHANGED <<results, usage, batch, run, breaker, requests, crashes>>

\* regenerateJob: the pending questions are rejected, whatever the job's status
RegenerateJob(r, u, j) ==
    /\ JobRequest(r, u, j, "regenerateJob")
    /\ results' = [g \in Results |-> IF results[g] = [job |-> j, status |-> "PENDING"]
           THEN [job |-> j, status |-> "REJECTED"] ELSE results[g]]
    /\ req' = [req EXCEPT ![r] = [@ EXCEPT !.op = "requeue", !.job = j]]
    /\ UNCHANGED <<jobs, usage, batch, run, breaker, stopped, crashes>>

RegenerateWrite(r) ==
    /\ req[r].op = "requeue" /\ Requeue({req[r].job})
    /\ req' = [req EXCEPT ![r] = NoReq]
    /\ UNCHANGED <<results, usage, batch, breaker, requests, crashes>>

-----------------------------------------------------------------------------
(* processGenerationJob, one statement at a time. *)

Goto(x, pc) == run' = [run EXCEPT ![x].pc = pc]

\* Mutant: the run does not look whether its job was cancelled.
MutRunRead(x) == /\ run[x].pc = "read" /\ Goto(x, "mark")
                 /\ UNCHANGED <<jobs, results, usage, batch, breaker, req,
                                stopped, requests, crashes>>

RunRead(x) ==
    /\ run[x].pc = "read"
    /\ Goto(x, IF jobs[x[1]].status = "CANCELLED" THEN "idle" ELSE "mark")
    /\ UNCHANGED <<jobs, results, usage, batch, breaker, req, stopped, requests, crashes>>

\* the job becomes PROCESSING; getProvider then refuses or not
RunMark(x) ==
    /\ run[x].pc = "mark"
    /\ jobs' = [jobs EXCEPT ![x[1]].status = "PROCESSING"]
    /\ Goto(x, IF ProviderReady THEN "call" ELSE "fail")
    /\ UNCHANGED <<results, usage, batch, breaker, req, stopped, requests, crashes>>

\* the answer arrives and its question is stored; what lies in between only reads
ProviderAnswers(x) ==
    /\ run[x].pc = "call" /\ FreeResults # {}
    /\ results' = [results EXCEPT ![First(FreeResults)] =
                      [job |-> x[1], status |-> "PENDING"]]
    /\ Goto(x, "bill")
    /\ UNCHANGED <<jobs, usage, batch, breaker, req, stopped, requests, crashes>>

\* an attempt fails, times out or cannot be parsed; its late answer is dropped
ProviderFails(x) ==
    /\ run[x].pc = "call"
    /\ IF run[x].tries < MaxRetries
       THEN run' = [run EXCEPT ![x].tries = @ + 1] /\ UNCHANGED breaker
       ELSE Goto(x, "fail") /\ breaker' = CountFailure
    /\ UNCHANGED <<jobs, results, usage, batch, req, stopped, requests, crashes>>

RunBill(x) ==
    /\ run[x].pc = "bill"
    /\ usage' = [usage EXCEPT ![x[1]] = @ + 1]
    /\ Goto(x, "finish")
    /\ UNCHANGED <<jobs, results, batch, breaker, req, stopped, requests, crashes>>

\* COMPLETED is written whatever the job's status is by now; recordSuccess
RunFinish(x) ==
    /\ run[x].pc = "finish"
    /\ jobs' = [jobs EXCEPT ![x[1]].status = "COMPLETED"]
    /\ breaker' = [failures |-> 0, open |-> FALSE]
    /\ run' = [run EXCEPT ![x] = NoRun]
    /\ UNCHANGED <<results, usage, batch, req, stopped, requests, crashes>>

RunFail(x) ==
    /\ run[x].pc = "fail"
    /\ jobs' = [jobs EXCEPT ![x[1]].status = "FAILED"]
    /\ run' = [run EXCEPT ![x] = NoRun]
    /\ UNCHANGED <<results, usage, batch, breaker, req, stopped, requests, crashes>>

RunStep(x) == RunRead(x) \/ RunMark(x) \/ ProviderAnswers(x) \/ ProviderFails(x)
              \/ RunBill(x) \/ RunFinish(x) \/ RunFail(x)

\* the API process restarts: every handler and run is gone, nothing resumes them
Crash ==
    /\ crashes < MaxCrashes /\ crashes' = crashes + 1
    /\ run' = [x \in Runs |-> NoRun]
    /\ req' = [r \in Requests |-> NoReq]
    /\ breaker' = [failures |-> 0, open |-> FALSE]
    /\ UNCHANGED <<jobs, results, usage, batch, stopped, requests>>

HandlerStep(r) == CreateJob(r) \/ BatchChunk(r) \/ BatchFinish(r)
    \/ ProgressRead(r) \/ ProgressWrite(r) \/ RetryWrite(r) \/ BatchWrite(r)
    \/ CancelWrite(r) \/ RegenerateWrite(r)

Request(r) == requests < MaxRequests /\ \E u \in Users :
    \/ \E c \in Colleges : \/ \E k \in Keys : GenerateQuestions(r, u, c, k)
                           \/ BatchGenerateQuestions(r, u, c)
    \/ GetBatchGeneration(r, u) \/ CancelBatchGeneration(r, u)
    \/ RetryBatchGeneration(r, u)
    \/ \E j \in Jobs : CancelJob(r, u, j) \/ RegenerateJob(r, u, j)

GenNext == \/ \E r \in Requests : Request(r) \/ HandlerStep(r)
           \/ \E x \in Runs : RunStep(x)
           \/ BreakerCools \/ Crash

\* a started run goes on: the event loop of the API process runs, and a provider
\* call is raced against a timer
GenSpec == GenInit /\ [][GenNext]_genVars /\ \A x \in Runs : WF_genVars(RunStep(x))

-----------------------------------------------------------------------------
(* Properties. *)

\* A job cancelled before any of its runs has read it stays cancelled and gets
\* no further question until somebody regenerates or retries it (cancelJob,
\* cancelBatchGeneration, processGenerationJob).
StoppedStays == \A j \in Jobs : stopped[j] # -1 =>
    /\ jobs[j].status = "CANCELLED"
    /\ Cardinality(ResultsOf(j)) = stopped[j]

\* A batch is reported as completed only when all its jobs were created and
\* recorded, also when the loop that creates them failed half way
\* (batchGenerateQuestions, batchProgress).
BatchCompleteIsWhole ==
    batch.status = "COMPLETED" => Cardinality(batch.ids) = Chunks

\* No use of the provider is recorded without the questions it paid for being
\* stored, also when the process dies in between (processGenerationJob).
BilledHasResults == \A j \in Jobs : usage[j] <= Cardinality(ResultsOf(j))

\* Runs, batches, cancellations and deaths of the process leave rows that agree:
\* what was stopped stays so, a completed batch is whole, and nothing is billed
\* without its questions.
GenerationAccounted ==
    /\ GenTypeOK
    /\ StoppedStays
    /\ BatchCompleteIsWhole
    /\ BilledHasResults

\* Unless the process restarts, a queued job ends as completed, failed or
\* cancelled (runGenerationJob, withTimeoutAndRetry).
JobSettles == \A j \in Jobs : jobs[j].status \in {"QUEUED", "PROCESSING"}
    ~> (jobs[j].status \in {"COMPLETED", "FAILED", "CANCELLED"} \/ crashes > 0)
=============================================================================
