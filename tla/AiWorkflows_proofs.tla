------------------------- MODULE AiWorkflows_proofs -------------------------
(***************************************************************************)
(* Proofs about AiGeneration, AiReview and AiLibrary, for any users, limits, *)
(* numbers of jobs, runs, requests and restarts.                             *)
(***************************************************************************)
EXTENDS AiLibrary, SetFacts, FiniteSetTheorems, WellFoundedInduction, TLAPS

-----------------------------------------------------------------------------
(* The generation of questions. *)

\* What a handler that works on the batch relies on: the jobs it has made are
\* there and counted, and an outcome it is about to write is true by then.
RowGood(q, rows, b) ==
    /\ q.op \in {"chunk", "chunkCreate"} =>
         /\ q.made \subseteq Jobs /\ \A j \in q.made : rows[j].status # "NONE"
         /\ Cardinality(q.made) + q.left = Chunks
    /\ q.op = "chunkCreate" => q.left > 0
    /\ q.op \in {"chunk", "chunkCreate", "progress", "progressWrite", "batchWrite", "retry"} =>
         b.status # "NONE"
    /\ q.op = "batchWrite" => q.status \in {"CANCELLED", "PROCESSING"}
    /\ q.op = "progressWrite" =>
         /\ q.status \in BatchStatus \ {"NONE"}
         /\ q.status = "COMPLETED" => Cardinality(b.ids) = Chunks

HandlersGood == \A r \in Requests : RowGood(req[r], jobs, batch)

\* A batch has all its jobs or none.
BatchWhole ==
    /\ batch.ids = {} \/ Cardinality(batch.ids) = Chunks
    /\ batch.status = "COMPLETED" => Cardinality(batch.ids) = Chunks

\* No run of a job that was stopped in time has got past its first look.
StoppedUnread == \A j \in Jobs : stopped[j] # -1 =>
    /\ Past(j) = {}
    /\ jobs[j].status = "CANCELLED" /\ Cardinality(ResultsOf(j)) = stopped[j]

\* Each use of the provider that is or will be recorded has its questions.
Billing(j) == {x \in Runs : x[1] = j /\ run[x].pc = "bill"}
BilledOrBilling == \A j \in Jobs :
    usage[j] + Cardinality(Billing(j)) <= Cardinality(ResultsOf(j))

GenInv ==
    /\ GenTypeOK
    /\ HandlersGood
    /\ BatchWhole
    /\ StoppedUnread
    /\ BilledOrBilling

LEMMA FiniteRows ==
  /\ IsFiniteSet(Jobs) /\ IsFiniteSet(Results) /\ IsFiniteSet(Runs)
  /\ Jobs \subseteq Nat /\ Results \subseteq Nat
<1>1. MaxJobs \in Nat /\ MaxResults \in Nat /\ MaxSlots \in Nat
  BY GenerationAssumption
<1>2. IsFiniteSet(1..MaxJobs) /\ IsFiniteSet(1..MaxResults) /\ IsFiniteSet(1..MaxSlots)
  BY <1>1, FS_Interval
<1>3. IsFiniteSet(Jobs \X (1..MaxSlots))
  BY <1>2, FS_Product DEF Jobs
<1> QED
  BY <1>1, <1>2, <1>3 DEF Jobs, Results, Runs

LEMMA NatOrder ==
  \E R : IsWellFoundedOn(R, Nat) /\ \A x, y \in Nat : x < y => <<x, y>> \in R
<1> DEFINE R == OpToRel(<, Nat)
<1>1. IsWellFoundedOn(R, Nat)
  BY NatLessThanWellFounded
<1>2. \A x, y \in Nat : x < y => <<x, y>> \in R
  BY DEF OpToRel
<1> QED
  BY <1>1, <1>2

\* First picks a row that is there.
LEMMA FirstIsLeast ==
  ASSUME NEW S \in SUBSET Nat, S # {}
  PROVE  First(S) \in S /\ \A y \in S : First(S) <= y
<1>1. PICK R : IsWellFoundedOn(R, Nat) /\ \A x, y \in Nat : x < y => <<x, y>> \in R
  BY NatOrder
<1>2. S \subseteq Nat /\ S # {}
  OBVIOUS
<1>3. \E x \in S : \A y \in S : ~(<<y, x>> \in R)
  <2>1. IsWellFoundedOn(R, Nat)
    BY <1>1
  <2>2. \A R0, S0, T0 : IsWellFoundedOn(R0, S0) /\ T0 \subseteq S0 /\ T0 # {} =>
           \E x \in T0 : \A y \in T0 : ~(<<y, x>> \in R0)
    BY WFMin, Zenon
  <2> QED
    BY <1>2, <2>1, <2>2, ZenonT(30)
<1>4. PICK x \in S : \A y \in S : ~(<<y, x>> \in R)
  BY <1>3
<1>5. ASSUME NEW y \in S PROVE x <= y
  <2>1. x \in Nat /\ y \in Nat /\ ~(<<y, x>> \in R)
    BY <1>2, <1>4
  <2>2. ~(y < x)
    BY <1>1, <2>1
  <2> QED
    BY <2>1, <2>2
<1> QED
  BY <1>5 DEF First

LEMMA Constants ==
  /\ MaxRetries \in Nat /\ OpenAfter \in Nat /\ Chunks \in Nat
  /\ MaxRequests \in Nat /\ MaxCrashes \in Nat /\ MaxJobs \in Nat
  BY GenerationAssumption

LEMMA GenStart == GenInit => GenInv
<1> SUFFICES ASSUME GenInit PROVE GenInv
  OBVIOUS
<1>1. GenTypeOK
  <2>1. NoReq \in ReqRow
    BY DEF NoReq, ReqRow, Ops, BatchStatus
  <2>2. req \in [Requests -> ReqRow]
    BY <2>1 DEF GenInit
  <2>3. run \in [Runs -> [pc : {"idle", "read", "mark", "call", "bill",
                               "finish", "fail"}, tries : 0..MaxRetries]]
    BY Constants DEF GenInit, NoRun
  <2>4. jobs \in [Jobs -> [status : JobStatus, owner : Users \cup {None},
                          college : Colleges \cup {None}, key : Keys \cup {None}]]
    BY DEF GenInit, NoJob, JobStatus
  <2>5. results \in [Results -> [job : 0..MaxJobs, status : ReviewStatus]]
    BY Constants DEF GenInit, NoResult, ReviewStatus
  <2> QED
    BY <2>2, <2>3, <2>4, <2>5, Constants DEF GenInit, GenTypeOK, BatchStatus
<1>2. HandlersGood
  BY DEF GenInit, HandlersGood, RowGood, NoReq
<1>3. BatchWhole /\ StoppedUnread
  BY DEF GenInit, BatchWhole, StoppedUnread
<1>4. BilledOrBilling
  <2> SUFFICES ASSUME NEW j \in Jobs
               PROVE  usage[j] + Cardinality(Billing(j)) <= Cardinality(ResultsOf(j))
    BY DEF BilledOrBilling
  <2>1. Billing(j) = {} /\ ResultsOf(j) = {} /\ usage[j] = 0
    BY DEF GenInit, Billing, ResultsOf, NoRun, NoResult, Jobs
  <2> QED
    BY <2>1, FS_EmptySet
<1> QED
  BY <1>1, <1>2, <1>3, <1>4 DEF GenInv

JobRow == [status : JobStatus, owner : Users \cup {None},
           college : Colleges \cup {None}, key : Keys \cup {None}]

\* A job that was created stays.
LEMMA JobsStep ==
  GenInv /\ [GenNext]_genVars =>
    /\ jobs' \in [Jobs -> JobRow]
    /\ \A j \in Jobs : jobs[j].status # "NONE" => jobs'[j].status # "NONE"
<1> SUFFICES ASSUME GenInv, [GenNext]_genVars
             PROVE  /\ jobs' \in [Jobs -> JobRow]
                    /\ \A j \in Jobs : jobs[j].status # "NONE" => jobs'[j].status # "NONE"
  OBVIOUS
<1> DEFINE Good == /\ jobs' \in [Jobs -> JobRow]
                   /\ \A j \in Jobs : jobs[j].status # "NONE" => jobs'[j].status # "NONE"
           Written == JobStatus \ {"NONE"}
<1>1. jobs \in [Jobs -> JobRow] /\ req \in [Requests -> ReqRow]
  BY DEF GenInv, GenTypeOK, JobRow
<1>2. ASSUME jobs' = jobs PROVE Good
  BY <1>1, <1>2
<1>3. \A row \in JobRow, s \in Written : [row EXCEPT !.status = s] \in JobRow
                                       /\ [row EXCEPT !.status = s].status = s
  BY DEF JobRow
<1>4. ASSUME NEW j, NEW s \in Written, jobs' = [jobs EXCEPT ![j].status = s] PROVE Good
  <2>1. \A k \in Jobs : jobs'[k] = jobs[k] \/ jobs'[k] = [jobs[k] EXCEPT !.status = s]
    BY <1>1, <1>4
  <2>2. jobs' = [k \in Jobs |-> jobs'[k]]
    BY <1>1, <1>4
  <2>3. ASSUME NEW k \in Jobs
        PROVE  jobs'[k] \in JobRow /\ (jobs[k].status # "NONE" => jobs'[k].status # "NONE")
    <3>1. jobs[k] \in JobRow /\ s # "NONE"
      BY <1>1
    <3>2. [jobs[k] EXCEPT !.status = s] \in JobRow /\ [jobs[k] EXCEPT !.status = s].status = s
      BY <1>3, <3>1
    <3> QED
      BY <2>1, <3>1, <3>2
  <2> QED
    BY <2>2, <2>3
<1>5. ASSUME NEW S, NEW s \in Written,
             jobs' = [j \in Jobs |-> IF j \in S THEN [jobs[j] EXCEPT !.status = s] ELSE jobs[j]]
      PROVE  Good
  <2>1. \A k \in Jobs : jobs'[k] = jobs[k] \/ jobs'[k] = [jobs[k] EXCEPT !.status = s]
    BY <1>5
  <2>2. ASSUME NEW k \in Jobs
        PROVE  jobs'[k] \in JobRow /\ (jobs[k].status # "NONE" => jobs'[k].status # "NONE")
    <3>1. jobs[k] \in JobRow /\ s # "NONE"
      BY <1>1
    <3>2. [jobs[k] EXCEPT !.status = s] \in JobRow /\ [jobs[k] EXCEPT !.status = s].status = s
      BY <1>3, <3>1
    <3> QED
      BY <2>1, <3>1, <3>2
  <2> QED
    BY <1>5, <2>2
<1>6. ASSUME NEW r \in Requests, CreateJob(r) PROVE Good
  <2> DEFINE j == First(FreeJobs)
             row == [status |-> "QUEUED", owner |-> req[r].user,
                     college |-> req[r].college, key |-> req[r].key]
  <2>1. jobs' = [jobs EXCEPT ![j] = row]
    BY <1>6 DEF CreateJob
  <2>2. row \in JobRow /\ row.status = "QUEUED"
    BY <1>1 DEF ReqRow, JobRow, JobStatus
  <2> HIDE DEF row, j
  <2>3. \A k \in Jobs : jobs'[k] = jobs[k] \/ jobs'[k] = row
    BY <1>1, <2>1
  <2>4. jobs' \in [Jobs -> JobRow]
    BY <1>1, <2>1, <2>2
  <2> QED
    BY <2>2, <2>3, <2>4
<1>7. ASSUME NEW r \in Requests, NEW u \in Users, CancelBatchGeneration(r, u) PROVE Good
  <2>1. "CANCELLED" \in Written
    BY DEF JobStatus
  <2> QED
    BY <1>5, <1>7, <2>1 DEF CancelBatchGeneration
<1>8. ASSUME NEW S, Requeue(S) PROVE Good
  <2>1. "QUEUED" \in Written
    BY DEF JobStatus
  <2> QED
    BY <1>5, <1>8, <2>1 DEF Requeue
<1>9. ASSUME NEW j, NEW s \in {"CANCELLED", "PROCESSING", "COMPLETED", "FAILED"},
             jobs' = [jobs EXCEPT ![j].status = s]
      PROVE  Good
  <2>1. s \in Written
    BY DEF JobStatus
  <2> QED
    BY <1>4, <1>9, <2>1
<1> DEFINE Mark(j, s) == jobs' = [jobs EXCEPT ![j].status = s]
<1>10. \/ jobs' = jobs
       \/ \E r \in Requests : CreateJob(r)
       \/ \E r \in Requests, u \in Users : CancelBatchGeneration(r, u)
       \/ \E S : Requeue(S)
       \/ \E j : \E s \in {"CANCELLED", "PROCESSING", "COMPLETED", "FAILED"} : Mark(j, s)
  <2>1. ASSUME NEW r \in Requests, RetryWrite(r) \/ RegenerateWrite(r) PROVE \E S : Requeue(S)
    BY <2>1 DEF RetryWrite, RegenerateWrite
  <2>2. ASSUME NEW x \in Runs, RunStep(x)
        PROVE  \/ jobs' = jobs
               \/ \E j : \E s \in {"CANCELLED", "PROCESSING", "COMPLETED", "FAILED"} : Mark(j, s)
    <3>1. RunRead(x) \/ ProviderAnswers(x) \/ ProviderFails(x) \/ RunBill(x) => jobs' = jobs
      BY DEF RunRead, ProviderAnswers, ProviderFails, RunBill
    <3>2. /\ RunMark(x) => Mark(x[1], "PROCESSING")
          /\ RunFinish(x) => Mark(x[1], "COMPLETED")
          /\ RunFail(x) => Mark(x[1], "FAILED")
      BY DEF RunMark, RunFinish, RunFail
    <3> HIDE DEF Mark
    <3> QED
      BY <2>2, <3>1, <3>2 DEF RunStep
  <2>3. ASSUME NEW r \in Requests, CancelWrite(r)
        PROVE  \E j : \E s \in {"CANCELLED", "PROCESSING", "COMPLETED", "FAILED"} : Mark(j, s)
    <3>1. Mark(req[r].job, "CANCELLED")
      BY <2>3 DEF CancelWrite
    <3> HIDE DEF Mark
    <3> QED
      BY <3>1
  <2> HIDE DEF Mark
  <2>4. ASSUME NEW r \in Requests, Request(r)
        PROVE  jobs' = jobs \/ \E u \in Users : CancelBatchGeneration(r, u)
    BY <2>4, ZenonT(60) DEF Request, GenerateQuestions, BatchGenerateQuestions, GetBatchGeneration,
       RetryBatchGeneration, CancelJob, RegenerateJob
  <2>5. ASSUME NEW r \in Requests, HandlerStep(r)
        PROVE  jobs' = jobs \/ CreateJob(r) \/ RetryWrite(r) \/ RegenerateWrite(r) \/ CancelWrite(r)
    BY <2>5 DEF HandlerStep, BatchChunk, BatchFinish, ProgressRead, ProgressWrite, BatchWrite
  <2>6. BreakerCools \/ Crash \/ UNCHANGED genVars => jobs' = jobs
    BY DEF BreakerCools, Crash, genVars
  <2> QED
    BY <2>1, <2>2, <2>3, <2>4, <2>5, <2>6 DEF GenNext
<1> QED
  BY <1>2, <1>6, <1>7, <1>8, <1>9, <1>10

BatchRow == [status : BatchStatus, ids : SUBSET Jobs, college : Colleges \cup {None}]
Whole(b) == Cardinality(b.ids) = Chunks

\* A batch that was created stays, and so does its being whole.
LEMMA BatchStep ==
  GenInv /\ [GenNext]_genVars =>
    /\ batch' \in BatchRow /\ BatchWhole'
    /\ batch.status # "NONE" => batch'.status # "NONE" /\ (Whole(batch) => Whole(batch'))
<1> SUFFICES ASSUME GenInv, [GenNext]_genVars
             PROVE  /\ batch' \in BatchRow /\ BatchWhole'
                    /\ batch.status # "NONE" =>
                         batch'.status # "NONE" /\ (Whole(batch) => Whole(batch'))
  OBVIOUS
<1> DEFINE Good == /\ batch' \in BatchRow /\ BatchWhole'
                   /\ batch.status # "NONE" =>
                        batch'.status # "NONE" /\ (Whole(batch) => Whole(batch'))
<1>1. /\ batch \in BatchRow /\ req \in [Requests -> ReqRow]
      /\ batch.ids = {} \/ Whole(batch)
      /\ batch.status = "COMPLETED" => Whole(batch)
      /\ \A r \in Requests : RowGood(req[r], jobs, batch)
  BY DEF GenInv, GenTypeOK, BatchRow, BatchWhole, Whole, HandlersGood
<1>2. ASSUME batch' = batch PROVE Good
  BY <1>1, <1>2 DEF BatchWhole, Whole
<1>3. ASSUME NEW r \in Requests, NEW u \in Users, NEW c \in Colleges,
             BatchGenerateQuestions(r, u, c)
      PROVE  Good
  <2>1. /\ batch' = [status |-> "PROCESSING", ids |-> {}, college |-> c]
        /\ batch.status = "NONE"
    BY <1>3 DEF BatchGenerateQuestions
  <2> QED
    BY <2>1 DEF BatchRow, BatchWhole, BatchStatus
<1>4. ASSUME NEW r \in Requests, BatchFinish(r) PROVE Good
  <2>1. batch' = [batch EXCEPT !.ids = req[r].made] /\ req[r].op = "chunk" /\ req[r].left = 0
    BY <1>4 DEF BatchFinish
  <2>2. /\ req[r].made \subseteq Jobs /\ batch.status # "NONE"
        /\ Cardinality(req[r].made) + 0 = Chunks
    BY <1>1, <2>1 DEF RowGood
  <2>3. Cardinality(req[r].made) = Chunks
    <3>1. Cardinality(req[r].made) \in Nat
      BY <2>2, FiniteRows, FS_Subset, FS_CardinalityType
    <3> QED
      BY <2>2, <3>1
  <2>4. batch' \in BatchRow /\ batch'.status = batch.status /\ batch'.ids = req[r].made
    BY <1>1, <2>1, <2>2 DEF BatchRow
  <2> QED
    BY <2>2, <2>3, <2>4 DEF BatchWhole, Whole
<1>5. ASSUME NEW s \in BatchStatus \ {"NONE"}, s = "COMPLETED" => Whole(batch),
             batch' = [batch EXCEPT !.status = s]
      PROVE  Good
  <2>1. batch' \in BatchRow /\ batch'.status = s /\ batch'.ids = batch.ids
    BY <1>1, <1>5 DEF BatchRow
  <2> QED
    BY <1>1, <1>5, <2>1 DEF BatchWhole, Whole
<1>6. ASSUME NEW r \in Requests, ProgressWrite(r) PROVE Good
  BY <1>1, <1>5, <1>6 DEF ProgressWrite, RowGood, Whole
<1>7. ASSUME NEW r \in Requests, BatchWrite(r) PROVE Good
  <2>1. batch' = [batch EXCEPT !.status = req[r].status] /\ req[r].op = "batchWrite"
    BY <1>7 DEF BatchWrite
  <2>2. req[r].status \in {"CANCELLED", "PROCESSING"}
    BY <1>1, <2>1 DEF RowGood
  <2> QED
    BY <1>5, <2>1, <2>2 DEF BatchStatus
<1>8. \/ batch' = batch
      \/ \E r \in Requests, u \in Users, c \in Colleges : BatchGenerateQuestions(r, u, c)
      \/ \E r \in Requests : BatchFinish(r) \/ ProgressWrite(r) \/ BatchWrite(r)
  <2>1. ASSUME NEW x \in Runs, RunStep(x) PROVE batch' = batch
    BY <2>1 DEF RunStep, RunRead, RunMark, ProviderAnswers, ProviderFails, RunBill, RunFinish, RunFail
  <2>2. ASSUME NEW r \in Requests, Request(r)
        PROVE  batch' = batch \/ \E u \in Users, c \in Colleges : BatchGenerateQuestions(r, u, c)
    BY <2>2, ZenonT(60) DEF Request, GenerateQuestions, GetBatchGeneration, CancelBatchGeneration,
       RetryBatchGeneration, CancelJob, RegenerateJob
  <2>3. ASSUME NEW r \in Requests, HandlerStep(r)
        PROVE  batch' = batch \/ BatchFinish(r) \/ ProgressWrite(r) \/ BatchWrite(r)
    BY <2>3 DEF HandlerStep, CreateJob, BatchChunk, ProgressRead, RetryWrite, CancelWrite,
       RegenerateWrite
  <2>4. BreakerCools \/ Crash \/ UNCHANGED genVars => batch' = batch
    BY DEF BreakerCools, Crash, genVars
  <2> QED
    BY <2>1, <2>2, <2>3, <2>4 DEF GenNext
<1> QED
  BY <1>2, <1>3, <1>4, <1>6, <1>7, <1>8

\* What a handler relies on stays true while it waits.
LEMMA RowKept ==
  ASSUME GenInv, [GenNext]_genVars, NEW q \in ReqRow, RowGood(q, jobs, batch)
  PROVE  RowGood(q, jobs', batch')
<1>1. \A j \in Jobs : jobs[j].status # "NONE" => jobs'[j].status # "NONE"
  BY JobsStep
<1>2. batch.status # "NONE" => batch'.status # "NONE" /\ (Whole(batch) => Whole(batch'))
  BY BatchStep
<1> QED
  BY <1>1, <1>2 DEF RowGood, Whole

LEMMA IdleRow == NoReq \in ReqRow /\ NoReq.op = "idle"
  BY DEF NoReq, ReqRow, Ops, BatchStatus

LEMMA OpRow ==
  ASSUME NEW q \in ReqRow, NEW o \in Ops
  PROVE  LET row == [q EXCEPT !.op = o] IN
         /\ row \in ReqRow /\ row.op = o /\ row.status = q.status
         /\ row.made = q.made /\ row.left = q.left
  BY DEF ReqRow

LEMMA RowsStep ==
  GenInv /\ [GenNext]_genVars => req' \in [Requests -> ReqRow] /\ HandlersGood'
<1> SUFFICES ASSUME GenInv, [GenNext]_genVars
             PROVE  req' \in [Requests -> ReqRow] /\ HandlersGood'
  OBVIOUS
<1> DEFINE Good == req' \in [Requests -> ReqRow] /\ HandlersGood'
           Plain == {"idle", "create", "cancel", "requeue"}
<1>1. /\ req \in [Requests -> ReqRow] /\ jobs \in [Jobs -> JobRow] /\ batch \in BatchRow
      /\ \A r \in Requests : RowGood(req[r], jobs', batch')
  <2>1. req \in [Requests -> ReqRow]
    BY DEF GenInv, GenTypeOK
  <2>2. \A r \in Requests : RowGood(req[r], jobs, batch)
    BY DEF GenInv, HandlersGood
  <2> QED
    BY <2>1, <2>2, RowKept DEF GenInv, GenTypeOK, JobRow, BatchRow
<1>2. ASSUME req' = req PROVE Good
  BY <1>1, <1>2 DEF HandlersGood
<1>3. ASSUME NEW r \in Requests, NEW row \in ReqRow, RowGood(row, jobs', batch'),
             req' = [req EXCEPT ![r] = row]
      PROVE  Good
  <2>1. req' \in [Requests -> ReqRow]
    BY <1>1, <1>3
  <2>2. \A x \in Requests : req'[x] = req[x] \/ req'[x] = row
    BY <1>1, <1>3
  <2>3. \A x \in Requests : RowGood(req'[x], jobs', batch')
    BY <1>1, <1>3, <2>2
  <2> QED
    BY <2>1, <2>3 DEF HandlersGood
<1>4. ASSUME NEW r \in Requests, NEW row \in ReqRow, row.op \in Plain,
             req' = [req EXCEPT ![r] = row]
      PROVE  Good
  <2>1. RowGood(row, jobs', batch')
    BY <1>4 DEF RowGood
  <2> QED
    BY <1>3, <1>4, <2>1
<1>5. ASSUME NEW r \in Requests, req' = [req EXCEPT ![r] = NoReq] PROVE Good
  BY <1>4, <1>5, IdleRow
<1>6. batch.status # "NONE" => batch'.status # "NONE"
  BY BatchStep

\* the requests
<1>7. ASSUME NEW r \in Requests, NEW u \in Users, NEW c \in Colleges, NEW k \in Keys,
             GenerateQuestions(r, u, c, k)
      PROVE  Good
  <2> DEFINE row == [NoReq EXCEPT !.op = "create", !.user = u, !.college = c, !.key = k]
  <2>1. req' = req \/ req' = [req EXCEPT ![r] = row]
    BY <1>7 DEF GenerateQuestions
  <2>2. row \in ReqRow /\ row.op = "create"
    BY DEF NoReq, ReqRow, Ops, BatchStatus
  <2> HIDE DEF row
  <2> QED
    BY <1>2, <1>4, <2>1, <2>2
<1>8. ASSUME NEW r \in Requests, NEW u \in Users, NEW c \in Colleges,
             BatchGenerateQuestions(r, u, c)
      PROVE  Good
  <2> DEFINE row == [NoReq EXCEPT !.op = "chunk", !.user = u, !.college = c, !.left = Chunks]
  <2>1. req' = [req EXCEPT ![r] = row] /\ batch'.status = "PROCESSING"
    BY <1>8 DEF BatchGenerateQuestions
  <2>2. row \in ReqRow /\ row.op = "chunk" /\ row.made = {} /\ row.left = Chunks
    BY Constants DEF NoReq, ReqRow, Ops, BatchStatus
  <2> HIDE DEF row
  <2>3. Cardinality(row.made) + row.left = Chunks
    BY <2>2, FS_EmptySet, Constants
  <2>4. RowGood(row, jobs', batch')
    BY <2>1, <2>2, <2>3 DEF RowGood
  <2> QED
    BY <1>3, <2>1, <2>2, <2>4
<1>9. ASSUME NEW r \in Requests, NEW u \in Users, GetBatchGeneration(r, u) PROVE Good
  <2> DEFINE row == [req[r] EXCEPT !.op = "progress"]
  <2>1. req' = [req EXCEPT ![r] = row] /\ batch.status # "NONE"
    BY <1>9 DEF GetBatchGeneration, BatchRequest
  <2>2. req[r] \in ReqRow /\ "progress" \in Ops
    BY <1>1 DEF Ops
  <2>4. row \in ReqRow /\ row.op = "progress"
    BY <2>2, OpRow
  <2> HIDE DEF row
  <2>3. RowGood(row, jobs', batch')
    BY <1>6, <2>1, <2>4 DEF RowGood
  <2> QED
    BY <1>3, <2>1, <2>4, <2>3
<1>10. ASSUME NEW r \in Requests, NEW st \in {"CANCELLED", "PROCESSING"}, batch.status # "NONE",
              req' = [req EXCEPT ![r] = [@ EXCEPT !.op = "batchWrite", !.status = st]]
       PROVE  Good
  <2> DEFINE row == [req[r] EXCEPT !.op = "batchWrite", !.status = st]
  <2>1. st \in BatchStatus /\ "batchWrite" \in Ops /\ req[r] \in ReqRow
    BY <1>1 DEF BatchStatus, Ops
  <2>2. row \in ReqRow /\ row.op = "batchWrite" /\ row.status = st
    BY <2>1 DEF ReqRow
  <2>3. req' = [req EXCEPT ![r] = row]
    BY <1>10
  <2> HIDE DEF row
  <2>4. RowGood(row, jobs', batch')
    BY <1>6, <1>10, <2>2 DEF RowGood
  <2> QED
    BY <1>3, <2>2, <2>3, <2>4
<1>11. ASSUME NEW r \in Requests, NEW u \in Users, CancelBatchGeneration(r, u) PROVE Good
  BY <1>10, <1>11 DEF CancelBatchGeneration, BatchRequest
<1>12. ASSUME NEW r \in Requests, NEW u \in Users, RetryBatchGeneration(r, u) PROVE Good
  <2> DEFINE S == InBatch("FAILED")
             row == [req[r] EXCEPT !.op = "retry", !.made = S]
  <2>1. req' = [req EXCEPT ![r] = row] /\ batch.status # "NONE"
    BY <1>12 DEF RetryBatchGeneration, BatchRequest
  <2>2. S \in SUBSET Nat /\ "retry" \in Ops /\ req[r] \in ReqRow
    BY <1>1, FiniteRows DEF InBatch, BatchRow, Ops
  <2> HIDE DEF S
  <2>3. row \in ReqRow /\ row.op = "retry"
    BY <2>2 DEF ReqRow
  <2> HIDE DEF row
  <2>4. RowGood(row, jobs', batch')
    BY <1>6, <2>1, <2>3 DEF RowGood
  <2> QED
    BY <1>3, <2>1, <2>3, <2>4
<1>13. ASSUME NEW r \in Requests, NEW j \in Jobs, NEW o \in {"cancel", "requeue"},
              req' = [req EXCEPT ![r] = [@ EXCEPT !.op = o, !.job = j]]
       PROVE  Good
  <2> DEFINE row == [req[r] EXCEPT !.op = o, !.job = j]
  <2>1. j \in Nat /\ o \in Ops /\ req[r] \in ReqRow
    BY <1>1, FiniteRows DEF Ops
  <2>2. row \in ReqRow /\ row.op = o
    BY <2>1 DEF ReqRow
  <2>3. req' = [req EXCEPT ![r] = row]
    BY <1>13
  <2> HIDE DEF row
  <2> QED
    BY <1>4, <2>2, <2>3
<1>14. ASSUME NEW r \in Requests, Request(r) PROVE Good
  <2>1. ASSUME NEW u \in Users, NEW j \in Jobs, CancelJob(r, u, j) \/ RegenerateJob(r, u, j)
        PROVE  Good
    BY <1>13, <2>1 DEF CancelJob, RegenerateJob
  <2> QED
    BY <1>7, <1>8, <1>9, <1>11, <1>12, <1>14, <2>1 DEF Request

\* the handlers
<1>15. ASSUME NEW r \in Requests, CreateJob(r) PROVE Good
  <2> DEFINE j == First(FreeJobs)
             q == req[r]
             row == [q EXCEPT !.op = "chunk", !.left = q.left - 1, !.made = q.made \cup {j}]
  <2>1. j \in FreeJobs
    <3>1. FreeJobs \in SUBSET Nat /\ FreeJobs # {}
      BY <1>15, FiniteRows DEF CreateJob, FreeJobs
    <3> QED
      BY <3>1, FirstIsLeast, Zenon
  <2>2. /\ j \in Jobs /\ jobs[j].status = "NONE" /\ j \in Nat
        /\ jobs'[j].status = "QUEUED"
    <3>1. j \in Jobs /\ jobs[j].status = "NONE"
      BY <2>1 DEF FreeJobs, Exists
    <3>2. jobs' = [jobs EXCEPT ![j] = [status |-> "QUEUED", owner |-> q.user,
                                       college |-> q.college, key |-> q.key]]
      BY <1>15 DEF CreateJob
    <3> HIDE DEF j
    <3> QED
      BY <1>1, <3>1, <3>2, FiniteRows
  <2>3. CASE q.op = "create"
    BY <1>5, <1>15, <2>3 DEF CreateJob
  <2>4. CASE q.op = "chunkCreate"
    <3>1. req' = [req EXCEPT ![r] = row]
      BY <1>15, <2>4 DEF CreateJob
    <3>2. /\ q \in ReqRow /\ q.left \in Nat /\ q.left > 0 /\ q.made \subseteq Jobs
          /\ \A k \in q.made : jobs[k].status # "NONE"
          /\ \A k \in q.made : jobs'[k].status # "NONE"
          /\ Cardinality(q.made) + q.left = Chunks
          /\ batch'.status # "NONE"
      <4>1. RowGood(q, jobs, batch) /\ RowGood(q, jobs', batch') /\ q \in ReqRow
        BY <1>1 DEF GenInv, HandlersGood
      <4>2. q.left \in Nat
        BY <4>1 DEF ReqRow
      <4> QED
        BY <2>4, <4>1, <4>2 DEF RowGood
    <3> HIDE DEF j, q
    <3> DEFINE n == q.left - 1
               S == q.made \cup {j}
    <3>3. n \in Nat /\ S \in SUBSET Nat /\ "chunk" \in Ops
      <4>1. q.made \subseteq Nat
        BY <3>2, FiniteRows
      <4> QED
        BY <2>2, <3>2, <4>1 DEF Ops
    <3> HIDE DEF n, S
    <3>7. row = [q EXCEPT !.op = "chunk", !.left = n, !.made = S]
      BY DEF n, S
    <3> HIDE DEF row
    <3>8. row \in ReqRow /\ row.op = "chunk" /\ row.made = S /\ row.left = n
      BY <3>2, <3>3, <3>7 DEF ReqRow
    <3>4. /\ row \in ReqRow /\ row.op = "chunk"
          /\ row.made = q.made \cup {j} /\ row.left = q.left - 1
      BY <3>8 DEF n, S
    <3> HIDE DEF row
    <3>5. Cardinality(row.made) + row.left = Chunks
      <4>1. IsFiniteSet(q.made) /\ j \notin q.made
        BY <2>2, <3>2, FiniteRows, FS_Subset
      <4>2. /\ Cardinality(q.made \cup {j}) = Cardinality(q.made) + 1
            /\ Cardinality(q.made) \in Nat
        BY <4>1, FS_AddElement, FS_CardinalityType
      <4> QED
        BY <3>2, <3>4, <4>2
    <3>6. RowGood(row, jobs', batch')
      BY <2>2, <3>2, <3>4, <3>5 DEF RowGood
    <3> QED
      BY <1>3, <3>1, <3>4, <3>6
  <2> QED
    BY <1>15, <2>3, <2>4 DEF CreateJob
<1>16. ASSUME NEW r \in Requests, BatchChunk(r) PROVE Good
  <2> DEFINE row == [req[r] EXCEPT !.op = "chunkCreate"]
  <2>1. /\ req' = [req EXCEPT ![r] = NoReq] \/ req' = [req EXCEPT ![r] = row]
        /\ req[r].op = "chunk" /\ req[r].left > 0
    BY <1>16 DEF BatchChunk
  <2>4. req[r] \in ReqRow /\ "chunkCreate" \in Ops
    BY <1>1 DEF Ops
  <2>2. /\ row \in ReqRow /\ row.op = "chunkCreate"
        /\ row.made = req[r].made /\ row.left = req[r].left
    BY <2>4, OpRow
  <2> HIDE DEF row
  <2>3. RowGood(row, jobs', batch')
    BY <1>1, <2>1, <2>2 DEF RowGood
  <2> QED
    BY <1>3, <1>5, <2>1, <2>2, <2>3
<1>17. ASSUME NEW r \in Requests, req[r].op \in {"chunk", "batchWrite"},
              req' = [req EXCEPT ![r] = [req[r] EXCEPT !.op = "progress"]]
       PROVE  Good
  <2> DEFINE row == [req[r] EXCEPT !.op = "progress"]
  <2>4. req[r] \in ReqRow /\ "progress" \in Ops
    BY <1>1 DEF Ops
  <2>1. row \in ReqRow /\ row.op = "progress"
    BY <2>4, OpRow
  <2>2. req' = [req EXCEPT ![r] = row]
    BY <1>17
  <2> HIDE DEF row
  <2>3. RowGood(row, jobs', batch')
    BY <1>1, <1>17, <2>1 DEF RowGood
  <2> QED
    BY <1>3, <2>1, <2>2, <2>3
<1>18. ASSUME NEW r \in Requests, ProgressRead(r) PROVE Good
  <2> DEFINE row == [NoReq EXCEPT !.op = "progressWrite", !.status = BatchStatusNow]
  <2>1. /\ req' = [req EXCEPT ![r] = row] /\ req[r].op = "progress"
        /\ batch' = batch
    BY <1>18 DEF ProgressRead
  <2>2. BatchStatusNow \in BatchStatus \ {"NONE"} /\ "progressWrite" \in Ops
    BY DEF BatchStatusNow, BatchStatus, Ops
  <2>3. BatchStatusNow = "COMPLETED" => batch.ids # {}
    BY DEF BatchStatusNow
  <2>4. row \in ReqRow /\ row.op = "progressWrite" /\ row.status = BatchStatusNow
    <3> HIDE DEF BatchStatusNow
    <3> QED
      BY <2>2, IdleRow DEF ReqRow
  <2> HIDE DEF row
  <2>5. row.status = "COMPLETED" => Cardinality(batch'.ids) = Chunks
    BY <2>1, <2>3, <2>4 DEF GenInv, BatchWhole
  <2>6. batch'.status # "NONE"
    BY <1>1, <2>1 DEF RowGood
  <2>7. RowGood(row, jobs', batch')
    BY <2>2, <2>4, <2>5, <2>6 DEF RowGood
  <2> QED
    BY <1>3, <2>1, <2>4, <2>7
<1>19. ASSUME NEW r \in Requests, RetryWrite(r) PROVE Good
  <2>1. /\ req[r].op = "retry"
        /\ req' = [req EXCEPT ![r] = [@ EXCEPT !.op = "batchWrite", !.status = "PROCESSING"]]
    BY <1>19 DEF RetryWrite
  <2>2. batch.status # "NONE"
    BY <2>1 DEF GenInv, HandlersGood, RowGood
  <2> QED
    BY <1>10, <2>1, <2>2
<1>20. ASSUME NEW r \in Requests, HandlerStep(r) PROVE Good
  <2>1. ASSUME ProgressWrite(r) \/ CancelWrite(r) \/ RegenerateWrite(r) PROVE Good
    BY <1>5, <2>1 DEF ProgressWrite, CancelWrite, RegenerateWrite
  <2>2. ASSUME BatchFinish(r) \/ BatchWrite(r) PROVE Good
    BY <1>17, <2>2 DEF BatchFinish, BatchWrite
  <2> QED
    BY <1>15, <1>16, <1>18, <1>19, <1>20, <2>1, <2>2 DEF HandlerStep
<1>21. ASSUME Crash PROVE Good
  <2>1. req' = [r \in Requests |-> NoReq]
    BY <1>21 DEF Crash
  <2>2. RowGood(NoReq, jobs', batch')
    BY DEF RowGood, NoReq
  <2> QED
    BY <2>1, <2>2, IdleRow DEF HandlersGood
<1>22. ASSUME NEW x \in Runs, RunStep(x) PROVE req' = req
  BY <1>22 DEF RunStep, RunRead, RunMark, ProviderAnswers, ProviderFails, RunBill, RunFinish, RunFail
<1>23. BreakerCools \/ UNCHANGED genVars => req' = req
  BY DEF BreakerCools, genVars
<1> QED
  BY <1>2, <1>14, <1>20, <1>21, <1>22, <1>23 DEF GenNext

RunRow == [pc : {"idle", "read", "mark", "call", "bill", "finish", "fail"},
           tries : 0..MaxRetries]
Unread == {"idle", "read"}

\* A run gets past its first look only if its job is not cancelled, and bills
\* only what the provider has answered.
LEMMA RunsStep ==
  GenInv /\ [GenNext]_genVars =>
    /\ run' \in [Runs -> RunRow]
    /\ \A y \in Runs : run'[y].pc \notin Unread =>
         run[y].pc \notin Unread \/ jobs[y[1]].status # "CANCELLED"
    /\ \A y \in Runs : run'[y].pc = "bill" => run[y].pc = "bill" \/ ProviderAnswers(y)
<1> DEFINE Good ==
      /\ run' \in [Runs -> RunRow]
      /\ \A y \in Runs : run'[y].pc \notin Unread =>
           run[y].pc \notin Unread \/ jobs[y[1]].status # "CANCELLED"
      /\ \A y \in Runs : run'[y].pc = "bill" => run[y].pc = "bill" \/ ProviderAnswers(y)
<1> SUFFICES ASSUME GenInv, [GenNext]_genVars PROVE Good
  OBVIOUS
<1>1. run \in [Runs -> RunRow]
  BY DEF GenInv, GenTypeOK, RunRow
<1>2. ASSUME run' = run PROVE Good
  BY <1>1, <1>2
<1>3. NoRun \in RunRow /\ NoRun.pc = "idle"
      /\ [NoRun EXCEPT !.pc = "read"] \in RunRow /\ [NoRun EXCEPT !.pc = "read"].pc = "read"
  BY Constants DEF NoRun, RunRow
<1>4. ASSUME NEW x \in Runs, NEW row \in RunRow, run' = [run EXCEPT ![x] = row],
             row.pc \notin Unread => run[x].pc \notin Unread \/ jobs[x[1]].status # "CANCELLED",
             row.pc = "bill" => run[x].pc = "bill" \/ ProviderAnswers(x)
      PROVE  Good
  <2>1. run' \in [Runs -> RunRow]
    BY <1>1, <1>4
  <2>2. \A y \in Runs : run'[y] = run[y] \/ (y = x /\ run'[y] = row)
    BY <1>1, <1>4
  <2> QED
    BY <1>4, <2>1, <2>2
<1>5. ASSUME NEW x \in Runs, NEW pc \in {"idle", "mark", "call", "bill", "finish", "fail"},
             Goto(x, pc),
             pc # "idle" => run[x].pc \notin Unread \/ jobs[x[1]].status # "CANCELLED",
             pc = "bill" => ProviderAnswers(x)
      PROVE  Good
  <2> DEFINE row == [run[x] EXCEPT !.pc = pc]
  <2>1. row \in RunRow /\ row.pc = pc
    BY <1>1 DEF RunRow
  <2>2. run' = [run EXCEPT ![x] = row]
    BY <1>5 DEF Goto
  <2> HIDE DEF row
  <2> QED
    BY <1>4, <1>5, <2>1, <2>2 DEF Unread
<1>6. ASSUME NEW S, run' = StartRuns(S) PROVE Good
  <2>1. \A y \in Runs : run'[y] = run[y] \/ run'[y] = [NoRun EXCEPT !.pc = "read"]
    BY <1>6 DEF StartRuns
  <2>2. run' = [y \in Runs |-> run'[y]]
    BY <1>6 DEF StartRuns
  <2>3. run' \in [Runs -> RunRow]
    BY <1>1, <1>3, <2>1, <2>2
  <2> QED
    BY <1>3, <2>1, <2>3 DEF Unread
<1>7. ASSUME Crash PROVE Good
  <2>1. run' = [x \in Runs |-> NoRun]
    BY <1>7 DEF Crash
  <2> QED
    BY <1>3, <2>1 DEF Unread
<1>8. ASSUME NEW x \in Runs, RunStep(x) PROVE Good
  <2>1. ASSUME RunRead(x) PROVE Good
    <3>1. CASE jobs[x[1]].status = "CANCELLED"
      <4>1. Goto(x, "idle")
        BY <2>1, <3>1 DEF RunRead
      <4> QED
        BY <1>5, <4>1
    <3>2. CASE jobs[x[1]].status # "CANCELLED"
      <4>1. Goto(x, "mark")
        BY <2>1, <3>2 DEF RunRead
      <4> QED
        BY <1>5, <3>2, <4>1
    <3> QED
      BY <3>1, <3>2
  <2>2. ASSUME RunMark(x) PROVE Good
    <3>1. run[x].pc \notin Unread /\ (Goto(x, "call") \/ Goto(x, "fail"))
      BY <2>2 DEF RunMark, Unread
    <3> QED
      BY <1>5, <3>1
  <2>3. ASSUME ProviderAnswers(x) PROVE Good
    <3>1. run[x].pc \notin Unread /\ Goto(x, "bill")
      BY <2>3 DEF ProviderAnswers, Unread
    <3> QED
      BY <1>5, <2>3, <3>1
  <2>4. ASSUME ProviderFails(x) PROVE Good
    <3>1. run[x].pc = "call" /\ run[x].pc \notin Unread
      BY <2>4 DEF ProviderFails, Unread
    <3>2. ASSUME Goto(x, "fail") PROVE Good
      BY <1>5, <3>1, <3>2
    <3>3. ASSUME run[x].tries < MaxRetries, run' = [run EXCEPT ![x].tries = @ + 1] PROVE Good
      <4> DEFINE row == [run[x] EXCEPT !.tries = run[x].tries + 1]
      <4>1. run[x] \in RunRow
        BY <1>1
      <4>2. run[x].tries + 1 \in 0..MaxRetries
        BY <3>3, <4>1, Constants DEF RunRow
      <4>3. row \in RunRow /\ row.pc = run[x].pc
        BY <4>1, <4>2 DEF RunRow
      <4>4. run' = [run EXCEPT ![x] = row]
        BY <3>3
      <4> HIDE DEF row
      <4> QED
        BY <1>4, <3>1, <4>3, <4>4
    <3> QED
      BY <2>4, <3>2, <3>3 DEF ProviderFails
  <2>5. ASSUME RunBill(x) PROVE Good
    <3>1. run[x].pc \notin Unread /\ Goto(x, "finish")
      BY <2>5 DEF RunBill, Unread
    <3> QED
      BY <1>5, <3>1
  <2>6. ASSUME RunFinish(x) \/ RunFail(x) PROVE Good
    <3>1. run' = [run EXCEPT ![x] = NoRun]
      BY <2>6 DEF RunFinish, RunFail
    <3> QED
      BY <1>3, <1>4, <3>1 DEF Unread
  <2> QED
    BY <1>8, <2>1, <2>2, <2>3, <2>4, <2>5, <2>6 DEF RunStep
<1>9. \/ run' = run \/ Crash
      \/ \E S : run' = StartRuns(S)
      \/ \E x \in Runs : RunStep(x)
  <2>1. ASSUME NEW r \in Requests, Request(r) PROVE run' = run
    BY <2>1, ZenonT(60) DEF Request, GenerateQuestions, BatchGenerateQuestions, GetBatchGeneration,
       CancelBatchGeneration, RetryBatchGeneration, CancelJob, RegenerateJob
  <2>2. ASSUME NEW r \in Requests, HandlerStep(r)
        PROVE  run' = run \/ CreateJob(r) \/ RetryWrite(r) \/ RegenerateWrite(r)
    BY <2>2 DEF HandlerStep, BatchChunk, BatchFinish, ProgressRead, ProgressWrite, BatchWrite,
       CancelWrite
  <2>3. ASSUME NEW r \in Requests, CreateJob(r) \/ RetryWrite(r) \/ RegenerateWrite(r)
        PROVE  \E S : run' = StartRuns(S)
    BY <2>3 DEF CreateJob, RetryWrite, RegenerateWrite, Requeue
  <2>4. BreakerCools \/ UNCHANGED genVars => run' = run
    BY DEF BreakerCools, genVars
  <2> HIDE DEF Good
  <2> QED
    BY <2>1, <2>2, <2>3, <2>4 DEF GenNext
<1> HIDE DEF Good
<1> QED
  BY <1>2, <1>6, <1>7, <1>8, <1>9

ResultRow == [job : 0..MaxJobs, status : ReviewStatus]

\* A stored question stays with its job; only an answer of the provider adds one.
LEMMA ResultsStep ==
  GenInv /\ [GenNext]_genVars =>
    /\ results' \in [Results -> ResultRow]
    /\ \/ \A j \in Jobs : ResultsOf(j)' = ResultsOf(j)
       \/ \E x \in Runs : ProviderAnswers(x)
<1> SUFFICES ASSUME GenInv, [GenNext]_genVars
             PROVE  /\ results' \in [Results -> ResultRow]
                    /\ \/ \A j \in Jobs : ResultsOf(j)' = ResultsOf(j)
                       \/ \E x \in Runs : ProviderAnswers(x)
  OBVIOUS
<1>1. results \in [Results -> ResultRow]
  BY DEF GenInv, GenTypeOK, ResultRow
<1>2. ASSUME results' = results PROVE \A j \in Jobs : ResultsOf(j)' = ResultsOf(j)
  BY <1>2 DEF ResultsOf
<1>3. ASSUME NEW r \in Requests, NEW u \in Users, NEW j \in Jobs, RegenerateJob(r, u, j)
      PROVE  results' \in [Results -> ResultRow] /\ \A k \in Jobs : ResultsOf(k)' = ResultsOf(k)
  <2>1. results' = [g \in Results |-> IF results[g] = [job |-> j, status |-> "PENDING"]
           THEN [job |-> j, status |-> "REJECTED"] ELSE results[g]]
    BY <1>3 DEF RegenerateJob
  <2>2. [job |-> j, status |-> "REJECTED"] \in ResultRow
    BY Constants DEF ResultRow, ReviewStatus, Jobs
  <2>3. results' \in [Results -> ResultRow]
    BY <1>1, <2>1, <2>2
  <2>4. \A g \in Results : results'[g].job = results[g].job
    BY <1>1, <2>1
  <2> QED
    BY <2>3, <2>4 DEF ResultsOf
<1>4. ASSUME NEW x \in Runs, ProviderAnswers(x) PROVE results' \in [Results -> ResultRow]
  <2>1. [job |-> x[1], status |-> "PENDING"] \in ResultRow
    BY Constants DEF ResultRow, ReviewStatus, Runs, Jobs
  <2> QED
    BY <1>1, <1>4, <2>1 DEF ProviderAnswers
<1>5. \/ results' = results
      \/ \E r \in Requests, u \in Users, j \in Jobs : RegenerateJob(r, u, j)
      \/ \E x \in Runs : ProviderAnswers(x)
  <2>1. ASSUME NEW r \in Requests, Request(r)
        PROVE  results' = results \/ \E u \in Users, j \in Jobs : RegenerateJob(r, u, j)
    BY <2>1 DEF Request, GenerateQuestions, BatchGenerateQuestions, GetBatchGeneration,
       CancelBatchGeneration, RetryBatchGeneration, CancelJob
  <2>2. ASSUME NEW r \in Requests, HandlerStep(r) PROVE results' = results
    BY <2>2 DEF HandlerStep, CreateJob, BatchChunk, BatchFinish, ProgressRead, ProgressWrite,
       RetryWrite, BatchWrite, CancelWrite, RegenerateWrite
  <2>3. ASSUME NEW x \in Runs, RunStep(x) PROVE results' = results \/ ProviderAnswers(x)
    BY <2>3 DEF RunStep, RunRead, RunMark, ProviderFails, RunBill, RunFinish, RunFail
  <2>4. BreakerCools \/ Crash \/ UNCHANGED genVars => results' = results
    BY DEF BreakerCools, Crash, genVars
  <2> QED
    BY <2>1, <2>2, <2>3, <2>4 DEF GenNext
<1> QED
  BY <1>1, <1>2, <1>3, <1>4, <1>5

LEMMA Answered ==
  ASSUME GenInv, NEW x \in Runs, ProviderAnswers(x)
  PROVE  /\ Cardinality(ResultsOf(x[1])') = Cardinality(ResultsOf(x[1])) + 1
         /\ \A j \in Jobs : j # x[1] => ResultsOf(j)' = ResultsOf(j)
<1> DEFINE g == First(FreeResults)
<1>1. g \in FreeResults
  <2>1. FreeResults \in SUBSET Nat /\ FreeResults # {}
    BY FiniteRows DEF ProviderAnswers, FreeResults
  <2> QED
    BY <2>1, FirstIsLeast, Zenon
<1>2. results' = [results EXCEPT ![g] = [job |-> x[1], status |-> "PENDING"]]
  BY DEF ProviderAnswers
<1>3. results \in [Results -> ResultRow] /\ x[1] \in Jobs /\ x[1] # 0
  BY Constants DEF GenInv, GenTypeOK, ResultRow, Runs, Jobs
<1>4. g \in Results /\ results[g].job = 0
  BY <1>1 DEF FreeResults
<1> HIDE DEF g
<1>5. /\ results'[g].job = x[1]
      /\ \A h \in Results : h # g => results'[h] = results[h]
  BY <1>2, <1>3, <1>4
<1>6. ResultsOf(x[1])' = ResultsOf(x[1]) \cup {g} /\ g \notin ResultsOf(x[1])
  BY <1>3, <1>4, <1>5 DEF ResultsOf
<1>7. IsFiniteSet(ResultsOf(x[1]))
  <2>1. ResultsOf(x[1]) \subseteq Results
    BY DEF ResultsOf
  <2> QED
    BY <2>1, FiniteRows, FS_Subset
<1>8. \A j \in Jobs : j # x[1] => ResultsOf(j)' = ResultsOf(j)
  <2>1. \A j \in Jobs : j # 0
    BY Constants DEF Jobs
  <2> QED
    BY <1>4, <1>5, <2>1 DEF ResultsOf
<1> QED
  BY <1>6, <1>7, <1>8, FS_AddElement

\* A cancelled job no run has passed stays cancelled, unless it is queued again.
LEMMA StoppedStep ==
  ASSUME GenInv, [GenNext]_genVars, NEW j \in Jobs, stopped'[j] # -1
  PROVE  \/ /\ stopped'[j] = stopped[j]
            /\ Past(j) = {} /\ jobs[j].status = "CANCELLED" => jobs'[j].status = "CANCELLED"
         \/ /\ Past(j) = {} /\ jobs'[j].status = "CANCELLED"
            /\ stopped'[j] = Cardinality(ResultsOf(j))
            /\ run' = run /\ results' = results
<1> DEFINE Kept == /\ stopped'[j] = stopped[j]
                   /\ Past(j) = {} /\ jobs[j].status = "CANCELLED" =>
                        jobs'[j].status = "CANCELLED"
           Now == /\ Past(j) = {} /\ jobs'[j].status = "CANCELLED"
                  /\ stopped'[j] = Cardinality(ResultsOf(j))
                  /\ run' = run /\ results' = results
<1>1. jobs \in [Jobs -> JobRow] /\ stopped \in [Jobs -> Nat \cup {-1}]
  BY DEF GenInv, GenTypeOK, JobRow
<1>2. ASSUME NEW S, NEW rest, jobs' = [k \in Jobs |-> IF k \in S THEN rest[k] ELSE jobs[k]],
             \A k \in S \cap Jobs : rest[k].status = "CANCELLED",
             stopped' = Stop(S), run' = run, results' = results
      PROVE  Kept \/ Now
  <2>1. CASE j \in S /\ Past(j) = {}
    BY <1>2, <2>1 DEF Stop
  <2>2. CASE j \notin S \/ Past(j) # {}
    BY <1>2, <2>2 DEF Stop
  <2> QED
    BY <2>1, <2>2
<1>3. ASSUME NEW r \in Requests, NEW u \in Users, CancelBatchGeneration(r, u) PROVE Kept \/ Now
  <2> DEFINE S == InBatch("QUEUED") \cup InBatch("PROCESSING")
             rest == [k \in Jobs |-> [jobs[k] EXCEPT !.status = "CANCELLED"]]
  <2>1. /\ jobs' = [k \in Jobs |-> IF k \in S THEN rest[k] ELSE jobs[k]]
        /\ stopped' = Stop(S) /\ run' = run /\ results' = results
    BY <1>3 DEF CancelBatchGeneration
  <2>2. \A k \in Jobs : rest[k].status = "CANCELLED"
    BY <1>1 DEF JobRow
  <2> HIDE DEF S, rest
  <2> QED
    BY <1>2, <2>1, <2>2
<1>4. ASSUME NEW r \in Requests, CancelWrite(r) PROVE Kept \/ Now
  <2> DEFINE S == {req[r].job}
             rest == [k \in Jobs |-> [jobs[k] EXCEPT !.status = "CANCELLED"]]
  <2>1. /\ stopped' = Stop(S) /\ run' = run /\ results' = results
        /\ jobs' = [jobs EXCEPT ![req[r].job].status = "CANCELLED"]
    BY <1>4 DEF CancelWrite
  <2>2. \A k \in Jobs : rest[k].status = "CANCELLED"
    BY <1>1 DEF JobRow
  <2>3. jobs' = [k \in Jobs |-> IF k \in S THEN rest[k] ELSE jobs[k]]
    BY <1>1, <2>1
  <2> HIDE DEF S, rest
  <2> QED
    BY <1>2, <2>1, <2>2, <2>3
<1>5. ASSUME NEW S, Requeue(S) PROVE Kept
  BY <1>5 DEF Requeue
<1>6. ASSUME NEW r \in Requests, CreateJob(r) PROVE Kept
  <2> DEFINE k == First(FreeJobs)
             row == [status |-> "QUEUED", owner |-> req[r].user,
                     college |-> req[r].college, key |-> req[r].key]
  <2>1. k \in FreeJobs
    <3>1. FreeJobs \in SUBSET Nat /\ FreeJobs # {}
      BY <1>6, FiniteRows DEF CreateJob, FreeJobs
    <3> QED
      BY <3>1, FirstIsLeast, Zenon
  <2>2. jobs[k].status = "NONE"
    BY <2>1 DEF FreeJobs, Exists
  <2>3. jobs' = [jobs EXCEPT ![k] = row] /\ stopped' = stopped
    BY <1>6 DEF CreateJob
  <2> HIDE DEF k, row
  <2> QED
    BY <1>1, <2>2, <2>3
<1>7. ASSUME NEW x \in Runs, RunStep(x) PROVE Kept
  <2>1. stopped' = stopped
    BY <1>7 DEF RunStep, RunRead, RunMark, ProviderAnswers, ProviderFails, RunBill, RunFinish, RunFail
  <2>2. ASSUME x[1] = j, run[x].pc \notin Unread PROVE Past(j) # {}
    BY <2>2 DEF Past, Unread
  <2>3. ASSUME run[x].pc \in Unread PROVE jobs' = jobs
    BY <1>7, <2>3 DEF RunStep, RunRead, RunMark, ProviderAnswers, ProviderFails, RunBill, RunFinish,
       RunFail, Unread
  <2>4. ASSUME x[1] # j PROVE jobs'[j] = jobs[j]
    <3>1. \/ jobs' = jobs
          \/ \E s : jobs' = [jobs EXCEPT ![x[1]].status = s]
      BY <1>7 DEF RunStep, RunRead, RunMark, ProviderAnswers, ProviderFails, RunBill, RunFinish,
         RunFail
    <3> QED
      BY <1>1, <2>4, <3>1
  <2> QED
    BY <2>1, <2>2, <2>3, <2>4
<1>8. ASSUME NEW r \in Requests, Request(r)
      PROVE  (jobs' = jobs /\ stopped' = stopped) \/ \E u \in Users : CancelBatchGeneration(r, u)
  BY <1>8, ZenonT(60) DEF Request, GenerateQuestions, BatchGenerateQuestions, GetBatchGeneration,
     RetryBatchGeneration, CancelJob, RegenerateJob
<1>9. ASSUME NEW r \in Requests, HandlerStep(r)
      PROVE  \/ jobs' = jobs /\ stopped' = stopped
             \/ CreateJob(r) \/ RetryWrite(r) \/ RegenerateWrite(r) \/ CancelWrite(r)
  BY <1>9 DEF HandlerStep, BatchChunk, BatchFinish, ProgressRead, ProgressWrite, BatchWrite
<1>10. ASSUME NEW r \in Requests, RetryWrite(r) \/ RegenerateWrite(r) PROVE \E S : Requeue(S)
  BY <1>10 DEF RetryWrite, RegenerateWrite
<1>11. BreakerCools \/ Crash \/ UNCHANGED genVars => jobs' = jobs /\ stopped' = stopped
  BY DEF BreakerCools, Crash, genVars
<1>12. jobs' = jobs /\ stopped' = stopped => Kept
  OBVIOUS
<1> HIDE DEF Kept, Now
<1>13. Kept \/ Now
  BY <1>3, <1>4, <1>5, <1>6, <1>7, <1>8, <1>9, <1>10, <1>11, <1>12 DEF GenNext
<1> QED
  BY <1>13 DEF Kept, Now

LEMMA StaysUnread ==
  GenInv /\ [GenNext]_genVars => StoppedUnread'
<1> SUFFICES ASSUME GenInv, [GenNext]_genVars, NEW j \in Jobs, stopped'[j] # -1
             PROVE  /\ Past(j)' = {}
                    /\ jobs'[j].status = "CANCELLED"
                    /\ Cardinality(ResultsOf(j)') = stopped'[j]
  BY DEF StoppedUnread
<1>1. CASE /\ stopped'[j] = stopped[j]
           /\ Past(j) = {} /\ jobs[j].status = "CANCELLED" => jobs'[j].status = "CANCELLED"
  <2>1. /\ Past(j) = {} /\ jobs[j].status = "CANCELLED"
        /\ Cardinality(ResultsOf(j)) = stopped[j]
    BY <1>1 DEF GenInv, StoppedUnread
  <2>2. Past(j)' = {}
    <3>1. \A y \in Runs : run'[y].pc \notin Unread =>
            run[y].pc \notin Unread \/ jobs[y[1]].status # "CANCELLED"
      BY RunsStep
    <3> QED
      BY <2>1, <3>1 DEF Past, Unread
  <2>3. ResultsOf(j)' = ResultsOf(j)
    <3>1. ASSUME NEW x \in Runs, ProviderAnswers(x) PROVE x[1] # j
      BY <2>1, <3>1 DEF ProviderAnswers, Past
    <3> QED
      BY <3>1, ResultsStep, Answered
  <2> QED
    BY <1>1, <2>1, <2>2, <2>3
<1>2. CASE /\ Past(j) = {} /\ jobs'[j].status = "CANCELLED"
           /\ stopped'[j] = Cardinality(ResultsOf(j))
           /\ run' = run /\ results' = results
  BY <1>2 DEF Past, ResultsOf
<1> QED
  BY <1>1, <1>2, StoppedStep

\* usage only grows at the end of a billing run.
LEMMA StaysBilled ==
  GenInv /\ [GenNext]_genVars => usage' \in [Jobs -> Nat] /\ BilledOrBilling'
<1> SUFFICES ASSUME GenInv, [GenNext]_genVars
             PROVE  usage' \in [Jobs -> Nat] /\ BilledOrBilling'
  OBVIOUS
<1>1. /\ usage \in [Jobs -> Nat] /\ run \in [Runs -> RunRow]
      /\ \A j \in Jobs : usage[j] + Cardinality(Billing(j)) <= Cardinality(ResultsOf(j))
  BY DEF GenInv, GenTypeOK, RunRow, BilledOrBilling
<1>2. \A j \in Jobs : /\ IsFiniteSet(Billing(j)) /\ IsFiniteSet(ResultsOf(j))
                      /\ Cardinality(Billing(j)) \in Nat /\ Cardinality(ResultsOf(j)) \in Nat
  <2> SUFFICES ASSUME NEW j \in Jobs
               PROVE  IsFiniteSet(Billing(j)) /\ IsFiniteSet(ResultsOf(j))
    BY FS_CardinalityType
  <2>1. Billing(j) \subseteq Runs /\ ResultsOf(j) \subseteq Results
    BY DEF Billing, ResultsOf
  <2> QED
    BY <2>1, FiniteRows, FS_Subset
<1>3. \A y \in Runs : run'[y].pc = "bill" => run[y].pc = "bill" \/ ProviderAnswers(y)
  BY RunsStep
<1>4. CASE \E x \in Runs : ProviderAnswers(x)
  <2>1. PICK x \in Runs : ProviderAnswers(x)
    BY <1>4
  <2>2. /\ usage' = usage /\ run[x].pc = "call" /\ x[1] \in Jobs
        /\ run' = [run EXCEPT ![x].pc = "bill"]
    BY <2>1 DEF ProviderAnswers, Goto, Runs
  <2>3. Billing(x[1])' = Billing(x[1]) \cup {x} /\ x \notin Billing(x[1])
    BY <1>1, <2>2 DEF Billing, RunRow
  <2>4. \A j \in Jobs : j # x[1] => Billing(j)' = Billing(j)
    BY <1>1, <2>2 DEF Billing, RunRow
  <2>5. Cardinality(Billing(x[1])') = Cardinality(Billing(x[1])) + 1
    BY <1>2, <2>2, <2>3, FS_AddElement
  <2>6. /\ Cardinality(ResultsOf(x[1])') = Cardinality(ResultsOf(x[1])) + 1
        /\ \A j \in Jobs : j # x[1] => ResultsOf(j)' = ResultsOf(j)
    BY <2>1, Answered
  <2>7. ASSUME NEW j \in Jobs
        PROVE  usage'[j] + Cardinality(Billing(j)') <= Cardinality(ResultsOf(j)')
    <3>1. CASE j = x[1]
      BY <1>1, <1>2, <2>2, <2>5, <2>6, <3>1
    <3>2. CASE j # x[1]
      BY <1>1, <2>2, <2>4, <2>6, <3>2
    <3> QED
      BY <3>1, <3>2
  <2> QED
    BY <1>1, <2>2, <2>7 DEF BilledOrBilling
<1>5. CASE ~\E x \in Runs : ProviderAnswers(x)
  <2>1. \A j \in Jobs : ResultsOf(j)' = ResultsOf(j) /\ Billing(j)' \subseteq Billing(j)
    BY <1>3, <1>5, ResultsStep DEF Billing
  <2>2. CASE usage' = usage
    <3>1. ASSUME NEW j \in Jobs
          PROVE  usage'[j] + Cardinality(Billing(j)') <= Cardinality(ResultsOf(j)')
      <4>1. /\ Cardinality(Billing(j)') <= Cardinality(Billing(j))
            /\ Cardinality(Billing(j)') \in Nat
        BY <1>2, <2>1, FS_Subset, FS_CardinalityType
      <4> QED
        BY <1>1, <1>2, <2>1, <2>2, <4>1
    <3> QED
      BY <1>1, <2>2, <3>1 DEF BilledOrBilling
  <2>3. CASE \E x \in Runs : RunBill(x)
    <3>1. PICK x \in Runs : RunBill(x)
      BY <2>3
    <3>2. /\ run[x].pc = "bill" /\ run' = [run EXCEPT ![x].pc = "finish"] /\ x[1] \in Jobs
          /\ usage' = [usage EXCEPT ![x[1]] = @ + 1]
      BY <3>1 DEF RunBill, Goto, Runs
    <3>3. Billing(x[1])' = Billing(x[1]) \ {x} /\ x \in Billing(x[1])
      BY <1>1, <3>2 DEF Billing, RunRow
    <3>4. Cardinality(Billing(x[1])') = Cardinality(Billing(x[1])) - 1
      BY <1>2, <3>2, <3>3, FS_RemoveElement, ZenonT(120)
    <3>5. ASSUME NEW j \in Jobs
          PROVE  usage'[j] + Cardinality(Billing(j)') <= Cardinality(ResultsOf(j)')
      <4>1. CASE j = x[1]
        BY <1>1, <1>2, <2>1, <3>2, <3>4, <4>1
      <4>2. CASE j # x[1]
        <5>1. /\ Cardinality(Billing(j)') <= Cardinality(Billing(j))
              /\ Cardinality(Billing(j)') \in Nat
          BY <1>2, <2>1, FS_Subset, FS_CardinalityType
        <5>2. usage'[j] = usage[j]
          BY <1>1, <3>2, <4>2
        <5> QED
          BY <1>1, <1>2, <2>1, <5>1, <5>2
      <4> QED
        BY <4>1, <4>2
    <3>6. usage' \in [Jobs -> Nat]
      BY <1>1, <3>2
    <3> QED
      BY <3>5, <3>6 DEF BilledOrBilling
  <2>4. usage' = usage \/ \E x \in Runs : RunBill(x)
    <3>1. ASSUME NEW r \in Requests, Request(r) PROVE usage' = usage
      BY <3>1, ZenonT(60) DEF Request, GenerateQuestions, BatchGenerateQuestions, GetBatchGeneration,
         CancelBatchGeneration, RetryBatchGeneration, CancelJob, RegenerateJob
    <3>2. ASSUME NEW r \in Requests, HandlerStep(r) PROVE usage' = usage
      BY <3>2 DEF HandlerStep, CreateJob, BatchChunk, BatchFinish, ProgressRead, ProgressWrite,
         RetryWrite, BatchWrite, CancelWrite, RegenerateWrite
    <3>3. ASSUME NEW x \in Runs, RunStep(x) PROVE usage' = usage \/ RunBill(x)
      BY <3>3 DEF RunStep, RunRead, RunMark, ProviderAnswers, ProviderFails, RunFinish, RunFail
    <3>4. BreakerCools \/ Crash \/ UNCHANGED genVars => usage' = usage
      BY DEF BreakerCools, Crash, genVars
    <3> QED
      BY <3>1, <3>2, <3>3, <3>4 DEF GenNext
  <2> QED
    BY <2>2, <2>3, <2>4
<1> QED
  BY <1>4, <1>5

LEMMA RestStep ==
  GenInv /\ [GenNext]_genVars =>
    /\ breaker' \in [failures : 0..OpenAfter, open : BOOLEAN]
    /\ stopped' \in [Jobs -> Nat \cup {-1}]
    /\ requests' \in 0..MaxRequests /\ crashes' \in 0..MaxCrashes
<1> SUFFICES ASSUME GenInv, [GenNext]_genVars
             PROVE  /\ breaker' \in [failures : 0..OpenAfter, open : BOOLEAN]
                    /\ stopped' \in [Jobs -> Nat \cup {-1}]
                    /\ requests' \in 0..MaxRequests /\ crashes' \in 0..MaxCrashes
  OBVIOUS
<1>1. /\ breaker \in [failures : 0..OpenAfter, open : BOOLEAN]
      /\ stopped \in [Jobs -> Nat \cup {-1}]
      /\ requests \in 0..MaxRequests /\ crashes \in 0..MaxCrashes
  BY DEF GenInv, GenTypeOK
<1>2. breaker' \in [failures : 0..OpenAfter, open : BOOLEAN]
  <2>1. [failures |-> 0, open |-> FALSE] \in [failures : 0..OpenAfter, open : BOOLEAN]
    BY Constants
  <2>2. CountFailure \in [failures : 0..OpenAfter, open : BOOLEAN]
    <3> DEFINE n == IF breaker.failures < OpenAfter THEN breaker.failures + 1 ELSE OpenAfter
               b == breaker.open \/ n >= OpenAfter
    <3>1. n \in 0..OpenAfter /\ b \in BOOLEAN
      BY <1>1, Constants
    <3>2. CountFailure = [failures |-> n, open |-> b]
      BY DEF CountFailure
    <3> HIDE DEF n, b
    <3> QED
      BY <3>1, <3>2
  <2>3. [breaker EXCEPT !.open = FALSE] \in [failures : 0..OpenAfter, open : BOOLEAN]
    BY <1>1
  <2>4. \/ breaker' = breaker \/ breaker' = [failures |-> 0, open |-> FALSE]
        \/ breaker' = CountFailure \/ breaker' = [breaker EXCEPT !.open = FALSE]
    <3>1. ASSUME NEW r \in Requests, Request(r) PROVE breaker' = breaker
      BY <3>1, ZenonT(60) DEF Request, GenerateQuestions, BatchGenerateQuestions, GetBatchGeneration,
         CancelBatchGeneration, RetryBatchGeneration, CancelJob, RegenerateJob
    <3>2. ASSUME NEW r \in Requests, HandlerStep(r) PROVE breaker' = breaker
      BY <3>2 DEF HandlerStep, CreateJob, BatchChunk, BatchFinish, ProgressRead, ProgressWrite,
         RetryWrite, BatchWrite, CancelWrite, RegenerateWrite
    <3>3. ASSUME NEW x \in Runs, RunStep(x)
          PROVE  \/ breaker' = breaker \/ breaker' = [failures |-> 0, open |-> FALSE]
                 \/ breaker' = CountFailure
      BY <3>3 DEF RunStep, RunRead, RunMark, ProviderAnswers, ProviderFails, RunBill, RunFinish, RunFail
    <3>4. Crash => breaker' = [failures |-> 0, open |-> FALSE]
      BY DEF Crash
    <3>5. BreakerCools => breaker' = [breaker EXCEPT !.open = FALSE]
      BY DEF BreakerCools
    <3>6. UNCHANGED genVars => breaker' = breaker
      BY DEF genVars
    <3> QED
      BY <3>1, <3>2, <3>3, <3>4, <3>5, <3>6 DEF GenNext
  <2> QED
    BY <1>1, <2>1, <2>2, <2>3, <2>4
<1>3. requests' \in 0..MaxRequests
  <2>1. requests' = requests \/ (requests < MaxRequests /\ requests' = requests + 1)
    <3>1. ASSUME NEW r \in Requests, Request(r)
          PROVE  requests < MaxRequests /\ requests' = requests + 1
      BY <3>1, ZenonT(60) DEF Request, GenerateQuestions, BatchGenerateQuestions, GetBatchGeneration,
         CancelBatchGeneration, RetryBatchGeneration, CancelJob, RegenerateJob, BatchRequest,
         JobRequest, Begin
    <3>2. ASSUME NEW r \in Requests, HandlerStep(r) PROVE requests' = requests
      BY <3>2 DEF HandlerStep, CreateJob, BatchChunk, BatchFinish, ProgressRead, ProgressWrite,
         RetryWrite, BatchWrite, CancelWrite, RegenerateWrite
    <3>3. ASSUME NEW x \in Runs, RunStep(x) PROVE requests' = requests
      BY <3>3 DEF RunStep, RunRead, RunMark, ProviderAnswers, ProviderFails, RunBill, RunFinish, RunFail
    <3>4. BreakerCools \/ Crash \/ UNCHANGED genVars => requests' = requests
      BY DEF BreakerCools, Crash, genVars
    <3> QED
      BY <3>1, <3>2, <3>3, <3>4 DEF GenNext
  <2> QED
    BY <1>1, <2>1, Constants
<1>4. crashes' \in 0..MaxCrashes
  <2>1. crashes' = crashes \/ (crashes < MaxCrashes /\ crashes' = crashes + 1)
    <3>1. ASSUME NEW r \in Requests, Request(r) PROVE crashes' = crashes
      BY <3>1, ZenonT(60) DEF Request, GenerateQuestions, BatchGenerateQuestions, GetBatchGeneration,
         CancelBatchGeneration, RetryBatchGeneration, CancelJob, RegenerateJob
    <3>2. ASSUME NEW r \in Requests, HandlerStep(r) PROVE crashes' = crashes
      BY <3>2 DEF HandlerStep, CreateJob, BatchChunk, BatchFinish, ProgressRead, ProgressWrite,
         RetryWrite, BatchWrite, CancelWrite, RegenerateWrite
    <3>3. ASSUME NEW x \in Runs, RunStep(x) PROVE crashes' = crashes
      BY <3>3 DEF RunStep, RunRead, RunMark, ProviderAnswers, ProviderFails, RunBill, RunFinish, RunFail
    <3>4. /\ BreakerCools \/ UNCHANGED genVars => crashes' = crashes
          /\ Crash => crashes < MaxCrashes /\ crashes' = crashes + 1
      BY DEF BreakerCools, Crash, genVars
    <3> QED
      BY <3>1, <3>2, <3>3, <3>4 DEF GenNext
  <2> QED
    BY <1>1, <2>1, Constants
<1>5. stopped' \in [Jobs -> Nat \cup {-1}]
  <2>1. \A S : Stop(S) \in [Jobs -> Nat \cup {-1}]
    <3>1. ASSUME NEW j \in Jobs PROVE Cardinality(ResultsOf(j)) \in Nat
      <4>1. ResultsOf(j) \subseteq Results
        BY DEF ResultsOf
      <4> QED
        BY <4>1, FiniteRows, FS_Subset, FS_CardinalityType
    <3> QED
      BY <1>1, <3>1 DEF Stop
  <2>2. ASSUME NEW S, Requeue(S) PROVE stopped' \in [Jobs -> Nat \cup {-1}]
    <3>1. stopped' = [j \in Jobs |-> IF j \in S THEN -1 ELSE stopped[j]]
      BY <2>2 DEF Requeue
    <3> QED
      BY <1>1, <3>1
  <2>3. \/ stopped' = stopped
        \/ \E S : stopped' = Stop(S)
        \/ \E S : Requeue(S)
    <3>1. ASSUME NEW r \in Requests, Request(r)
          PROVE  stopped' = stopped \/ \E u \in Users : CancelBatchGeneration(r, u)
      BY <3>1 DEF Request, GenerateQuestions, BatchGenerateQuestions, GetBatchGeneration,
         RetryBatchGeneration, CancelJob, RegenerateJob
    <3>2. ASSUME NEW r \in Requests, HandlerStep(r)
          PROVE  stopped' = stopped \/ RetryWrite(r) \/ CancelWrite(r) \/ RegenerateWrite(r)
      BY <3>2 DEF HandlerStep, CreateJob, BatchChunk, BatchFinish, ProgressRead, ProgressWrite,
         BatchWrite
    <3>3. ASSUME NEW x \in Runs, RunStep(x) PROVE stopped' = stopped
      BY <3>3 DEF RunStep, RunRead, RunMark, ProviderAnswers, ProviderFails, RunBill, RunFinish, RunFail
    <3>4. BreakerCools \/ Crash \/ UNCHANGED genVars => stopped' = stopped
      BY DEF BreakerCools, Crash, genVars
    <3>5. ASSUME NEW r \in Requests, NEW u \in Users, CancelBatchGeneration(r, u)
          PROVE  \E S : stopped' = Stop(S)
      BY <3>5 DEF CancelBatchGeneration
    <3>6. ASSUME NEW r \in Requests, CancelWrite(r) PROVE \E S : stopped' = Stop(S)
      BY <3>6 DEF CancelWrite
    <3>7. ASSUME NEW r \in Requests, RetryWrite(r) \/ RegenerateWrite(r) PROVE \E S : Requeue(S)
      BY <3>7 DEF RetryWrite, RegenerateWrite
    <3> QED
      BY <3>1, <3>2, <3>3, <3>4, <3>5, <3>6, <3>7 DEF GenNext
  <2> QED
    BY <1>1, <2>1, <2>2, <2>3
<1> QED
  BY <1>2, <1>3, <1>4, <1>5

LEMMA GenStep == GenInv /\ [GenNext]_genVars => GenInv'
<1> SUFFICES ASSUME GenInv, [GenNext]_genVars PROVE GenInv'
  OBVIOUS
<1>1. GenTypeOK'
  BY JobsStep, ResultsStep, StaysBilled, BatchStep, RunsStep, RowsStep, RestStep
     DEF GenTypeOK, JobRow, ResultRow, BatchRow, RunRow
<1> QED
  BY <1>1, RowsStep, BatchStep, StaysUnread, StaysBilled DEF GenInv

LEMMA GenInductive == GenSpec => []GenInv
  BY GenStart, GenStep, PTL DEF GenSpec

\* Whatever runs, batches, cancellations and restarts come together, what was
\* stopped in time stays stopped, a completed batch has all its jobs, and no use
\* of the provider is recorded without its questions (processGenerationJob,
\* cancelJob, batchGenerateQuestions, batchProgress).
THEOREM GenerationHolds == GenSpec => []GenerationAccounted
<1>1. GenInv => GenerationAccounted
  <2> SUFFICES ASSUME GenInv PROVE GenerationAccounted
    OBVIOUS
  <2>1. StoppedStays /\ BatchCompleteIsWhole
    BY DEF GenInv, StoppedUnread, StoppedStays, BatchWhole, BatchCompleteIsWhole
  <2>2. ASSUME NEW j \in Jobs PROVE usage[j] <= Cardinality(ResultsOf(j))
    <3>1. Billing(j) \subseteq Runs /\ ResultsOf(j) \subseteq Results
      BY DEF Billing, ResultsOf
    <3>2. Cardinality(Billing(j)) \in Nat /\ Cardinality(ResultsOf(j)) \in Nat
      BY <3>1, FiniteRows, FS_Subset, FS_CardinalityType
    <3>3. usage[j] \in Nat /\ usage[j] + Cardinality(Billing(j)) <= Cardinality(ResultsOf(j))
      BY DEF GenInv, GenTypeOK, BilledOrBilling
    <3> QED
      BY <3>2, <3>3
  <2> QED
    BY <2>1, <2>2 DEF GenInv, GenerationAccounted, BilledHasResults
<1> QED
  BY <1>1, GenInductive, PTL

-----------------------------------------------------------------------------
(* Review and transfer of the questions. *)

\* What a transfer relies on: it takes only what was approved, and marks only
\* what it has created.
Transfer(q, made, approved) ==
    /\ q.op \in {"save", "mark"} => q.made \subseteq approved
    /\ q.op = "mark" => q.left \in q.made /\ made[q.left] > 0

ReviewInv ==
    /\ GenInv
    /\ ReviewTypeOK
    /\ \A g \in Results : IsFiniteSet(versions[g])
    /\ \A g \in Results : results[g].status = "APPROVED" => g \in everApproved
    /\ ApprovedFirst
    /\ SavedHasQuestion
    /\ \A r \in Requests : Transfer(req[r], bank, everApproved)

(* Templates, syllabi and papers. *)

Entry == [version : Nat, content : Content]
Questions == 1..Len(Pool)
MemoRow == [content : Content \cup {None}, hist : Seq(Entry), version : Nat,
            set : SUBSET (Texts \cup (1..2) \cup Questions)]

\* The row a handler has read is one the template has had.
PromptGood(op, m, s) ==
    /\ op = "prompt" =>
         /\ m.content \in Content /\ m.set \subseteq Texts /\ m.set # {}
         /\ <<m.version, m.content>> \in s
         /\ \A i \in 1..Len(m.hist) : <<m.hist[i].version, m.hist[i].content>> \in s
    /\ op = "rollback" => m.content \in Content

TemplateInv ==
    /\ HistoryTruthful
    /\ <<template.version, template.content>> \in said
    /\ \A r \in Requests : PromptGood(req[r].op, memo[r], said)

\* A syllabus without units has an update under way that will create some.
SyllabusInv ==
    /\ \A r \in Requests : req[r].op = "units" => memo[r].set \in UnitSets
    /\ crashes = 0 /\ syllabus = {} => \E r \in Requests : req[r].op = "units"

\* The sets made so far are among the questions the loop has put aside, and the
\* total of the assessment is that of the questions still to be attached.
PaperInv ==
    /\ exam = [made |-> exam.made, total |-> exam.total, rows |-> exam.rows]
    /\ exam.rows # {} => exam.made
    /\ PaperTotalExact
    /\ SetsDisjoint
    /\ \A r \in Requests :
         /\ req[r].op = "paper" => /\ memo[r].set \subseteq Questions
                                  /\ exam.made /\ exam.total = Total(memo[r].set)
         /\ req[r].op = "sets" => /\ memo[r].set \subseteq Questions
                                 /\ \A i \in 1..Len(papers[r]) : papers[r][i] \subseteq memo[r].set

LibInv ==
    /\ ReviewInv
    /\ LibTypeOK
    /\ memo \in [Requests -> MemoRow]
    /\ TemplateInv
    /\ SyllabusInv
    /\ PaperInv

GenOps == {"idle", "create", "chunk", "chunkCreate", "progress", "progressWrite",
           "retry", "batchWrite", "cancel", "requeue"}
LaterOps == {"idle", "version", "save", "mark", "approve", "candidate",
             "prompt", "rollback", "units", "paper", "sets"}

\* A generation leaves the handlers of the other modules alone, unless the
\* process restarts, and neither approves nor saves a question.
LEMMA GenFrame ==
  ASSUME GenInv, [GenNext]_genVars
  PROVE  /\ \A r \in Requests : \/ req'[r] = req[r]
                                \/ /\ req'[r].op \in GenOps
                                   /\ crashes' = crashes => req[r].op \in GenOps
         /\ crashes' = crashes \/ crashes' = crashes + 1
         /\ \A g \in Results : results'[g].status \in {results[g].status, "PENDING", "REJECTED"}
<1> DEFINE Rows == \A r \in Requests : \/ req'[r] = req[r]
                                       \/ /\ req'[r].op \in GenOps
                                          /\ crashes' = crashes => req[r].op \in GenOps
           Ends == \A g \in Results :
                     results'[g].status \in {results[g].status, "PENDING", "REJECTED"}
<1>1. /\ req \in [Requests -> ReqRow] /\ crashes \in Nat
      /\ results \in [Results -> ResultRow]
  BY Constants DEF GenInv, GenTypeOK, ResultRow
<1>2. req' = req => Rows
  OBVIOUS
<1>3. ASSUME NEW r \in Requests, NEW row, req' = [req EXCEPT ![r] = row],
             row.op \in GenOps, req[r].op \in GenOps
      PROVE  Rows
  <2>1. \A x \in Requests : req'[x] = req[x] \/ (x = r /\ req'[x] = row)
    BY <1>1, <1>3
  <2> QED
    BY <1>3, <2>1
<1>4. NoReq.op \in GenOps /\ \A q \in ReqRow, o \in GenOps : [q EXCEPT !.op = o].op \in GenOps
  BY IdleRow DEF ReqRow, GenOps
<1>5. ASSUME NEW r \in Requests, Request(r) PROVE Rows /\ crashes' = crashes
  <2>1. req[r].op = "idle" /\ crashes' = crashes /\ req[r].op \in GenOps
    BY <1>5, ZenonT(60) DEF Request, GenerateQuestions, BatchGenerateQuestions, GetBatchGeneration,
       CancelBatchGeneration, RetryBatchGeneration, CancelJob, RegenerateJob, BatchRequest,
       JobRequest, Begin, GenOps
  <2>2. \/ req' = req
        \/ \E row : /\ req' = [req EXCEPT ![r] = row]
                    /\ row.op \in {"create", "chunk", "progress", "batchWrite", "retry",
                                   "cancel", "requeue"}
    <3>1. ASSUME NEW u \in Users, NEW c \in Colleges, NEW k \in Keys,
                 GenerateQuestions(r, u, c, k)
          PROVE  \/ req' = req
                 \/ \E row : req' = [req EXCEPT ![r] = row] /\ row.op = "create"
      <4> DEFINE row == [NoReq EXCEPT !.op = "create", !.user = u, !.college = c, !.key = k]
      <4>1. row.op = "create"
        BY DEF NoReq
      <4> QED
        BY <3>1, <4>1 DEF GenerateQuestions
    <3>2. ASSUME NEW u \in Users, NEW c \in Colleges, BatchGenerateQuestions(r, u, c)
          PROVE  \E row : req' = [req EXCEPT ![r] = row] /\ row.op = "chunk"
      <4> DEFINE row == [NoReq EXCEPT !.op = "chunk", !.user = u, !.college = c, !.left = Chunks]
      <4>1. row.op = "chunk"
        BY DEF NoReq
      <4> QED
        BY <3>2, <4>1 DEF BatchGenerateQuestions
    <3>3. ASSUME NEW u \in Users, GetBatchGeneration(r, u)
          PROVE  \E row : req' = [req EXCEPT ![r] = row] /\ row.op = "progress"
      <4> DEFINE row == [req[r] EXCEPT !.op = "progress"]
      <4>1. row.op = "progress"
        BY <1>1 DEF ReqRow
      <4> QED
        BY <3>3, <4>1 DEF GetBatchGeneration
    <3>4. ASSUME NEW u \in Users, CancelBatchGeneration(r, u)
          PROVE  \E row : req' = [req EXCEPT ![r] = row] /\ row.op = "batchWrite"
      <4> DEFINE row == [req[r] EXCEPT !.op = "batchWrite", !.status = "CANCELLED"]
      <4>1. row.op = "batchWrite"
        BY <1>1 DEF ReqRow
      <4> QED
        BY <3>4, <4>1 DEF CancelBatchGeneration
    <3>5. ASSUME NEW u \in Users, RetryBatchGeneration(r, u)
          PROVE  \E row : req' = [req EXCEPT ![r] = row] /\ row.op = "retry"
      <4> DEFINE row == [req[r] EXCEPT !.op = "retry", !.made = InBatch("FAILED")]
      <4>1. row.op = "retry"
        BY <1>1 DEF ReqRow
      <4> QED
        BY <3>5, <4>1 DEF RetryBatchGeneration
    <3>6. ASSUME NEW u \in Users, NEW j \in Jobs, CancelJob(r, u, j) \/ RegenerateJob(r, u, j)
          PROVE  \E row : req' = [req EXCEPT ![r] = row] /\ row.op \in {"cancel", "requeue"}
      <4>1. [req[r] EXCEPT !.op = "cancel", !.job = j].op = "cancel"
            /\ [req[r] EXCEPT !.op = "requeue", !.job = j].op = "requeue"
        BY <1>1 DEF ReqRow
      <4> QED
        BY <3>6, <4>1 DEF CancelJob, RegenerateJob
    <3> QED
      BY <1>5, <3>1, <3>2, <3>3, <3>4, <3>5, <3>6 DEF Request
  <2> HIDE DEF Rows
  <2>3. \/ req' = req \/ \E row : req' = [req EXCEPT ![r] = row] /\ row.op \in GenOps
    BY <2>2 DEF GenOps
  <2> QED
    BY <1>2, <1>3, <2>1, <2>3
<1>6. ASSUME NEW r \in Requests, HandlerStep(r) PROVE Rows /\ crashes' = crashes
  <2>1. req[r].op \in GenOps /\ crashes' = crashes
    BY <1>6 DEF HandlerStep, CreateJob, BatchChunk, BatchFinish, ProgressRead, ProgressWrite,
       RetryWrite, BatchWrite, CancelWrite, RegenerateWrite, GenOps
  <2>2. \E row : req' = [req EXCEPT ![r] = row] /\ row.op \in GenOps
    <3>1. ASSUME CreateJob(r) \/ BatchChunk(r) PROVE \E row : req' = [req EXCEPT ![r] = row] /\ row.op \in GenOps
      <4> DEFINE q == req[r]
                 one == [q EXCEPT !.op = "chunk", !.left = q.left - 1,
                                  !.made = q.made \cup {First(FreeJobs)}]
                 two == [q EXCEPT !.op = "chunkCreate"]
      <4>1. /\ one.op \in GenOps /\ two.op \in GenOps
        BY <1>1 DEF ReqRow, GenOps
      <4>2. \/ req' = [req EXCEPT ![r] = NoReq]
            \/ req' = [req EXCEPT ![r] = one]
            \/ req' = [req EXCEPT ![r] = two]
        BY <3>1 DEF CreateJob, BatchChunk
      <4> HIDE DEF one, two
      <4> QED
        BY <1>4, <4>1, <4>2
    <3>2. ASSUME BatchFinish(r) \/ ProgressRead(r) \/ BatchWrite(r) \/ RetryWrite(r)
          PROVE  \E row : req' = [req EXCEPT ![r] = row] /\ row.op \in GenOps
      <4> DEFINE q == req[r]
                 one == [q EXCEPT !.op = "progress"]
                 two == [NoReq EXCEPT !.op = "progressWrite", !.status = BatchStatusNow]
                 three == [q EXCEPT !.op = "batchWrite", !.status = "PROCESSING"]
      <4>1. /\ one.op \in GenOps /\ two.op \in GenOps /\ three.op \in GenOps
        BY <1>1, IdleRow DEF ReqRow, GenOps
      <4>2. \/ req' = [req EXCEPT ![r] = one]
            \/ req' = [req EXCEPT ![r] = two]
            \/ req' = [req EXCEPT ![r] = three]
        BY <3>2 DEF BatchFinish, ProgressRead, BatchWrite, RetryWrite
      <4> HIDE DEF one, two, three
      <4> QED
        BY <4>1, <4>2
    <3>3. ASSUME ProgressWrite(r) \/ CancelWrite(r) \/ RegenerateWrite(r)
          PROVE  req' = [req EXCEPT ![r] = NoReq]
      BY <3>3 DEF ProgressWrite, CancelWrite, RegenerateWrite
    <3> QED
      BY <1>4, <1>6, <3>1, <3>2, <3>3 DEF HandlerStep
  <2> HIDE DEF Rows
  <2> QED
    BY <1>3, <2>1, <2>2
<1>7. ASSUME Crash PROVE Rows /\ crashes' = crashes + 1
  BY <1>1, <1>4, <1>7 DEF Crash
<1>8. ASSUME NEW x \in Runs, RunStep(x) PROVE req' = req /\ crashes' = crashes
  BY <1>8 DEF RunStep, RunRead, RunMark, ProviderAnswers, ProviderFails, RunBill, RunFinish, RunFail
<1>9. BreakerCools \/ UNCHANGED genVars => req' = req /\ crashes' = crashes
  BY DEF BreakerCools, genVars
<1>10. Rows /\ (crashes' = crashes \/ crashes' = crashes + 1)
  <2> HIDE DEF Rows
  <2> QED
    BY <1>2, <1>5, <1>6, <1>7, <1>8, <1>9 DEF GenNext
<1>11. Ends
  <2>1. ASSUME NEW r \in Requests, NEW u \in Users, NEW j \in Jobs, RegenerateJob(r, u, j)
        PROVE  Ends
    <3>1. results' = [g \in Results |-> IF results[g] = [job |-> j, status |-> "PENDING"]
             THEN [job |-> j, status |-> "REJECTED"] ELSE results[g]]
      BY <2>1 DEF RegenerateJob
    <3> QED
      BY <3>1
  <2>2. ASSUME NEW x \in Runs, ProviderAnswers(x) PROVE Ends
    <3> DEFINE h == First(FreeResults)
    <3>1. results' = [results EXCEPT ![h] = [job |-> x[1], status |-> "PENDING"]]
      BY <2>2 DEF ProviderAnswers
    <3> HIDE DEF h
    <3> QED
      BY <1>1, <3>1
  <2>3. \/ results' = results
        \/ \E r \in Requests, u \in Users, j \in Jobs : RegenerateJob(r, u, j)
        \/ \E x \in Runs : ProviderAnswers(x)
    <3>1. ASSUME NEW r \in Requests, Request(r)
          PROVE  results' = results \/ \E u \in Users, j \in Jobs : RegenerateJob(r, u, j)
      BY <3>1 DEF Request, GenerateQuestions, BatchGenerateQuestions, GetBatchGeneration,
         CancelBatchGeneration, RetryBatchGeneration, CancelJob
    <3>2. ASSUME NEW r \in Requests, HandlerStep(r) PROVE results' = results
      BY <3>2 DEF HandlerStep, CreateJob, BatchChunk, BatchFinish, ProgressRead, ProgressWrite,
         RetryWrite, BatchWrite, CancelWrite, RegenerateWrite
    <3>3. ASSUME NEW x \in Runs, RunStep(x) PROVE results' = results \/ ProviderAnswers(x)
      BY <3>3 DEF RunStep, RunRead, RunMark, ProviderFails, RunBill, RunFinish, RunFail
    <3>4. BreakerCools \/ Crash \/ UNCHANGED genVars => results' = results
      BY DEF BreakerCools, Crash, genVars
    <3> QED
      BY <3>1, <3>2, <3>3, <3>4 DEF GenNext
  <2>4. results' = results => Ends
    OBVIOUS
  <2> HIDE DEF Ends
  <2> QED
    BY <2>1, <2>2, <2>3, <2>4
<1> QED
  BY <1>10, <1>11

\* Reviews, documents and the library keep what the generation relies on.
LEMMA OthersKeepGen ==
  ASSUME GenInv, UNCHANGED <<jobs, usage, batch, run, breaker, stopped, crashes>>,
         requests' \in 0..MaxRequests,
         results' \in [Results -> ResultRow],
         \A g \in Results : results'[g].job = results[g].job,
         req' \in [Requests -> ReqRow],
         \A r \in Requests : req'[r] = req[r] \/ req'[r].op \in LaterOps
  PROVE  GenInv'
<1>1. GenTypeOK'
  BY DEF GenInv, GenTypeOK, ResultRow
<1>2. HandlersGood'
  <2> SUFFICES ASSUME NEW r \in Requests PROVE RowGood(req'[r], jobs', batch')
    BY DEF HandlersGood
  <2>1. CASE req'[r] = req[r]
    <3>1. RowGood(req[r], jobs, batch)
      BY DEF GenInv, HandlersGood
    <3> QED
      BY <2>1, <3>1
  <2>2. CASE req'[r].op \in LaterOps
    BY <2>2 DEF RowGood, LaterOps
  <2> QED
    BY <2>1, <2>2
<1>3. \A j \in Jobs : ResultsOf(j)' = ResultsOf(j)
  BY DEF ResultsOf
<1>4. BatchWhole' /\ StoppedUnread' /\ BilledOrBilling'
  BY <1>3 DEF GenInv, BatchWhole, StoppedUnread, BilledOrBilling, Past, Billing
<1> QED
  BY <1>1, <1>2, <1>4 DEF GenInv

LEMMA RowPut ==
  ASSUME req \in [Requests -> ReqRow], NEW r \in Requests, NEW row \in ReqRow,
         req' = [req EXCEPT ![r] = row]
  PROVE  /\ req' \in [Requests -> ReqRow]
         /\ \A x \in Requests : req'[x] = req[x] \/ (x = r /\ req'[x] = row)
  OBVIOUS

LEMMA ReviewTypes ==
  ASSUME ReviewInv
  PROVE  /\ req \in [Requests -> ReqRow] /\ results \in [Results -> ResultRow]
         /\ requests \in 0..MaxRequests /\ requests \in Nat
         /\ bank \in [Results -> Nat] /\ everApproved \subseteq Results
         /\ versions \in [Results -> SUBSET Nat] /\ Results \subseteq Nat /\ Jobs \subseteq Nat
<1>1. requests \in 0..MaxRequests
  BY DEF ReviewInv, GenInv, GenTypeOK
<1>2. requests \in Nat
  BY <1>1, Constants
<1>3. req \in [Requests -> ReqRow] /\ results \in [Results -> ResultRow]
  BY DEF ReviewInv, GenInv, GenTypeOK, ResultRow
<1> QED
  BY <1>1, <1>2, <1>3, FiniteRows DEF ReviewInv, ReviewTypeOK

\* A step of these modules that leaves the questions alone.
LEMMA PlainKeeps ==
  ASSUME ReviewInv, UNCHANGED <<JobRows, results, bank, everApproved>>,
         requests' \in 0..MaxRequests,
         ReviewTypeOK', \A g \in Results : IsFiniteSet(versions'[g]),
         req' \in [Requests -> ReqRow],
         \A r \in Requests : req'[r] = req[r] \/ req'[r].op \in LaterOps \ {"save", "mark"}
  PROVE  ReviewInv'
<1>1. UNCHANGED <<jobs, usage, batch, run, breaker, stopped, crashes>>
  BY DEF JobRows
<1>2. GenInv'
  BY <1>1, ReviewTypes, OthersKeepGen DEF ReviewInv, LaterOps
<1>3. \A r \in Requests : Transfer(req'[r], bank', everApproved')
  BY DEF ReviewInv, Transfer, LaterOps
<1> QED
  BY <1>2, <1>3 DEF ReviewInv, ApprovedFirst, SavedHasQuestion

\* A step of a transfer or a review: what it must show of the questions.
LEMMA QuestionsKept ==
  ASSUME ReviewInv, UNCHANGED <<JobRows, versions, doc, docBank>>,
         requests' \in 0..MaxRequests,
         bank' \in [Results -> Nat], everApproved' \subseteq Results,
         results' \in [Results -> ResultRow],
         \A g \in Results : /\ results'[g].job = results[g].job
                            /\ results'[g].status = "APPROVED" => g \in everApproved'
                            /\ bank'[g] > 0 => g \in everApproved'
                            /\ results'[g].status = "SAVED" => bank'[g] > 0,
         req' \in [Requests -> ReqRow],
         \A r \in Requests : /\ req'[r] = req[r] \/ req'[r].op \in LaterOps
                             /\ Transfer(req'[r], bank', everApproved')
  PROVE  ReviewInv'
<1>1. UNCHANGED <<jobs, usage, batch, run, breaker, stopped, crashes>>
  BY DEF JobRows
<1>2. GenInv'
  BY <1>1, OthersKeepGen DEF ReviewInv
<1>3. ReviewTypeOK'
  BY DEF ReviewInv, ReviewTypeOK
<1> QED
  BY <1>2, <1>3 DEF ReviewInv, ApprovedFirst, SavedHasQuestion

LEMMA ReviewRequestStep ==
  ASSUME ReviewInv, NEW r \in Requests, ReviewRequest(r)
  PROVE  ReviewInv'
<1>1. /\ req \in [Requests -> ReqRow] /\ results \in [Results -> ResultRow]
      /\ requests \in 0..MaxRequests /\ requests \in Nat
      /\ bank \in [Results -> Nat] /\ everApproved \subseteq Results
      /\ versions \in [Results -> SUBSET Nat] /\ Results \subseteq Nat /\ Jobs \subseteq Nat
      /\ ReviewTypeOK
  BY ReviewTypes DEF ReviewInv
<1>2. requests' \in 0..MaxRequests
  <2>1. requests < MaxRequests /\ requests' = requests + 1
    BY ZenonT(60) DEF ReviewRequest, SaveApproved, ReviewResults, UpdateGeneratedQuestion, ImportDocument,
       ProcessDocumentJob, ApproveDocumentJob, DeleteDocumentJob, JobRequest, DocRequest, Begin
  <2> QED
    BY <1>1, <2>1, Constants, SMTT(30)
<1>3. ASSUME NEW u \in Users, NEW j \in Jobs, NEW S \in SUBSET Results,
             NEW d \in {"APPROVED", "REJECTED"}, ReviewResults(r, u, j, S, d)
      PROVE  ReviewInv'
  <2>1. /\ results' = [g \in Results |-> IF g \in S
               THEN [results[g] EXCEPT !.status = d] ELSE results[g]]
        /\ everApproved' = IF d = "APPROVED" THEN everApproved \cup S ELSE everApproved
        /\ UNCHANGED <<JobRows, req, bank, versions, doc, docBank>>
    BY <1>3 DEF ReviewResults
  <2>2. \A g \in Results : [results[g] EXCEPT !.status = d] \in ResultRow
                        /\ [results[g] EXCEPT !.status = d].status = d
                        /\ [results[g] EXCEPT !.status = d].job = results[g].job
    BY <1>1 DEF ResultRow, ReviewStatus
  <2>3. /\ results' \in [Results -> ResultRow]
        /\ \A g \in Results : /\ results'[g].job = results[g].job
                              /\ results'[g].status = IF g \in S THEN d ELSE results[g].status
    BY <1>1, <2>1, <2>2
  <2>4. everApproved \subseteq everApproved' /\ everApproved' \subseteq Results
    BY <1>1, <2>1
  <2>5. ASSUME NEW g \in Results
        PROVE  /\ results'[g].status = "APPROVED" => g \in everApproved'
               /\ bank'[g] > 0 => g \in everApproved'
               /\ results'[g].status = "SAVED" => bank'[g] > 0
    <3>1. CASE g \in S
      <4>1. results'[g].status = d
        BY <2>3, <3>1
      <4>2. d = "APPROVED" => g \in everApproved'
        BY <2>1, <3>1
      <4> QED
        BY <2>1, <2>4, <4>1, <4>2 DEF ReviewInv, ApprovedFirst
    <3>2. CASE g \notin S
      <4>1. results'[g].status = results[g].status
        BY <2>3, <3>2
      <4> QED
        BY <2>1, <2>4, <4>1 DEF ReviewInv, ApprovedFirst, SavedHasQuestion
    <3> QED
      BY <3>1, <3>2
  <2>6. \A x \in Requests : Transfer(req'[x], bank', everApproved')
    BY <2>1, <2>4 DEF ReviewInv, Transfer
  <2> QED
    BY <1>1, <1>2, <2>1, <2>3, <2>4, <2>5, <2>6, QuestionsKept
<1>4. ASSUME NEW u \in Users, NEW j \in Jobs, SaveApproved(r, u, j) PROVE ReviewInv'
  <2> DEFINE S == ApprovedOf(j)
             row == [NoReq EXCEPT !.op = "save", !.made = S, !.job = j]
  <2>1. req' = [req EXCEPT ![r] = row] /\ UNCHANGED <<JobRows, results, reviewRows>>
    BY <1>4 DEF SaveApproved, Work
  <2>2. S \subseteq everApproved /\ S \in SUBSET Nat /\ j \in Nat
    BY <1>1 DEF ApprovedOf, ResultsOf, ReviewInv
  <2> HIDE DEF S
  <2>3. row \in ReqRow /\ row.op = "save" /\ row.made = S
    BY <2>2 DEF NoReq, ReqRow, Ops, BatchStatus
  <2> HIDE DEF row
  <2>4. /\ req' \in [Requests -> ReqRow]
        /\ \A x \in Requests : req'[x] = req[x] \/ (x = r /\ req'[x] = row)
    BY <1>1, <2>1, <2>3, RowPut
  <2>5. UNCHANGED <<bank, versions, doc, docBank, everApproved>>
    BY <2>1 DEF reviewRows
  <2>6. ASSUME NEW x \in Requests
        PROVE  (req'[x] = req[x] \/ req'[x].op \in LaterOps) /\ Transfer(req'[x], bank', everApproved')
    <3>1. Transfer(row, bank, everApproved) /\ Transfer(req[x], bank, everApproved)
      BY <2>2, <2>3 DEF Transfer, ReviewInv
    <3> QED
      BY <2>3, <2>4, <2>5, <3>1 DEF LaterOps
  <2> QED
    BY <1>1, <1>2, <2>1, <2>4, <2>5, <2>6, QuestionsKept
       DEF ReviewInv, ApprovedFirst, SavedHasQuestion
<1>5. ASSUME NEW g \in Results, NEW u \in Users, UpdateGeneratedQuestion(r, u, g) PROVE ReviewInv'
  <2> DEFINE n == Cardinality(versions[g])
             row == [NoReq EXCEPT !.op = "version", !.job = g, !.left = n]
  <2>1. req' = [req EXCEPT ![r] = row] /\ UNCHANGED <<JobRows, results, reviewRows>>
    BY <1>5 DEF UpdateGeneratedQuestion
  <2>2. n \in Nat /\ g \in Nat
    BY <1>1, FS_CardinalityType DEF ReviewInv
  <2> HIDE DEF n
  <2>3. row \in ReqRow /\ row.op = "version"
    BY <2>2 DEF NoReq, ReqRow, Ops, BatchStatus
  <2> HIDE DEF row
  <2>4. /\ req' \in [Requests -> ReqRow]
        /\ \A x \in Requests : req'[x] = req[x] \/ (x = r /\ req'[x] = row)
    BY <1>1, <2>1, <2>3, RowPut
  <2>5. ReviewTypeOK' /\ UNCHANGED <<bank, versions, everApproved>>
    BY <1>1, <2>1 DEF ReviewTypeOK, reviewRows
  <2>6. \A x \in Requests : req'[x] = req[x] \/ req'[x].op \in LaterOps \ {"save", "mark"}
    BY <2>3, <2>4 DEF LaterOps
  <2>7. \A h \in Results : IsFiniteSet(versions'[h])
    BY <2>5 DEF ReviewInv
  <2> QED
    BY <1>2, <2>1, <2>4, <2>5, <2>6, <2>7, PlainKeeps
<1>6. ASSUME UNCHANGED <<JobRows, results, req, bank, versions, docBank, everApproved>>,
             doc' \in [status : {"NONE", "OCR_REQUIRED", "EXTRACTED", "COMPLETED", "GONE"},
                college : Colleges \cup {None}, approved : Nat,
                cand : [Candidates -> {"NONE", "PENDING", "SAVED"}]]
      PROVE  ReviewInv'
  <2>1. ReviewTypeOK'
    BY <1>1, <1>6 DEF ReviewTypeOK
  <2> QED
    BY <1>1, <1>2, <1>6, <2>1, PlainKeeps DEF ReviewInv
<1>7. ASSUME NEW u \in Users, NEW c \in Colleges, NEW k \in Kinds, ImportDocument(r, u, c, k)
      PROVE  ReviewInv'
  <2>1. PICK e \in Extracted(k) :
          doc' = [status |-> IF e.ocr THEN "OCR_REQUIRED" ELSE "EXTRACTED",
                 college |-> c, approved |-> 0,
                 cand |-> [x \in Candidates |-> IF x <= e.n THEN "PENDING" ELSE "NONE"]]
    BY <1>7 DEF ImportDocument
  <2>2. doc' \in [status : {"NONE", "OCR_REQUIRED", "EXTRACTED", "COMPLETED", "GONE"},
                college : Colleges \cup {None}, approved : Nat,
                cand : [Candidates -> {"NONE", "PENDING", "SAVED"}]]
    BY <2>1
  <2> QED
    BY <1>6, <1>7, <2>2 DEF ImportDocument
<1>8. ASSUME NEW u \in Users, ProcessDocumentJob(r, u) \/ DeleteDocumentJob(r, u)
      PROVE  ReviewInv'
  <2>1. doc' = [doc EXCEPT !.status = "COMPLETED"] \/ doc' = [doc EXCEPT !.status = "GONE"]
    BY <1>8 DEF ProcessDocumentJob, DeleteDocumentJob
  <2>2. doc' \in [status : {"NONE", "OCR_REQUIRED", "EXTRACTED", "COMPLETED", "GONE"},
                college : Colleges \cup {None}, approved : Nat,
                cand : [Candidates -> {"NONE", "PENDING", "SAVED"}]]
    BY <1>1, <2>1 DEF ReviewTypeOK
  <2> QED
    BY <1>6, <1>8, <2>2 DEF ProcessDocumentJob, DeleteDocumentJob
<1>9. ASSUME NEW u \in Users, ApproveDocumentJob(r, u) PROVE ReviewInv'
  <2> DEFINE S == {c \in Candidates : doc.cand[c] = "PENDING"}
             row == [NoReq EXCEPT !.op = "approve", !.made = S, !.job = 0]
  <2>1. req' = [req EXCEPT ![r] = row] /\ UNCHANGED <<JobRows, results, reviewRows>>
    BY <1>9 DEF ApproveDocumentJob, Work
  <2>2. S \in SUBSET Nat
    BY ReviewAssumption DEF Candidates
  <2> HIDE DEF S
  <2>3. row \in ReqRow /\ row.op = "approve"
    BY <2>2 DEF NoReq, ReqRow, Ops, BatchStatus
  <2> HIDE DEF row
  <2>4. /\ req' \in [Requests -> ReqRow]
        /\ \A x \in Requests : req'[x] = req[x] \/ (x = r /\ req'[x] = row)
    BY <1>1, <2>1, <2>3, RowPut
  <2>5. ReviewTypeOK' /\ UNCHANGED <<bank, versions, everApproved>>
    BY <1>1, <2>1 DEF ReviewTypeOK, reviewRows
  <2>6. \A x \in Requests : req'[x] = req[x] \/ req'[x].op \in LaterOps \ {"save", "mark"}
    BY <2>3, <2>4 DEF LaterOps
  <2>7. \A h \in Results : IsFiniteSet(versions'[h])
    BY <2>5 DEF ReviewInv
  <2> QED
    BY <1>2, <2>1, <2>4, <2>5, <2>6, <2>7, PlainKeeps
<1> QED
  BY <1>3, <1>4, <1>5, <1>7, <1>8, <1>9 DEF ReviewRequest

LEMMA ReviewHandlerStep ==
  ASSUME ReviewInv, NEW r \in Requests, ReviewStep(r)
  PROVE  ReviewInv'
<1>1. /\ req \in [Requests -> ReqRow] /\ results \in [Results -> ResultRow]
      /\ requests \in 0..MaxRequests /\ requests \in Nat
      /\ bank \in [Results -> Nat] /\ everApproved \subseteq Results
      /\ versions \in [Results -> SUBSET Nat] /\ Results \subseteq Nat /\ Jobs \subseteq Nat
      /\ ReviewTypeOK
  BY ReviewTypes DEF ReviewInv
<1> DEFINE q == req[r]
<1>2. /\ requests' \in 0..MaxRequests
      /\ q \in ReqRow /\ q.made \in SUBSET Nat /\ q.left \in Nat /\ q.job \in Nat
      /\ Transfer(q, bank, everApproved)
  <2>1. requests' = requests
    BY DEF ReviewStep, VersionWrite, SaveCreate, SaveMark, SaveDone, CandidateCreate,
       CandidateMark, ApproveDone
  <2>2. q \in ReqRow
    BY <1>1
  <2> QED
    BY <1>1, <2>1, <2>2, SMTT(30) DEF ReqRow, ReviewInv
<1>3. NoReq \in ReqRow /\ NoReq.op = "idle" /\ NoReq.op \in LaterOps \ {"save", "mark"}
  BY IdleRow DEF LaterOps
<1> HIDE DEF q
\* the questions and the history stay
<1>4. ASSUME NEW row \in ReqRow, row.op \in LaterOps \ {"save", "mark"},
             req' = [req EXCEPT ![r] = row],
             UNCHANGED <<JobRows, results, bank, everApproved>>,
             ReviewTypeOK', \A g \in Results : IsFiniteSet(versions'[g])
      PROVE  ReviewInv'
  <2>1. /\ req' \in [Requests -> ReqRow]
        /\ \A x \in Requests : req'[x] = req[x] \/ (x = r /\ req'[x] = row)
    BY <1>1, <1>4, RowPut
  <2>2. \A x \in Requests : req'[x] = req[x] \/ req'[x].op \in LaterOps \ {"save", "mark"}
    BY <1>4, <2>1
  <2> QED
    BY <1>2, <1>4, <2>1, <2>2, PlainKeeps
<1>5. ASSUME VersionWrite(r) PROVE ReviewInv'
  <2> DEFINE n == q.left + 1
  <2>1. /\ req' = [req EXCEPT ![r] = NoReq]
        /\ versions' = [versions EXCEPT ![q.job] = @ \cup {n}]
        /\ UNCHANGED <<JobRows, results, bank, doc, docBank, everApproved>>
    BY <1>5 DEF VersionWrite, Done, q
  <2>2. n \in Nat
    BY <1>2
  <2> HIDE DEF n
  <2>3. versions' \in [Results -> SUBSET Nat]
    BY <1>1, <2>1, <2>2
  <2>4. \A g \in Results : versions'[g] = versions[g] \/ versions'[g] = versions[g] \cup {n}
    BY <1>1, <2>1
  <2>5. \A g \in Results : IsFiniteSet(versions'[g])
    BY <2>4, FS_AddElement, SMTT(30) DEF ReviewInv
  <2>6. ReviewTypeOK'
    BY <1>1, <2>1, <2>3 DEF ReviewTypeOK
  <2> QED
    BY <1>3, <1>4, <2>1, <2>5, <2>6
<1>6. ASSUME SaveCreate(r) PROVE ReviewInv'
  <2>1. PICK g \in q.made :
          /\ bank' = [bank EXCEPT ![g] = @ + 1]
          /\ req' = [req EXCEPT ![r] = [q EXCEPT !.op = "mark", !.left = g]]
    BY <1>6 DEF SaveCreate, q
  <2> DEFINE row == [q EXCEPT !.op = "mark", !.left = g]
  <2>2. /\ q.op = "save" /\ q.made \subseteq everApproved /\ g \in Results /\ g \in Nat
        /\ UNCHANGED <<JobRows, results, requests, versions, doc, docBank, everApproved>>
    BY <1>1, <1>2, <1>6, <2>1 DEF SaveCreate, Transfer, q
  <2>3. row \in ReqRow /\ row.op = "mark" /\ row.made = q.made /\ row.left = g
    BY <1>2, <2>2 DEF ReqRow, Ops
  <2> HIDE DEF row
  <2>4. /\ req' \in [Requests -> ReqRow]
        /\ \A x \in Requests : req'[x] = req[x] \/ (x = r /\ req'[x] = row)
    BY <1>1, <2>1, <2>3, RowPut DEF row
  <2>5. /\ bank' \in [Results -> Nat] /\ bank'[g] > 0
        /\ \A h \in Results : bank[h] > 0 => bank'[h] > 0
        /\ \A h \in Results : h # g => bank'[h] = bank[h]
    BY <1>1, <2>1, <2>2
  <2>6. ASSUME NEW x \in Requests
        PROVE  (req'[x] = req[x] \/ req'[x].op \in LaterOps) /\ Transfer(req'[x], bank', everApproved')
    <3>1. Transfer(row, bank', everApproved)
      BY <2>1, <2>2, <2>3, <2>5 DEF Transfer
    <3>2. Transfer(req[x], bank, everApproved)
      BY DEF ReviewInv
    <3>3. Transfer(req[x], bank', everApproved)
      BY <1>1, <2>5, <3>2 DEF Transfer
    <3> QED
      BY <2>2, <2>3, <2>4, <3>1, <3>3 DEF LaterOps
  <2>7. ASSUME NEW h \in Results
        PROVE  /\ results'[h].job = results[h].job
               /\ results'[h].status = "APPROVED" => h \in everApproved'
               /\ bank'[h] > 0 => h \in everApproved'
               /\ results'[h].status = "SAVED" => bank'[h] > 0
    BY <2>1, <2>2, <2>5 DEF ReviewInv, ApprovedFirst, SavedHasQuestion
  <2> QED
    BY <1>1, <1>2, <2>2, <2>4, <2>5, <2>6, <2>7, QuestionsKept
<1>7. ASSUME SaveMark(r) PROVE ReviewInv'
  <2> DEFINE g == q.left
             S == q.made \ {g}
             row == [q EXCEPT !.op = "save", !.made = S]
  <2>1. /\ q.op = "mark" /\ results' = [results EXCEPT ![g].status = "SAVED"]
        /\ req' = [req EXCEPT ![r] = row]
        /\ UNCHANGED <<JobRows, requests, reviewRows>>
    BY <1>7 DEF SaveMark, q
  <2>2. /\ q.made \subseteq everApproved /\ g \in q.made /\ bank[g] > 0 /\ g \in Results
        /\ S \in SUBSET Nat /\ S \subseteq everApproved
    BY <1>1, <1>2, <2>1 DEF Transfer
  <2> HIDE DEF S, g
  <2>3. row \in ReqRow /\ row.op = "save" /\ row.made = S
    BY <1>2, <2>2 DEF ReqRow, Ops
  <2> HIDE DEF row
  <2>4. /\ req' \in [Requests -> ReqRow]
        /\ \A x \in Requests : req'[x] = req[x] \/ (x = r /\ req'[x] = row)
    BY <1>1, <2>1, <2>3, RowPut
  <2>5. UNCHANGED <<bank, versions, doc, docBank, everApproved>>
    BY <2>1 DEF reviewRows
  <2>6. ASSUME NEW x \in Requests
        PROVE  (req'[x] = req[x] \/ req'[x].op \in LaterOps) /\ Transfer(req'[x], bank', everApproved')
    <3>1. Transfer(row, bank, everApproved) /\ Transfer(req[x], bank, everApproved)
      BY <2>2, <2>3 DEF Transfer, ReviewInv
    <3> QED
      BY <2>3, <2>4, <2>5, <3>1 DEF LaterOps
  <2>7. /\ [results[g] EXCEPT !.status = "SAVED"] \in ResultRow
        /\ [results[g] EXCEPT !.status = "SAVED"].job = results[g].job
        /\ [results[g] EXCEPT !.status = "SAVED"].status = "SAVED"
    BY <1>1, <2>2 DEF ResultRow, ReviewStatus
  <2>8. /\ results' \in [Results -> ResultRow]
        /\ \A h \in Results : h # g => results'[h] = results[h]
        /\ results'[g].status = "SAVED" /\ results'[g].job = results[g].job
    BY <1>1, <2>1, <2>2, <2>7
  <2>9. ASSUME NEW h \in Results
        PROVE  /\ results'[h].job = results[h].job
               /\ results'[h].status = "APPROVED" => h \in everApproved'
               /\ bank'[h] > 0 => h \in everApproved'
               /\ results'[h].status = "SAVED" => bank'[h] > 0
    BY <2>2, <2>5, <2>8 DEF ReviewInv, ApprovedFirst, SavedHasQuestion
  <2> QED
    BY <1>1, <1>2, <2>1, <2>4, <2>5, <2>6, <2>8, <2>9, QuestionsKept
<1>8. ASSUME SaveDone(r) PROVE ReviewInv'
  <2>1. /\ req' = [req EXCEPT ![r] = NoReq] /\ UNCHANGED <<JobRows, results, reviewRows>>
    BY <1>8 DEF SaveDone, Done
  <2>2. ReviewTypeOK' /\ UNCHANGED <<bank, versions, everApproved>>
    BY <1>1, <2>1 DEF ReviewTypeOK, reviewRows
  <2>3. \A g \in Results : IsFiniteSet(versions'[g])
    BY <2>2 DEF ReviewInv
  <2> QED
    BY <1>3, <1>4, <2>1, <2>2, <2>3
<1>9. ASSUME CandidateCreate(r) PROVE ReviewInv'
  <2>1. PICK c \in q.made :
          /\ docBank' = [docBank EXCEPT ![c] = @ + 1]
          /\ req' = [req EXCEPT ![r] = [q EXCEPT !.op = "candidate", !.job = c]]
    BY <1>9 DEF CandidateCreate, q
  <2> DEFINE row == [q EXCEPT !.op = "candidate", !.job = c]
  <2>2. UNCHANGED <<JobRows, results, requests, bank, versions, doc, everApproved>> /\ c \in Nat
    BY <1>2, <1>9, <2>1 DEF CandidateCreate
  <2>3. row \in ReqRow /\ row.op = "candidate"
    BY <1>2, <2>2 DEF ReqRow, Ops
  <2>4. req' = [req EXCEPT ![r] = row]
    BY <2>1
  <2> HIDE DEF row
  <2>5. docBank' \in [Candidates -> Nat]
    <3>1. docBank \in [Candidates -> Nat]
      BY <1>1 DEF ReviewTypeOK
    <3>2. docBank' = [docBank EXCEPT ![c] = docBank[c] + 1]
      BY <2>1
    <3>3. \A x \in Candidates : docBank'[x] = docBank[x] \/ docBank'[x] = docBank[x] + 1
      BY <3>1, <3>2
    <3>4. docBank' = [x \in Candidates |-> docBank'[x]]
      BY <3>1, <3>2
    <3>5. \A x \in Candidates : docBank[x] \in Nat /\ docBank[x] + 1 \in Nat
      BY <3>1
    <3> HIDE DEF Candidates
    <3> QED
      BY <3>3, <3>4, <3>5
  <2>6. ReviewTypeOK'
    BY <1>1, <2>2, <2>5 DEF ReviewTypeOK
  <2>7. row.op \in LaterOps \ {"save", "mark"} /\ \A g \in Results : IsFiniteSet(versions'[g])
    BY <2>2, <2>3 DEF ReviewInv, LaterOps
  <2> QED
    BY <1>4, <2>2, <2>3, <2>4, <2>6, <2>7
<1>10. ASSUME CandidateMark(r) PROVE ReviewInv'
  <2> DEFINE c == q.job
             S == q.made \ {c}
             n == q.left + 1
             row == [q EXCEPT !.op = "approve", !.made = S, !.left = n]
  <2>1. /\ \/ doc' = doc /\ req' = [req EXCEPT ![r] = NoReq]
           \/ doc' = [doc EXCEPT !.cand[c] = "SAVED"] /\ req' = [req EXCEPT ![r] = row]
        /\ UNCHANGED <<JobRows, results, requests, bank, versions, docBank, everApproved>>
    BY <1>10 DEF CandidateMark, Done, q
  <2>2. S \in SUBSET Nat /\ n \in Nat
    BY <1>2
  <2> HIDE DEF S, n, c
  <2>3. row \in ReqRow /\ row.op = "approve" /\ row.op \in LaterOps \ {"save", "mark"}
    <3>1. row \in ReqRow /\ row.op = "approve"
      BY <1>2, <2>2 DEF ReqRow, Ops
    <3> QED
      BY <3>1 DEF LaterOps
  <2> HIDE DEF row
  <2>4. doc' \in [status : {"NONE", "OCR_REQUIRED", "EXTRACTED", "COMPLETED", "GONE"},
                college : Colleges \cup {None}, approved : Nat,
                cand : [Candidates -> {"NONE", "PENDING", "SAVED"}]]
    BY <1>1, <2>1 DEF ReviewTypeOK
  <2>5. ReviewTypeOK' /\ \A g \in Results : IsFiniteSet(versions'[g])
    BY <1>1, <2>1, <2>4 DEF ReviewTypeOK, ReviewInv
  <2> QED
    BY <1>3, <1>4, <2>1, <2>3, <2>5
<1>11. ASSUME ApproveDone(r) PROVE ReviewInv'
  <2> DEFINE n == doc.approved + q.left
  <2>1. /\ req' = [req EXCEPT ![r] = NoReq]
        /\ doc' = doc \/ doc' = [doc EXCEPT !.status = "COMPLETED", !.approved = n]
        /\ UNCHANGED <<JobRows, results, requests, bank, versions, docBank, everApproved>>
    BY <1>11 DEF ApproveDone, Done, q
  <2>2. n \in Nat
    BY <1>1, <1>2 DEF ReviewTypeOK
  <2> HIDE DEF n
  <2>3. doc' \in [status : {"NONE", "OCR_REQUIRED", "EXTRACTED", "COMPLETED", "GONE"},
                college : Colleges \cup {None}, approved : Nat,
                cand : [Candidates -> {"NONE", "PENDING", "SAVED"}]]
    BY <1>1, <2>1, <2>2 DEF ReviewTypeOK
  <2>4. ReviewTypeOK' /\ \A g \in Results : IsFiniteSet(versions'[g])
    BY <1>1, <2>1, <2>3 DEF ReviewTypeOK, ReviewInv
  <2> QED
    BY <1>3, <1>4, <2>1, <2>4
<1> QED
  BY <1>5, <1>6, <1>7, <1>8, <1>9, <1>10, <1>11 DEF ReviewStep

LibOps == {"prompt", "rollback", "units", "paper", "sets"}

\* Reviews and documents leave the handlers of the library alone.

LEMMA ReviewFrame ==
  ASSUME ReviewInv, NEW r \in Requests, ReviewRequest(r) \/ ReviewStep(r)
  PROVE  /\ crashes' = crashes
         /\ \A x \in Requests : \/ req'[x] = req[x]
                                \/ req'[x].op \notin LibOps /\ req[x].op \notin LibOps
<1>1. req \in [Requests -> ReqRow] /\ req[r] \in ReqRow
  BY ReviewTypes
<1>2. req[r].op \notin LibOps /\ crashes' = crashes
  BY ZenonT(60) DEF ReviewRequest, SaveApproved, ReviewResults, UpdateGeneratedQuestion, ImportDocument,
     ProcessDocumentJob, ApproveDocumentJob, DeleteDocumentJob, JobRequest, DocRequest, Begin,
     ReviewStep, VersionWrite, SaveCreate, SaveMark, SaveDone, CandidateCreate,
     CandidateMark, ApproveDone, LibOps, JobRows
<1>3. \/ req' = req
      \/ \E row : /\ req' = [req EXCEPT ![r] = row]
                  /\ row.op \in {"idle", "version", "save", "mark", "approve", "candidate"}
  <2> DEFINE Put == \E row : /\ req' = [req EXCEPT ![r] = row]
                             /\ row.op \in {"idle", "version", "save", "mark", "approve", "candidate"}
  <2>1. ASSUME NEW row, req' = [req EXCEPT ![r] = row],
               row.op \in {"idle", "version", "save", "mark", "approve", "candidate"}
        PROVE  Put
    BY <2>1
  <2> HIDE DEF Put
  <2>2. ASSUME req' = [req EXCEPT ![r] = NoReq] PROVE Put
    BY <2>1, <2>2, IdleRow
  <2>3. ASSUME NEW op \in {"save", "approve"}, NEW S, NEW id, Work(r, op, S, id) PROVE Put
    <3> DEFINE row == [NoReq EXCEPT !.op = op, !.made = S, !.job = id]
    <3>1. req' = [req EXCEPT ![r] = row] /\ row.op = op
      BY <2>3 DEF Work, NoReq
    <3> HIDE DEF row
    <3> QED
      BY <2>1, <3>1
  <2>4. ASSUME NEW g \in Results, NEW u \in Users, UpdateGeneratedQuestion(r, u, g) PROVE Put
    <3> DEFINE row == [NoReq EXCEPT !.op = "version", !.job = g, !.left = Cardinality(versions[g])]
    <3>1. req' = [req EXCEPT ![r] = row] /\ row.op = "version"
      BY <2>4 DEF UpdateGeneratedQuestion, NoReq
    <3> HIDE DEF row
    <3> QED
      BY <2>1, <3>1
  <2>5. ASSUME ReviewRequest(r) PROVE req' = req \/ Put
    BY <2>3, <2>4, <2>5 DEF ReviewRequest, SaveApproved, ReviewResults, ImportDocument,
       ProcessDocumentJob, ApproveDocumentJob, DeleteDocumentJob
  <2>6. ASSUME SaveCreate(r) PROVE Put
    <3>1. PICK g \in req[r].made :
            req' = [req EXCEPT ![r] = [req[r] EXCEPT !.op = "mark", !.left = g]]
      BY <2>6 DEF SaveCreate
    <3>2. [req[r] EXCEPT !.op = "mark", !.left = g].op = "mark"
      BY <1>1 DEF ReqRow
    <3> QED
      BY <2>1, <3>1, <3>2
  <2>7. ASSUME CandidateCreate(r) PROVE Put
    <3>1. PICK g \in req[r].made :
            req' = [req EXCEPT ![r] = [req[r] EXCEPT !.op = "candidate", !.job = g]]
      BY <2>7 DEF CandidateCreate
    <3>2. [req[r] EXCEPT !.op = "candidate", !.job = g].op = "candidate"
      BY <1>1 DEF ReqRow
    <3> QED
      BY <2>1, <3>1, <3>2
  <2>8. ASSUME SaveMark(r) PROVE Put
    <3> DEFINE S == req[r].made \ {req[r].left}
    <3>1. req' = [req EXCEPT ![r] = [req[r] EXCEPT !.op = "save", !.made = S]]
      BY <2>8 DEF SaveMark
    <3>2. [req[r] EXCEPT !.op = "save", !.made = S].op = "save"
      BY <1>1 DEF ReqRow
    <3> QED
      BY <2>1, <3>1, <3>2
  <2>9. ASSUME CandidateMark(r) PROVE Put
    <3> DEFINE S == req[r].made \ {req[r].job}
               n == req[r].left + 1
    <3>1. \/ req' = [req EXCEPT ![r] = NoReq]
          \/ req' = [req EXCEPT ![r] = [req[r] EXCEPT !.op = "approve", !.made = S, !.left = n]]
      BY <2>9 DEF CandidateMark, Done
    <3>2. [req[r] EXCEPT !.op = "approve", !.made = S, !.left = n].op = "approve"
      BY <1>1 DEF ReqRow
    <3> QED
      BY <2>1, <2>2, <3>1, <3>2
  <2>10. ASSUME VersionWrite(r) \/ SaveDone(r) \/ ApproveDone(r) PROVE Put
    BY <2>2, <2>10 DEF VersionWrite, SaveDone, ApproveDone, Done
  <2>11. req' = req \/ Put
    BY <2>5, <2>6, <2>7, <2>8, <2>9, <2>10 DEF ReviewStep
  <2> QED
    BY <2>11 DEF Put
<1>4. ASSUME NEW row, req' = [req EXCEPT ![r] = row], row.op \notin LibOps
      PROVE  \A x \in Requests : req'[x] = req[x] \/ (x = r /\ req'[x].op \notin LibOps)
  BY <1>1, <1>4
<1>5. \A o \in {"idle", "version", "save", "mark", "approve", "candidate"} : o \notin LibOps
  BY DEF LibOps
<1> QED
  BY <1>2, <1>3, <1>4, <1>5

\* What holds of the waiting handlers when a part of the library is left alone.
LEMMA TemplateKept ==
  ASSUME TemplateInv, UNCHANGED <<template, said>>,
         \A x \in Requests : \/ req'[x].op = req[x].op /\ memo'[x] = memo[x]
                             \/ req'[x].op \notin {"prompt", "rollback"}
  PROVE  TemplateInv'
<1>1. \A x \in Requests : PromptGood(req'[x].op, memo'[x], said')
  BY DEF TemplateInv, PromptGood
<1> QED
  BY <1>1 DEF TemplateInv, HistoryTruthful

LEMMA SyllabusKept ==
  ASSUME SyllabusInv, UNCHANGED syllabus,
         \A x \in Requests : \/ req'[x].op = req[x].op /\ memo'[x] = memo[x]
                             \/ req'[x].op # "units",
         crashes' = 0 => /\ crashes = 0
                         /\ \A x \in Requests : req[x].op = "units" => req'[x].op = "units"
  PROVE  SyllabusInv'
  BY DEF SyllabusInv

LEMMA PapersKept ==
  ASSUME PaperInv, UNCHANGED exam,
         \A x \in Requests : papers'[x] = papers[x],
         \A x \in Requests : \/ req'[x].op = req[x].op /\ memo'[x] = memo[x]
                             \/ req'[x].op \notin {"paper", "sets"}
  PROVE  PaperInv'
<1>1. \A S : Total(S)' = Total(S)
  OBVIOUS
<1>2. SetsDisjoint' /\ PaperTotalExact'
  BY <1>1 DEF PaperInv, SetsDisjoint, PaperTotalExact
<1>3. \A x \in Requests :
         /\ req'[x].op = "paper" => /\ memo'[x].set \subseteq Questions
                                    /\ exam'.made /\ exam'.total = Total(memo'[x].set)
         /\ req'[x].op = "sets" => /\ memo'[x].set \subseteq Questions
                                   /\ \A i \in 1..Len(papers'[x]) : papers'[x][i] \subseteq memo'[x].set
  <2> SUFFICES ASSUME NEW x \in Requests
               PROVE  /\ req'[x].op = "paper" => /\ memo'[x].set \subseteq Questions
                                    /\ exam'.made /\ exam'.total = Total(memo'[x].set)
                      /\ req'[x].op = "sets" => /\ memo'[x].set \subseteq Questions
                                   /\ \A i \in 1..Len(papers'[x]) : papers'[x][i] \subseteq memo'[x].set
    OBVIOUS
  <2>1. CASE req'[x].op = req[x].op /\ memo'[x] = memo[x]
    BY <2>1 DEF PaperInv
  <2>2. CASE req'[x].op \notin {"paper", "sets"}
    BY <2>2
  <2> QED
    BY <2>1, <2>2
<1>4. exam' = [made |-> exam'.made, total |-> exam'.total, rows |-> exam'.rows]
  BY DEF PaperInv
<1> QED
  BY <1>1, <1>2, <1>3, <1>4 DEF PaperInv

LEMMA LibKeepsReview ==
  ASSUME ReviewInv, UNCHANGED <<GenRows, reviewRows>>, requests' \in 0..MaxRequests,
         req' \in [Requests -> ReqRow],
         \A x \in Requests : req'[x] = req[x] \/ req'[x].op \in LibOps \cup {"idle"}
  PROVE  ReviewInv' /\ crashes' = crashes
<1>1. UNCHANGED <<JobRows, results, bank, everApproved>> /\ crashes' = crashes
  BY DEF JobRows, GenRows, reviewRows
<1>2. ReviewTypeOK' /\ \A g \in Results : IsFiniteSet(versions'[g])
  BY DEF ReviewInv, ReviewTypeOK, reviewRows
<1>3. \A o \in LibOps \cup {"idle"} : o \in LaterOps \ {"save", "mark"}
  BY DEF LibOps, LaterOps
<1>4. \A x \in Requests : req'[x] = req[x] \/ req'[x].op \in LaterOps \ {"save", "mark"}
  BY <1>3
<1> QED
  BY <1>1, <1>2, <1>4, PlainKeeps

\* A handler of the library reads its row and waits ...
LEMMA Holding ==
  ASSUME LibInv, UNCHANGED <<GenRows, reviewRows>>, requests' \in 0..MaxRequests,
         NEW r \in Requests, NEW op \in LibOps, NEW m \in MemoRow, Hold(r, op, m)
  PROVE  /\ ReviewInv' /\ crashes' = crashes /\ memo' \in [Requests -> MemoRow]
         /\ \A x \in Requests : x # r => req'[x] = req[x] /\ memo'[x] = memo[x]
         /\ req'[r].op = op /\ memo'[r] = m
<1>1. req \in [Requests -> ReqRow] /\ memo \in [Requests -> MemoRow] /\ ReviewInv
  BY ReviewTypes DEF LibInv
<1> DEFINE row == [NoReq EXCEPT !.op = op]
<1>2. row \in ReqRow /\ row.op = op
  <2>1. op \in Ops /\ NoReq \in ReqRow
    BY IdleRow DEF Ops, LibOps
  <2> QED
    BY <2>1 DEF ReqRow
<1>3. req' = [req EXCEPT ![r] = row] /\ memo' = [memo EXCEPT ![r] = m]
  BY DEF Hold
<1> HIDE DEF row
<1>4. /\ req' \in [Requests -> ReqRow] /\ memo' \in [Requests -> MemoRow]
      /\ \A x \in Requests : x # r => req'[x] = req[x] /\ memo'[x] = memo[x]
      /\ req'[r] = row /\ memo'[r] = m
  BY <1>1, <1>2, <1>3
<1>5. \A x \in Requests : req'[x] = req[x] \/ req'[x].op \in LibOps \cup {"idle"}
  BY <1>2, <1>4
<1> QED
  BY <1>1, <1>2, <1>4, <1>5, LibKeepsReview

LEMMA NoMemoRow == NoMemo \in MemoRow
<1>1. <<>> \in Seq(Entry)
  OBVIOUS
<1> QED
  BY <1>1 DEF NoMemo, MemoRow

\* ... and forgets it when it is done.
LEMMA Releasing ==
  ASSUME LibInv, UNCHANGED <<GenRows, reviewRows, requests>>,
         NEW r \in Requests, Release(r)
  PROVE  /\ ReviewInv' /\ crashes' = crashes /\ memo' \in [Requests -> MemoRow]
         /\ \A x \in Requests : x # r => req'[x] = req[x] /\ memo'[x] = memo[x]
         /\ req'[r].op = "idle"
<1>1. /\ req \in [Requests -> ReqRow] /\ memo \in [Requests -> MemoRow] /\ ReviewInv
      /\ requests' \in 0..MaxRequests
  BY ReviewTypes DEF LibInv
<1>2. NoReq \in ReqRow /\ NoReq.op = "idle" /\ NoMemo \in MemoRow
  BY IdleRow, NoMemoRow
<1>3. req' = [req EXCEPT ![r] = NoReq] /\ memo' = [memo EXCEPT ![r] = NoMemo]
  BY DEF Release
<1>4. /\ req' \in [Requests -> ReqRow] /\ memo' \in [Requests -> MemoRow]
      /\ \A x \in Requests : x # r => req'[x] = req[x] /\ memo'[x] = memo[x]
      /\ req'[r] = NoReq
  BY <1>1, <1>2, <1>3
<1>5. \A x \in Requests : req'[x] = req[x] \/ req'[x].op \in LibOps \cup {"idle"}
  BY <1>2, <1>4
<1> QED
  BY <1>1, <1>2, <1>4, <1>5, LibKeepsReview

TemplateRow == [content : Content, version : Nat, hist : Seq(Entry)]

LEMMA LibTypes ==
  ASSUME LibInv
  PROVE  /\ template \in TemplateRow /\ said \subseteq Nat \X Content
         /\ memo \in [Requests -> MemoRow] /\ req \in [Requests -> ReqRow]
         /\ requests \in 0..MaxRequests /\ requests \in Nat
         /\ template.version \in Nat /\ template.content \in Content
         /\ template.hist \in Seq(Entry)
<1>1. template \in TemplateRow /\ said \subseteq Nat \X Content
  BY DEF LibInv, LibTypeOK, TemplateRow, Entry
<1> QED
  BY <1>1, ReviewTypes DEF LibInv, TemplateRow

LEMMA RequestCounted ==
  ASSUME LibInv, requests < MaxRequests, requests' = requests + 1
  PROVE  requests' \in 0..MaxRequests
  BY LibTypes, Constants

(* The prompt template. *)

\* A template that gets a new content under the version it says.
LEMMA TemplateWritten ==
  ASSUME LibInv, NEW r \in Requests, NEW v \in Nat, NEW c \in Content, NEW h \in Seq(Entry),
         template' = [content |-> c, version |-> v, hist |-> h],
         said' = said \cup {<<v, c>>},
         \A i \in 1..Len(h) : <<h[i].version, h[i].content>> \in said,
         \A x \in Requests : \/ req'[x].op = req[x].op /\ memo'[x] = memo[x]
                             \/ req'[x].op \notin {"prompt", "rollback"}
  PROVE  /\ template' \in TemplateRow /\ said' \subseteq Nat \X Content
         /\ TemplateInv'
<1>1. template' \in TemplateRow /\ said' \subseteq Nat \X Content
  BY LibTypes DEF TemplateRow
<1>2. template'.version = v /\ template'.content = c /\ template'.hist = h
  OBVIOUS
<1>3. HistoryTruthful' /\ <<template'.version, template'.content>> \in said'
  BY <1>2 DEF HistoryTruthful
<1>4. \A x \in Requests : PromptGood(req'[x].op, memo'[x], said')
  <2>1. \A x \in Requests : PromptGood(req[x].op, memo[x], said)
    BY DEF LibInv, TemplateInv
  <2>2. \A op, m : PromptGood(op, m, said) => PromptGood(op, m, said')
    BY DEF PromptGood
  <2>3. \A op, m : op \notin {"prompt", "rollback"} => PromptGood(op, m, said')
    BY DEF PromptGood
  <2> QED
    BY <2>1, <2>2, <2>3
<1> QED
  BY <1>1, <1>3, <1>4 DEF TemplateInv

LEMMA TemplateSteps ==
  ASSUME LibInv, NEW r \in Requests,
         \/ \E u \in Users, t \in Texts : UpdatePromptTemplate(r, u, t)
         \/ \E u \in Users : DeletePromptTemplate(r, u)
         \/ \E u \in Users, v \in 1..MaxVersion : RollbackPromptTemplate(r, u, v)
         \/ PromptWrite(r) \/ RollbackWrite(r)
  PROVE  LibInv'
<1> DEFINE Others == /\ SyllabusInv' /\ PaperInv'
                     /\ syllabus' \subseteq 1..2 /\ eligible' \subseteq 1..Len(Pool)
                     /\ papers' \in [Requests -> Seq(SUBSET (1..Len(Pool)))]
                     /\ exam'.made \in BOOLEAN /\ exam'.rows \subseteq 1..Len(Pool)
<1>1. ASSUME UNCHANGED <<syllabus, eligible, papers, exam>>, crashes' = crashes,
             req[r].op \notin {"units", "paper", "sets"}, req'[r].op \notin {"units", "paper", "sets"},
             \A x \in Requests : x # r => req'[x] = req[x] /\ memo'[x] = memo[x]
      PROVE  Others
  <2>1. SyllabusInv'
    BY <1>1, SyllabusKept DEF LibInv
  <2>2. PaperInv'
    BY <1>1, PapersKept DEF LibInv
  <2> QED
    BY <1>1, <2>1, <2>2 DEF LibInv, LibTypeOK
<1>2. ASSUME ReviewInv', memo' \in [Requests -> MemoRow], Others,
             template' \in TemplateRow /\ said' \subseteq Nat \X Content, TemplateInv'
      PROVE  LibInv'
  <2>1. LibTypeOK'
    BY <1>2 DEF LibTypeOK, TemplateRow, Entry
  <2> QED
    BY <1>2, <2>1 DEF LibInv
<1> HIDE DEF Others
<1>3. ASSUME NEW u \in Users, NEW t \in Texts, UpdatePromptTemplate(r, u, t) PROVE LibInv'
  <2> DEFINE m == [Snapshot EXCEPT !.set = {t}]
  <2>1. /\ Hold(r, "prompt", m) /\ req[r].op = "idle"
        /\ requests < MaxRequests /\ requests' = requests + 1
        /\ UNCHANGED <<GenRows, reviewRows, template, said, syllabus, eligible, papers, exam>>
    BY <1>3 DEF UpdatePromptTemplate, Library, Begin
  <2>2. /\ m \in MemoRow /\ m.content = template.content /\ m.version = template.version
        /\ m.hist = template.hist /\ m.set = {t}
    BY LibTypes DEF MemoRow, Snapshot, NoMemo
  <2> HIDE DEF m
  <2>3. /\ ReviewInv' /\ crashes' = crashes /\ memo' \in [Requests -> MemoRow]
        /\ \A x \in Requests : x # r => req'[x] = req[x] /\ memo'[x] = memo[x]
        /\ req'[r].op = "prompt" /\ memo'[r] = m
    <3>1. "prompt" \in LibOps
      BY DEF LibOps
    <3> QED
      BY <2>1, <2>2, <3>1, RequestCounted, Holding
  <2>4. PromptGood("prompt", m, said)
    BY <2>2, LibTypes DEF PromptGood, LibInv, TemplateInv, HistoryTruthful
  <2>5. TemplateInv'
    <3>1. \A x \in Requests : PromptGood(req[x].op, memo[x], said)
      BY DEF LibInv, TemplateInv
    <3>2. ASSUME NEW x \in Requests PROVE PromptGood(req'[x].op, memo'[x], said')
      <4>1. CASE x = r
        BY <2>1, <2>3, <2>4, <4>1
      <4>2. CASE x # r
        BY <2>1, <2>3, <3>1, <4>2
      <4> QED
        BY <4>1, <4>2
    <3> QED
      BY <2>1, <3>2 DEF LibInv, TemplateInv, HistoryTruthful
  <2>6. Others
    BY <1>1, <2>1, <2>3
  <2> QED
    BY <1>2, <2>1, <2>3, <2>5, <2>6, LibTypes
<1>4. ASSUME NEW u \in Users, DeletePromptTemplate(r, u) PROVE LibInv'
  <2> DEFINE c == [template.content EXCEPT !.active = FALSE]
  <2>1. /\ template' = [template EXCEPT !.content = c]
        /\ said' = said \cup {<<template.version, c>>}
        /\ requests < MaxRequests /\ requests' = requests + 1 /\ req[r].op = "idle"
        /\ UNCHANGED <<GenRows, reviewRows, req, memo, syllabus, eligible, papers, exam>>
    BY <1>4 DEF DeletePromptTemplate, Library, Begin, Says
  <2>2. c \in Content
    BY LibTypes DEF Content
  <2> HIDE DEF c
  <2>3. template' = [content |-> c, version |-> template.version, hist |-> template.hist]
    BY <2>1, LibTypes DEF TemplateRow
  <2>4. /\ template' \in TemplateRow /\ said' \subseteq Nat \X Content /\ TemplateInv'
    <3>1. \A i \in 1..Len(template.hist) :
            <<template.hist[i].version, template.hist[i].content>> \in said
      BY DEF LibInv, TemplateInv, HistoryTruthful
    <3> QED
      BY <2>1, <2>2, <2>3, <3>1, LibTypes, TemplateWritten
  <2>5. ReviewInv' /\ crashes' = crashes
    BY <2>1, RequestCounted, LibTypes, LibKeepsReview DEF LibInv
  <2>6. Others
    BY <1>1, <2>1, <2>5
  <2> QED
    BY <1>2, <2>1, <2>4, <2>5, <2>6, LibTypes
<1>5. ASSUME NEW u \in Users, NEW v \in 1..MaxVersion, RollbackPromptTemplate(r, u, v)
      PROVE  LibInv'
  <2> DEFINE at == {i \in 1..Len(template.hist) : template.hist[i].version = v}
             c == template.hist[First(at)].content
             m == [NoMemo EXCEPT !.version = v, !.content = c]
  <2>1. /\ Hold(r, "rollback", m) /\ req[r].op = "idle" /\ at # {}
        /\ requests < MaxRequests /\ requests' = requests + 1
        /\ UNCHANGED <<GenRows, reviewRows, template, said, syllabus, eligible, papers, exam>>
    BY <1>5 DEF RollbackPromptTemplate, Library, Begin
  <2>2. c \in Content /\ v \in Nat
    <3>1. at \in SUBSET Nat
      BY LibTypes
    <3>2. First(at) \in at
      BY <2>1, <3>1, FirstIsLeast, Zenon
    <3>3. \A i \in 1..Len(template.hist) : template.hist[i] \in Entry
      BY LibTypes
    <3>4. template.hist[First(at)] \in Entry
      BY <3>2, <3>3
    <3>5. v \in Nat
      BY <3>2, <3>3 DEF Entry
    <3> QED
      BY <3>4, <3>5 DEF Entry
  <2> HIDE DEF c, at
  <2>3. m \in MemoRow /\ m.content = c
    BY <2>2, NoMemoRow DEF MemoRow, NoMemo
  <2> HIDE DEF m
  <2>4. /\ ReviewInv' /\ crashes' = crashes /\ memo' \in [Requests -> MemoRow]
        /\ \A x \in Requests : x # r => req'[x] = req[x] /\ memo'[x] = memo[x]
        /\ req'[r].op = "rollback" /\ memo'[r] = m
    <3>1. "rollback" \in LibOps
      BY DEF LibOps
    <3> QED
      BY <2>1, <2>3, <3>1, RequestCounted, Holding
  <2>5. TemplateInv'
    <3>1. \A x \in Requests : PromptGood(req[x].op, memo[x], said)
      BY DEF LibInv, TemplateInv
    <3>2. PromptGood("rollback", m, said)
      BY <2>2, <2>3 DEF PromptGood
    <3>3. ASSUME NEW x \in Requests PROVE PromptGood(req'[x].op, memo'[x], said')
      <4>1. CASE x = r
        BY <2>1, <2>4, <3>2, <4>1
      <4>2. CASE x # r
        BY <2>1, <2>4, <3>1, <4>2
      <4> QED
        BY <4>1, <4>2
    <3> QED
      BY <2>1, <3>3 DEF LibInv, TemplateInv, HistoryTruthful
  <2>6. Others
    BY <1>1, <2>1, <2>4
  <2> QED
    BY <1>2, <2>1, <2>4, <2>5, <2>6, LibTypes, SMTT(20)
<1>6. ASSUME PromptWrite(r) PROVE LibInv'
  <2> DEFINE m == memo[r]
             text == CHOOSE x \in m.set : TRUE
             c == [text |-> text, active |-> template.content.active]
             e == HistoryEntry(m, text)
             v == template.version + 1
             h == Append(m.hist, e)
  <2>1. /\ Release(r) /\ req[r].op = "prompt"
        /\ template' = [content |-> c, version |-> v, hist |-> h]
        /\ said' = said \cup {<<v, c>>}
        /\ UNCHANGED <<GenRows, reviewRows, requests, syllabus, eligible, papers, exam>>
    BY <1>6 DEF PromptWrite, Says
  <2>2. /\ m \in MemoRow /\ m.hist \in Seq(Entry) /\ m.version \in Nat
        /\ m.content \in Content /\ m.set \subseteq Texts /\ m.set # {}
        /\ <<m.version, m.content>> \in said
        /\ \A i \in 1..Len(m.hist) : <<m.hist[i].version, m.hist[i].content>> \in said
    <3>1. m \in MemoRow
      BY LibTypes
    <3>2. PromptGood(req[r].op, m, said)
      BY DEF LibInv, TemplateInv
    <3> QED
      BY <2>1, <3>1, <3>2 DEF MemoRow, PromptGood
  <2>3. c \in Content /\ v \in Nat /\ e \in Entry
    <3>1. text \in Texts
      BY <2>2
    <3>2. template.content.active \in BOOLEAN
      BY LibTypes DEF Content
    <3>3. v \in Nat
      BY LibTypes
    <3>4. e \in Entry
      BY <2>2 DEF HistoryEntry, Entry
    <3> QED
      BY <3>1, <3>2, <3>3, <3>4 DEF Content
  <2>4. /\ h \in Seq(Entry)
        /\ \A i \in 1..Len(h) : <<h[i].version, h[i].content>> \in said
    <3>1. e.version = m.version /\ e.content = m.content
      BY DEF HistoryEntry
    <3> HIDE DEF e, m
    <3>2. h \in Seq(Entry) /\ Len(h) = Len(m.hist) + 1 /\ h[Len(h)] = e
          /\ \A i \in 1..Len(m.hist) : h[i] = m.hist[i]
      BY <2>2, <2>3
    <3>3. \A i \in 1..Len(h) : i = Len(h) \/ i \in 1..Len(m.hist)
      BY <2>2, <3>2
    <3> HIDE DEF h
    <3> QED
      BY <2>2, <3>1, <3>2, <3>3
  <2> HIDE DEF c, v, h
  <2>5. /\ ReviewInv' /\ crashes' = crashes /\ memo' \in [Requests -> MemoRow]
        /\ \A x \in Requests : x # r => req'[x] = req[x] /\ memo'[x] = memo[x]
        /\ req'[r].op = "idle"
    BY <2>1, Releasing
  <2>6. /\ template' \in TemplateRow /\ said' \subseteq Nat \X Content /\ TemplateInv'
    <3>1. \A x \in Requests : \/ req'[x].op = req[x].op /\ memo'[x] = memo[x]
                              \/ req'[x].op \notin {"prompt", "rollback"}
      BY <2>5
    <3> QED
      BY <2>1, <2>3, <2>4, <3>1, TemplateWritten
  <2>7. Others
    BY <1>1, <2>1, <2>5
  <2> QED
    BY <1>2, <2>5, <2>6, <2>7
<1>7. ASSUME RollbackWrite(r) PROVE LibInv'
  <2> DEFINE c == memo[r].content
             v == template.version + 1
  <2>1. /\ Release(r) /\ req[r].op = "rollback"
        /\ template' = [template EXCEPT !.content = c, !.version = v]
        /\ said' = said \cup {<<v, c>>}
        /\ UNCHANGED <<GenRows, reviewRows, requests, syllabus, eligible, papers, exam>>
    BY <1>7, LibTypes DEF RollbackWrite, Says, TemplateRow
  <2>2. c \in Content
    BY <2>1 DEF LibInv, TemplateInv, PromptGood
  <2>3. v \in Nat
    BY LibTypes
  <2> HIDE DEF c, v
  <2>4. template' = [content |-> c, version |-> v, hist |-> template.hist]
    BY <2>1, LibTypes DEF TemplateRow
  <2>5. /\ ReviewInv' /\ crashes' = crashes /\ memo' \in [Requests -> MemoRow]
        /\ \A x \in Requests : x # r => req'[x] = req[x] /\ memo'[x] = memo[x]
        /\ req'[r].op = "idle"
    BY <2>1, Releasing
  <2>6. /\ template' \in TemplateRow /\ said' \subseteq Nat \X Content /\ TemplateInv'
    <3>1. \A x \in Requests : \/ req'[x].op = req[x].op /\ memo'[x] = memo[x]
                              \/ req'[x].op \notin {"prompt", "rollback"}
      BY <2>5
    <3>2. \A i \in 1..Len(template.hist) :
            <<template.hist[i].version, template.hist[i].content>> \in said
      BY DEF LibInv, TemplateInv, HistoryTruthful
    <3> QED
      BY <2>1, <2>2, <2>3, <2>4, <3>1, <3>2, LibTypes, TemplateWritten
  <2>7. Others
    BY <1>1, <2>1, <2>5
  <2> QED
    BY <1>2, <2>5, <2>6, <2>7
<1> QED
  BY <1>3, <1>4, <1>5, <1>6, <1>7

(* The syllabus. *)

LEMMA SyllabusSteps ==
  ASSUME LibInv, NEW r \in Requests,
         \/ \E u \in Users, s \in UnitSets : UpdateSyllabus(r, u, s)
         \/ UnitsWrite(r)
  PROVE  LibInv'
<1> DEFINE Others == TemplateInv' /\ PaperInv'
<1>1. ASSUME UNCHANGED <<template, said, papers, exam>>,
             req'[r].op \notin {"prompt", "rollback", "paper", "sets"},
             \A x \in Requests : x # r => req'[x] = req[x] /\ memo'[x] = memo[x]
      PROVE  Others
  <2>1. TemplateInv'
    BY <1>1, TemplateKept DEF LibInv
  <2>2. PaperInv'
    BY <1>1, PapersKept DEF LibInv
  <2> QED
    BY <2>1, <2>2
<1>2. ASSUME ReviewInv', memo' \in [Requests -> MemoRow], Others,
             UNCHANGED <<template, said, eligible, papers, exam>>, syllabus' \subseteq 1..2,
             SyllabusInv'
      PROVE  LibInv'
  <2>1. LibTypeOK'
    BY <1>2 DEF LibInv, LibTypeOK
  <2> QED
    BY <1>2, <2>1 DEF LibInv
<1> HIDE DEF Others
<1>3. ASSUME NEW u \in Users, NEW s \in UnitSets, UpdateSyllabus(r, u, s) PROVE LibInv'
  <2> DEFINE m == [NoMemo EXCEPT !.set = s]
  <2>1. /\ Hold(r, "units", m) /\ syllabus' = {}
        /\ requests < MaxRequests /\ requests' = requests + 1
        /\ UNCHANGED <<GenRows, reviewRows, template, said, eligible, papers, exam>>
    BY <1>3 DEF UpdateSyllabus, Library, Begin
  <2>2. m \in MemoRow /\ m.set = s
    <3>1. s \subseteq 1..2
      BY LibraryAssumption
    <3> QED
      BY <3>1, NoMemoRow DEF MemoRow, NoMemo
  <2> HIDE DEF m
  <2>3. /\ ReviewInv' /\ crashes' = crashes /\ memo' \in [Requests -> MemoRow]
        /\ \A x \in Requests : x # r => req'[x] = req[x] /\ memo'[x] = memo[x]
        /\ req'[r].op = "units" /\ memo'[r] = m
    <3>1. "units" \in LibOps
      BY DEF LibOps
    <3> QED
      BY <2>1, <2>2, <3>1, RequestCounted, Holding
  <2>4. SyllabusInv'
    BY <2>2, <2>3 DEF LibInv, SyllabusInv
  <2>5. Others
    BY <1>1, <2>1, <2>3
  <2> QED
    BY <1>2, <2>1, <2>3, <2>4, <2>5
<1>4. ASSUME UnitsWrite(r) PROVE LibInv'
  <2> DEFINE units == memo[r].set
  <2>1. /\ Release(r) /\ req[r].op = "units"
        /\ syllabus' = IF syllabus \cap units # {} THEN syllabus
                       ELSE IF units = {} THEN {} ELSE syllabus \cup units
        /\ UNCHANGED <<GenRows, reviewRows, requests, template, said, eligible, papers, exam>>
    BY <1>4 DEF UnitsWrite
  <2>2. units \subseteq 1..2 /\ units # {}
    BY <2>1, LibraryAssumption DEF LibInv, SyllabusInv
  <2> HIDE DEF units
  <2>3. syllabus' \subseteq 1..2 /\ syllabus' # {}
    BY <2>1, <2>2 DEF LibInv, LibTypeOK
  <2>4. /\ ReviewInv' /\ crashes' = crashes /\ memo' \in [Requests -> MemoRow]
        /\ \A x \in Requests : x # r => req'[x] = req[x] /\ memo'[x] = memo[x]
        /\ req'[r].op = "idle"
    BY <2>1, Releasing
  <2>5. SyllabusInv'
    BY <2>3, <2>4 DEF LibInv, SyllabusInv
  <2>6. Others
    BY <1>1, <2>1, <2>4
  <2> QED
    BY <1>2, <2>1, <2>3, <2>4, <2>5, <2>6
<1> QED
  BY <1>3, <1>4

(* Papers. *)

\* What a waiting handler of the papers relies on.
PaperGood(op, m, sets, e) ==
    /\ op = "paper" => m.set \subseteq Questions /\ e.made /\ e.total = Total(m.set)
    /\ op = "sets" => /\ m.set \subseteq Questions
                      /\ \A i \in 1..Len(sets) : sets[i] \subseteq m.set

LEMMA PaperParts ==
  ASSUME PaperInv
  PROVE  /\ exam = [made |-> exam.made, total |-> exam.total, rows |-> exam.rows]
         /\ exam.rows # {} => exam.made /\ exam.total = Total(exam.rows)
         /\ \A x \in Requests : PaperGood(req[x].op, memo[x], papers[x], exam)
         /\ \A x \in Requests : \A i, k \in 1..Len(papers[x]) :
              i # k => papers[x][i] \cap papers[x][k] = {}
<1>1. \A x \in Requests : PaperGood(req[x].op, memo[x], papers[x], exam)
  <2> SUFFICES ASSUME NEW x \in Requests PROVE PaperGood(req[x].op, memo[x], papers[x], exam)
    OBVIOUS
  <2>1. req[x].op = "paper" => memo[x].set \subseteq Questions /\ exam.made /\ exam.total = Total(memo[x].set)
    BY DEF PaperInv
  <2>2. req[x].op = "sets" => /\ memo[x].set \subseteq Questions
                              /\ \A i \in 1..Len(papers[x]) : papers[x][i] \subseteq memo[x].set
    BY DEF PaperInv
  <2> QED
    BY <2>1, <2>2 DEF PaperGood
<1>2. exam.rows # {} => exam.made /\ exam.total = Total(exam.rows)
  BY DEF PaperInv, PaperTotalExact
<1> QED
  BY <1>1, <1>2 DEF PaperInv, SetsDisjoint

LEMMA PaperWhole ==
  ASSUME exam' = [made |-> exam'.made, total |-> exam'.total, rows |-> exam'.rows],
         exam'.rows # {} => exam'.made /\ exam'.total = Total(exam'.rows),
         \A x \in Requests : PaperGood(req'[x].op, memo'[x], papers'[x], exam'),
         \A x \in Requests : \A i, k \in 1..Len(papers'[x]) :
              i # k => papers'[x][i] \cap papers'[x][k] = {}
  PROVE  PaperInv'
<1>1. PaperTotalExact' /\ SetsDisjoint'
  BY DEF PaperTotalExact, SetsDisjoint
<1>2. \A x \in Requests :
         /\ req'[x].op = "paper" => /\ memo'[x].set \subseteq Questions
                                    /\ exam'.made /\ exam'.total = Total(memo'[x].set)
         /\ req'[x].op = "sets" => /\ memo'[x].set \subseteq Questions
                                   /\ \A i \in 1..Len(papers'[x]) : papers'[x][i] \subseteq memo'[x].set
  <2> SUFFICES ASSUME NEW x \in Requests
               PROVE  /\ req'[x].op = "paper" => /\ memo'[x].set \subseteq Questions
                                    /\ exam'.made /\ exam'.total = Total(memo'[x].set)
                      /\ req'[x].op = "sets" => /\ memo'[x].set \subseteq Questions
                                   /\ \A i \in 1..Len(papers'[x]) : papers'[x][i] \subseteq memo'[x].set
    OBVIOUS
  <2>1. PaperGood(req'[x].op, memo'[x], papers'[x], exam')
    OBVIOUS
  <2> QED
    BY <2>1 DEF PaperGood
<1> QED
  BY <1>1, <1>2 DEF PaperInv

LEMMA PaperSteps ==
  ASSUME LibInv, NEW r \in Requests,
         \/ \E u \in Users : GenerateExamPaper(r, u) \/ GenerateRandomPaperSets(r, u)
         \/ PaperWrite(r) \/ RandomSet(r) \/ RandomSetsDone(r)
  PROVE  LibInv'
<1> DEFINE Others == TemplateInv' /\ SyllabusInv'
<1>1. ASSUME UNCHANGED <<template, said, syllabus>>, crashes' = crashes,
             req[r].op # "units",
             req'[r].op \notin {"prompt", "rollback", "units"},
             \A x \in Requests : x # r => req'[x] = req[x] /\ memo'[x] = memo[x]
      PROVE  Others
  <2>1. TemplateInv'
    BY <1>1, TemplateKept DEF LibInv
  <2>2. SyllabusInv'
    BY <1>1, SyllabusKept DEF LibInv
  <2> QED
    BY <2>1, <2>2
<1>2. ASSUME ReviewInv', memo' \in [Requests -> MemoRow], Others,
             UNCHANGED <<template, said, syllabus, eligible>>,
             papers' \in [Requests -> Seq(SUBSET (1..Len(Pool)))],
             exam'.made \in BOOLEAN, exam'.rows \subseteq 1..Len(Pool),
             PaperInv'
      PROVE  LibInv'
  <2>1. LibTypeOK'
    BY <1>2 DEF LibInv, LibTypeOK
  <2> QED
    BY <1>2, <2>1 DEF LibInv
<1> HIDE DEF Others
<1>3. /\ papers \in [Requests -> Seq(SUBSET Questions)] /\ eligible \subseteq Questions
      /\ exam.made \in BOOLEAN /\ exam.rows \subseteq Questions
      /\ exam = [made |-> exam.made, total |-> exam.total, rows |-> exam.rows]
      /\ exam.rows # {} => exam.made /\ exam.total = Total(exam.rows)
      /\ \A x \in Requests : PaperGood(req[x].op, memo[x], papers[x], exam)
      /\ \A x \in Requests : \A i, k \in 1..Len(papers[x]) :
           i # k => papers[x][i] \cap papers[x][k] = {}
  BY PaperParts DEF LibInv, LibTypeOK, Questions
<1>4. SelectPaperQuestions \subseteq Questions
  BY <1>3 DEF SelectPaperQuestions
<1>5. ASSUME NEW u \in Users, GenerateExamPaper(r, u) PROVE LibInv'
  <2> DEFINE S == SelectPaperQuestions
             t == Total(S)
             m == [NoMemo EXCEPT !.set = S]
  <2>1. /\ Hold(r, "paper", m) /\ req[r].op = "idle" /\ ~exam.made
        /\ exam' = [made |-> TRUE, total |-> t, rows |-> {}]
        /\ requests < MaxRequests /\ requests' = requests + 1
        /\ UNCHANGED <<GenRows, reviewRows, template, said, syllabus, eligible, papers>>
    BY <1>5 DEF GenerateExamPaper, Library, Begin
  <2> HIDE DEF S
  <2>2. m \in MemoRow /\ m.set = S
    BY <1>4, NoMemoRow DEF MemoRow, NoMemo, S
  <2> HIDE DEF m
  <2>3. /\ ReviewInv' /\ crashes' = crashes /\ memo' \in [Requests -> MemoRow]
        /\ \A x \in Requests : x # r => req'[x] = req[x] /\ memo'[x] = memo[x]
        /\ req'[r].op = "paper" /\ memo'[r] = m
    <3>1. "paper" \in LibOps
      BY DEF LibOps
    <3> QED
      BY <2>1, <2>2, <3>1, RequestCounted, Holding
  <2>4. exam'.made = TRUE /\ exam'.total = Total(S) /\ exam'.rows = {}
    BY <2>1 DEF t
  <2>5. ASSUME NEW x \in Requests PROVE PaperGood(req'[x].op, memo'[x], papers'[x], exam')
    <3>1. CASE x = r
      <4>1. req'[x].op = "paper" /\ memo'[x].set = S
        BY <2>2, <2>3, <3>1
      <4> QED
        BY <1>4, <2>4, <4>1 DEF PaperGood, S
    <3>2. CASE x # r
      <4>1. PaperGood(req[x].op, memo[x], papers[x], exam) /\ papers'[x] = papers[x]
        BY <1>3, <2>1
      <4>2. req'[x].op = req[x].op /\ memo'[x] = memo[x]
        BY <2>3, <3>2
      <4> QED
        BY <2>1, <4>1, <4>2 DEF PaperGood
    <3> QED
      BY <3>1, <3>2
  <2>6. PaperInv'
    <3>1. exam' = [made |-> exam'.made, total |-> exam'.total, rows |-> exam'.rows]
      BY <2>1
    <3> QED
      BY <1>3, <2>1, <2>4, <2>5, <3>1, PaperWhole
  <2>7. Others
    BY <1>1, <2>1, <2>3
  <2> QED
    BY <1>2, <1>3, <2>1, <2>3, <2>4, <2>6, <2>7 DEF Questions
<1>6. ASSUME PaperWrite(r) PROVE LibInv'
  <2> DEFINE S == memo[r].set
  <2>1. /\ Release(r) /\ req[r].op = "paper"
        /\ exam' = [exam EXCEPT !.rows = S]
        /\ UNCHANGED <<GenRows, reviewRows, requests, template, said, syllabus, eligible, papers>>
    BY <1>6 DEF PaperWrite
  <2>2. S \subseteq Questions /\ exam.made /\ exam.total = Total(S)
    BY <1>3, <2>1 DEF PaperGood
  <2> HIDE DEF S
  <2>3. /\ ReviewInv' /\ crashes' = crashes /\ memo' \in [Requests -> MemoRow]
        /\ \A x \in Requests : x # r => req'[x] = req[x] /\ memo'[x] = memo[x]
        /\ req'[r].op = "idle"
    BY <2>1, Releasing
  <2>4. /\ exam' = [made |-> exam.made, total |-> exam.total, rows |-> S]
    BY <1>3, <2>1
  <2>5. /\ exam'.made = exam.made /\ exam'.total = exam.total /\ exam'.rows = S
        /\ exam' = [made |-> exam'.made, total |-> exam'.total, rows |-> exam'.rows]
    BY <2>4
  <2>6. ASSUME NEW x \in Requests PROVE PaperGood(req'[x].op, memo'[x], papers'[x], exam')
    <3>1. CASE x = r
      BY <2>3, <3>1 DEF PaperGood
    <3>2. CASE x # r
      <4>1. PaperGood(req[x].op, memo[x], papers[x], exam) /\ papers'[x] = papers[x]
        BY <1>3, <2>1
      <4>2. req'[x].op = req[x].op /\ memo'[x] = memo[x]
        BY <2>3, <3>2
      <4> QED
        BY <2>5, <4>1, <4>2 DEF PaperGood
    <3> QED
      BY <3>1, <3>2
  <2>7. PaperInv'
    BY <1>3, <2>1, <2>2, <2>5, <2>6, PaperWhole
  <2>8. Others
    BY <1>1, <2>1, <2>3
  <2> QED
    BY <1>2, <1>3, <2>1, <2>2, <2>3, <2>5, <2>7, <2>8 DEF Questions
<1>7. ASSUME NEW u \in Users, GenerateRandomPaperSets(r, u) PROVE LibInv'
  <2>1. /\ Hold(r, "sets", NoMemo) /\ req[r].op = "idle"
        /\ papers' = [papers EXCEPT ![r] = <<>>]
        /\ requests < MaxRequests /\ requests' = requests + 1
        /\ UNCHANGED <<GenRows, reviewRows, template, said, syllabus, eligible, exam>>
    BY <1>7 DEF GenerateRandomPaperSets, Library, Begin
  <2>2. /\ ReviewInv' /\ crashes' = crashes /\ memo' \in [Requests -> MemoRow]
        /\ \A x \in Requests : x # r => req'[x] = req[x] /\ memo'[x] = memo[x]
        /\ req'[r].op = "sets" /\ memo'[r] = NoMemo
    <3>1. "sets" \in LibOps
      BY DEF LibOps
    <3> QED
      BY <2>1, <3>1, NoMemoRow, RequestCounted, Holding
  <2>3. /\ papers' \in [Requests -> Seq(SUBSET Questions)] /\ papers'[r] = <<>>
        /\ \A x \in Requests : x # r => papers'[x] = papers[x]
    <3>1. <<>> \in Seq(SUBSET Questions)
      OBVIOUS
    <3> QED
      BY <1>3, <2>1, <3>1
  <2>4. ASSUME NEW x \in Requests
        PROVE  /\ PaperGood(req'[x].op, memo'[x], papers'[x], exam')
               /\ \A i, k \in 1..Len(papers'[x]) : i # k => papers'[x][i] \cap papers'[x][k] = {}
    <3>1. CASE x = r
      <4>1. req'[x].op = "sets" /\ memo'[x].set = {} /\ Len(papers'[x]) = 0
        BY <2>2, <2>3, <3>1 DEF NoMemo
      <4> QED
        BY <4>1 DEF PaperGood
    <3>2. CASE x # r
      <4>1. /\ PaperGood(req[x].op, memo[x], papers[x], exam) /\ papers'[x] = papers[x]
            /\ \A i, k \in 1..Len(papers[x]) : i # k => papers[x][i] \cap papers[x][k] = {}
        BY <1>3, <2>3, <3>2
      <4>2. req'[x].op = req[x].op /\ memo'[x] = memo[x]
        BY <2>2, <3>2
      <4> QED
        BY <2>1, <4>1, <4>2
    <3> QED
      BY <3>1, <3>2
  <2>5. PaperInv'
    BY <1>3, <2>1, <2>4, PaperWhole
  <2>6. Others
    BY <1>1, <2>1, <2>2
  <2> QED
    BY <1>2, <1>3, <2>1, <2>2, <2>3, <2>5, <2>6 DEF Questions
<1>8. ASSUME RandomSet(r) PROVE LibInv'
  <2> DEFINE F == Fresh(r)
             old == memo[r].set
             P == Append(papers[r], F)
             m == [memo[r] EXCEPT !.set = old \cup F]
  <2>1. /\ req[r].op = "sets" /\ papers' = [papers EXCEPT ![r] = P]
        /\ memo' = [memo EXCEPT ![r] = m]
        /\ UNCHANGED <<GenRows, reviewRows, requests, req, template, said, syllabus, eligible, exam>>
    BY <1>8 DEF RandomSet
  <2>2. F \subseteq Questions /\ F \cap old = {}
    BY <1>4 DEF Fresh
  <2>3. /\ old \subseteq Questions /\ papers[r] \in Seq(SUBSET Questions)
        /\ \A i \in 1..Len(papers[r]) : papers[r][i] \subseteq old
    BY <1>3, <2>1 DEF PaperGood
  <2> HIDE DEF F
  <2>4. m \in MemoRow /\ m.set = old \cup F
    <3>1. memo[r] \in MemoRow
      BY LibTypes
    <3> QED
      BY <2>2, <2>3, <3>1 DEF MemoRow
  <2> HIDE DEF m
  <2>5. /\ P \in Seq(SUBSET Questions) /\ Len(P) = Len(papers[r]) + 1 /\ P[Len(P)] = F
        /\ \A i \in 1..Len(papers[r]) : P[i] = papers[r][i]
        /\ \A i \in 1..Len(P) : i = Len(P) \/ i \in 1..Len(papers[r])
    BY <2>2, <2>3
  <2> HIDE DEF P
  <2>6. /\ papers' \in [Requests -> Seq(SUBSET Questions)] /\ papers'[r] = P
        /\ \A x \in Requests : x # r => papers'[x] = papers[x]
    BY <1>3, <2>1, <2>5
  <2>7. /\ memo' \in [Requests -> MemoRow] /\ memo'[r] = m
        /\ \A x \in Requests : x # r => memo'[x] = memo[x]
    BY <2>1, <2>4, LibTypes
  <2>8. ReviewInv' /\ crashes' = crashes
    BY <2>1, LibTypes, LibKeepsReview DEF LibInv
  <2>9. ASSUME NEW x \in Requests
        PROVE  /\ PaperGood(req'[x].op, memo'[x], papers'[x], exam')
               /\ \A i, k \in 1..Len(papers'[x]) : i # k => papers'[x][i] \cap papers'[x][k] = {}
    <3>1. CASE x = r
      <4>1. req'[x].op = "sets" /\ memo'[x].set = old \cup F /\ papers'[x] = P
        BY <2>1, <2>4, <2>6, <2>7, <3>1
      <4>2. PaperGood(req'[x].op, memo'[x], papers'[x], exam')
        <5>1. \A i \in 1..Len(P) : P[i] \subseteq old \cup F
          BY <2>3, <2>5
        <5> QED
          BY <2>2, <2>3, <4>1, <5>1 DEF PaperGood
      <4>3. ASSUME NEW i \in 1..Len(P), NEW k \in 1..Len(P), i # k PROVE P[i] \cap P[k] = {}
        <5>1. CASE i \in 1..Len(papers[r]) /\ k \in 1..Len(papers[r])
          <6>1. papers[r][i] \cap papers[r][k] = {}
            BY <1>3, <4>3, <5>1
          <6> QED
            BY <2>5, <5>1, <6>1
        <5>2. CASE i = Len(P)
          <6>1. k \in 1..Len(papers[r])
            BY <2>5, <4>3, <5>2
          <6> QED
            BY <2>2, <2>3, <2>5, <5>2, <6>1
        <5>3. CASE k = Len(P)
          <6>1. i \in 1..Len(papers[r])
            BY <2>5, <4>3, <5>3
          <6> QED
            BY <2>2, <2>3, <2>5, <5>3, <6>1
        <5> QED
          BY <2>5, <5>1, <5>2, <5>3
      <4> QED
        BY <4>1, <4>2, <4>3
    <3>2. CASE x # r
      <4>1. /\ PaperGood(req[x].op, memo[x], papers[x], exam) /\ papers'[x] = papers[x]
            /\ \A i, k \in 1..Len(papers[x]) : i # k => papers[x][i] \cap papers[x][k] = {}
        BY <1>3, <2>6, <3>2
      <4>2. req'[x].op = req[x].op /\ memo'[x] = memo[x]
        BY <2>1, <2>7, <3>2
      <4> QED
        BY <2>1, <4>1, <4>2
    <3> QED
      BY <3>1, <3>2
  <2>10. PaperInv'
    BY <1>3, <2>1, <2>9, PaperWhole
  <2>11. Others
    BY <1>1, <2>1, <2>7, <2>8
  <2> QED
    BY <1>2, <1>3, <2>1, <2>6, <2>7, <2>8, <2>10, <2>11 DEF Questions
<1>9. ASSUME RandomSetsDone(r) PROVE LibInv'
  <2>1. /\ Release(r) /\ req[r].op = "sets"
        /\ UNCHANGED <<GenRows, reviewRows, requests, template, said, syllabus, eligible, papers, exam>>
    BY <1>9 DEF RandomSetsDone
  <2>2. /\ ReviewInv' /\ crashes' = crashes /\ memo' \in [Requests -> MemoRow]
        /\ \A x \in Requests : x # r => req'[x] = req[x] /\ memo'[x] = memo[x]
        /\ req'[r].op = "idle"
    BY <2>1, Releasing
  <2>3. PaperInv'
    BY <2>1, <2>2, PapersKept DEF LibInv
  <2>4. Others
    BY <1>1, <2>1, <2>2
  <2> QED
    BY <1>2, <1>3, <2>1, <2>2, <2>3, <2>4 DEF Questions
<1> QED
  BY <1>5, <1>6, <1>7, <1>8, <1>9

LEMMA LibStart == AiInit => LibInv
<1> SUFFICES ASSUME AiInit PROVE LibInv
  OBVIOUS
<1>1. GenInv
  <2>1. HandlersGood
    BY DEF AiInit, HandlersGood, RowGood, NoReq
  <2>2. BatchWhole /\ StoppedUnread
    BY DEF AiInit, BatchWhole, StoppedUnread
  <2>3. BilledOrBilling
    <3> SUFFICES ASSUME NEW j \in Jobs
                 PROVE  usage[j] + Cardinality(Billing(j)) <= Cardinality(ResultsOf(j))
      BY DEF BilledOrBilling
    <3>1. Billing(j) = {}
      BY DEF AiInit, Billing, NoRun
    <3>2. ResultsOf(j) \subseteq Results
      BY DEF ResultsOf
    <3>3. Cardinality(ResultsOf(j)) \in Nat /\ Cardinality(Billing(j)) = 0
      BY <3>1, <3>2, FiniteRows, FS_Subset, FS_CardinalityType, FS_EmptySet
    <3>4. usage[j] \in Nat /\ usage[j] <= Cardinality(ResultsOf(j))
      BY DEF AiInit, GenTypeOK
    <3> QED
      BY <3>3, <3>4
  <2> QED
    BY <2>1, <2>2, <2>3 DEF GenInv, AiInit
<1>2. ReviewTypeOK
  <2>1. NoDoc \in [status : {"NONE", "OCR_REQUIRED", "EXTRACTED", "COMPLETED", "GONE"},
                college : Colleges \cup {None}, approved : Nat,
                cand : [Candidates -> {"NONE", "PENDING", "SAVED"}]]
    BY DEF NoDoc
  <2> QED
    BY <2>1 DEF AiInit, ReviewRowsInit, ReviewTypeOK
<1>3. ReviewInv
  <2>1. \A g \in Results : IsFiniteSet(versions[g])
    BY FS_EmptySet DEF AiInit, ReviewRowsInit
  <2>2. \A g \in Results : bank[g] = 0 /\ results[g].status \notin {"APPROVED", "SAVED"}
    BY DEF AiInit, ReviewRowsInit
  <2>3. \A r \in Requests : Transfer(req[r], bank, everApproved)
    BY DEF AiInit, Transfer, NoReq
  <2> QED
    BY <1>1, <1>2, <2>1, <2>2, <2>3 DEF ReviewInv, ApprovedFirst, SavedHasQuestion
<1>4. \A r \in Requests : req[r].op = "idle" /\ memo[r] = NoMemo /\ papers[r] = <<>>
  BY IdleRow DEF AiInit
<1>5. TemplateInv
  BY <1>4 DEF AiInit, TemplateInv, HistoryTruthful, PromptGood
<1>6. SyllabusInv
  BY <1>4 DEF AiInit, SyllabusInv
<1>7. PaperInv
  BY <1>4 DEF AiInit, PaperInv, NoExam, PaperTotalExact, SetsDisjoint
<1>8. memo \in [Requests -> MemoRow]
  BY NoMemoRow DEF AiInit
<1> QED
  BY <1>3, <1>5, <1>6, <1>7, <1>8 DEF AiInit, LibInv

\* What the other modules do to the handlers leaves the library as it is.
LEMMA LibUntouched ==
  ASSUME LibInv, ReviewInv', UNCHANGED libRows,
         \A x \in Requests : req'[x] = req[x] \/ req'[x].op \notin LibOps,
         crashes' = 0 => /\ crashes = 0
                         /\ \A x \in Requests : req[x].op = "units" => req'[x].op = "units"
  PROVE  LibInv'
<1>1. UNCHANGED <<template, said, syllabus, eligible, papers, exam, memo>>
  BY DEF libRows
<1>2. TemplateInv'
  BY <1>1, TemplateKept DEF LibInv, LibOps
<1>3. SyllabusInv'
  BY <1>1, SyllabusKept DEF LibInv, LibOps
<1>4. PaperInv'
  BY <1>1, PapersKept DEF LibInv, LibOps
<1>5. LibTypeOK' /\ memo' \in [Requests -> MemoRow]
  BY <1>1 DEF LibInv, LibTypeOK
<1> QED
  BY <1>2, <1>3, <1>4, <1>5 DEF LibInv

LEMMA LibInductive == LibInv /\ [LibNext]_vars => LibInv'
<1> SUFFICES ASSUME LibInv, [LibNext]_vars PROVE LibInv'
  OBVIOUS
<1>1. ReviewInv /\ GenInv /\ crashes \in Nat
  BY Constants DEF LibInv, ReviewInv, GenInv, GenTypeOK
<1>2. ASSUME [GenNext]_genVars, UNCHANGED reviewRows, UNCHANGED libRows PROVE LibInv'
  <2>1. GenInv'
    BY <1>1, <1>2, GenStep
  <2>2. /\ \A r \in Requests : \/ req'[r] = req[r]
                               \/ /\ req'[r].op \in GenOps
                                  /\ crashes' = crashes => req[r].op \in GenOps
        /\ crashes' = crashes \/ crashes' = crashes + 1
        /\ \A g \in Results : results'[g].status \in {results[g].status, "PENDING", "REJECTED"}
    BY <1>1, <1>2, GenFrame
  <2>3. UNCHANGED <<bank, versions, doc, docBank, everApproved>>
    BY <1>2 DEF reviewRows
  <2>4. ReviewInv'
    <3>1. ReviewTypeOK' /\ \A g \in Results : IsFiniteSet(versions'[g])
      BY <1>1, <2>3 DEF ReviewInv, ReviewTypeOK
    <3>2. \A r \in Requests : Transfer(req'[r], bank', everApproved')
      BY <1>1, <2>2, <2>3 DEF ReviewInv, Transfer, GenOps
    <3>3. \A g \in Results : /\ results'[g].status = "APPROVED" => g \in everApproved'
                             /\ bank'[g] > 0 => g \in everApproved'
                             /\ results'[g].status = "SAVED" => bank'[g] > 0
      BY <1>1, <2>2, <2>3 DEF ReviewInv, ApprovedFirst, SavedHasQuestion
    <3> QED
      BY <2>1, <3>1, <3>2, <3>3 DEF ReviewInv, ApprovedFirst, SavedHasQuestion
  <2>5. \A o \in GenOps : o \notin LibOps
    BY DEF GenOps, LibOps
  <2>6. \A x \in Requests : req'[x] = req[x] \/ req'[x].op \notin LibOps
    BY <2>2, <2>5
  <2>7. ASSUME crashes' = 0
        PROVE  /\ crashes = 0
               /\ \A x \in Requests : req[x].op = "units" => req'[x].op = "units"
    <3>1. crashes = 0 /\ crashes' = crashes
      BY <1>1, <2>2, <2>7
    <3>2. "units" \notin GenOps
      BY DEF GenOps
    <3> QED
      BY <2>2, <3>1, <3>2
  <2> QED
    BY <1>2, <2>4, <2>6, <2>7, LibUntouched
<1>3. ASSUME NEW r \in Requests, ReviewRequest(r) \/ ReviewStep(r), UNCHANGED libRows
      PROVE  LibInv'
  <2>1. ReviewInv'
    BY <1>1, <1>3, ReviewRequestStep, ReviewHandlerStep
  <2>2. /\ crashes' = crashes
        /\ \A x \in Requests : \/ req'[x] = req[x]
                               \/ req'[x].op \notin LibOps /\ req[x].op \notin LibOps
    BY <1>1, <1>3, ReviewFrame
  <2>3. "units" \in LibOps
    BY DEF LibOps
  <2> QED
    BY <1>3, <2>1, <2>2, <2>3, LibUntouched
<1>4. ASSUME NEW r \in Requests, LibRequest(r) PROVE LibInv'
  BY <1>4, TemplateSteps, SyllabusSteps, PaperSteps DEF LibRequest
<1>5. ASSUME NEW r \in Requests, LibStep(r) PROVE LibInv'
  BY <1>5, TemplateSteps, SyllabusSteps, PaperSteps DEF LibStep
<1>6. ASSUME NEW q \in 1..Len(Pool), BankChanges(q) PROVE LibInv'
  <2>1. /\ requests < MaxRequests /\ requests' = requests + 1
        /\ eligible' \subseteq eligible \cup {q}
        /\ UNCHANGED <<GenRows, reviewRows, req, template, said, syllabus, papers, exam, memo>>
    BY <1>6 DEF BankChanges
  <2>2. ReviewInv' /\ crashes' = crashes
    BY <1>1, <2>1, RequestCounted, LibTypes, LibKeepsReview
  <2>3. TemplateInv' /\ SyllabusInv' /\ PaperInv'
    BY <2>1, <2>2, TemplateKept, SyllabusKept, PapersKept DEF LibInv
  <2>4. LibTypeOK' /\ memo' \in [Requests -> MemoRow]
    BY <2>1 DEF LibInv, LibTypeOK
  <2> QED
    BY <2>2, <2>3, <2>4 DEF LibInv
<1>7. ASSUME UNCHANGED vars PROVE LibInv'
  <2>1. UNCHANGED <<genVars, reviewRows, libRows>>
    BY <1>7 DEF vars, reviewVars
  <2> QED
    BY <1>2, <2>1
<1>8. ASSUME ReviewNext, UNCHANGED libRows PROVE LibInv'
  BY <1>2, <1>3, <1>8 DEF ReviewNext
<1> QED
  BY <1>4, <1>5, <1>6, <1>7, <1>8 DEF LibNext

LEMMA LibAlways == AiSpec => []LibInv
  BY LibStart, LibInductive, PTL DEF AiSpec

\* Whatever reviews, regenerations, transfers and restarts overlap, a generated
\* question is in the bank only after a human approved it, and one marked as
\* saved is there (reviewResults, saveApprovedToQuestionBank).
THEOREM ReviewHolds == AiSpec => []ReviewAccounted
<1>1. LibInv => ReviewAccounted
  BY DEF LibInv, ReviewInv, ReviewAccounted
<1> QED
  BY <1>1, LibAlways, PTL

\* Overlapping updates leave a template whose history is what its versions said,
\* a syllabus with units, paper sets without a common question, and a paper whose
\* total is that of its questions (updatePromptTemplate, rollbackPromptTemplate,
\* updateSyllabus, generateRandomPaperSets, generateExamPaper).
THEOREM LibraryHolds == AiSpec => []LibraryConsistent
<1>1. LibInv => LibraryConsistent
  <2> SUFFICES ASSUME LibInv PROVE LibraryConsistent
    OBVIOUS
  <2>1. SyllabusKeepsUnits
    <3> SUFFICES ASSUME AtRest, crashes = 0, syllabus = {} PROVE FALSE
      BY DEF SyllabusKeepsUnits
    <3>1. PICK r \in Requests : req[r].op = "units"
      BY DEF LibInv, SyllabusInv
    <3> QED
      BY <3>1 DEF AtRest
  <2>2. AiTypeOK
    BY DEF LibInv, ReviewInv, GenInv, AiTypeOK
  <2> QED
    BY <2>1, <2>2 DEF LibInv, TemplateInv, PaperInv, LibraryConsistent
<1> QED
  BY <1>1, LibAlways, PTL

-----------------------------------------------------------------------------
(* Documents: the approved count. *)

(* What approvals in flight have still to add to the count: the questions they *)
(* have made and marked, and the one made and not yet marked.                  *)
Approvals == {"approve", "candidate"}
Owes(q) == IF q.op = "approve" THEN q.left ELSE IF q.op = "candidate" THEN q.left + 1 ELSE 0
Owed == [r \in Requests |-> Owes(req[r])]
Untouched ==
    /\ \A c \in Candidates : docBank[c] = 0
    /\ doc.approved = 0 /\ \A r \in Requests : req[r].op \notin Approvals
CountHolds == Sum(docBank, Candidates) = doc.approved + Sum(Owed, Requests)
DocInv ==
    /\ \A r \in Requests : req[r].op \in Approvals => req[r].made \subseteq Candidates
    /\ doc.status = "NONE" => Untouched
    /\ crashes = 0 /\ doc.status # "GONE" => CountHolds

LEMMA DocTypes ==
  ASSUME LibInv
  PROVE  /\ req \in [Requests -> ReqRow] /\ IsFiniteSet(Requests) /\ IsFiniteSet(Candidates)
         /\ docBank \in [Candidates -> Nat] /\ doc.approved \in Nat /\ crashes \in Nat
         /\ doc \in [status : {"NONE", "OCR_REQUIRED", "EXTRACTED", "COMPLETED", "GONE"},
                     college : Colleges \cup {None}, approved : Nat,
                     cand : [Candidates -> {"NONE", "PENDING", "SAVED"}]]
         /\ \A r \in Requests : Owed[r] \in Nat /\ Owed[r] = Owes(req[r])
<1>1. req \in [Requests -> ReqRow]
  BY LibTypes
<1>2. IsFiniteSet(Requests)
  BY ReviewAssumption
<1>3. IsFiniteSet(Candidates)
  <2>1. 1 \in Int /\ MaxCandidates \in Int
    BY ReviewAssumption
  <2> QED
    BY <2>1, FS_Interval DEF Candidates
<1>4. /\ docBank \in [Candidates -> Nat]
      /\ doc \in [status : {"NONE", "OCR_REQUIRED", "EXTRACTED", "COMPLETED", "GONE"},
                  college : Colleges \cup {None}, approved : Nat,
                  cand : [Candidates -> {"NONE", "PENDING", "SAVED"}]]
  BY DEF LibInv, ReviewInv, ReviewTypeOK
<1>5. crashes \in Nat
  BY Constants DEF LibInv, ReviewInv, GenInv, GenTypeOK
<1>6. \A r \in Requests : Owes(req[r]) \in Nat
  <2>1. \A r \in Requests : req[r].left \in Nat
    BY <1>1 DEF ReqRow
  <2> QED
    BY <2>1 DEF Owes
<1> QED
  BY <1>1, <1>2, <1>3, <1>4, <1>5, <1>6 DEF Owed

\* A sum changes by what one of its summands changes.
LEMMA SumChanges ==
  ASSUME NEW S, IsFiniteSet(S), NEW x \in S, NEW m, NEW n,
         \A y \in S : m[y] \in Int /\ n[y] \in Int,
         \A y \in S : y # x => n[y] = m[y]
  PROVE  Sum(n, S) = Sum(m, S) + (n[x] - m[x])
<1>1. IsFiniteSet(S \ {x}) /\ \A y \in S \ {x} : m[y] \in Int /\ n[y] = m[y]
  BY FS_Subset
<1>2. (\A y \in S : m[y] \in Int) /\ \A y \in S : n[y] \in Int
  OBVIOUS
<1>3. Sum(m, S) = m[x] + Sum(m, S \ {x})
  BY <1>2, SumLess
<1>4. Sum(n, S) = n[x] + Sum(n, S \ {x})
  BY <1>2, SumLess
<1>5. Sum(m, S \ {x}) = Sum(n, S \ {x})
  <2>1. (\A y \in S \ {x} : m[y] \in Int) /\ \A y \in S \ {x} : m[y] = n[y]
    BY <1>1
  <2> QED
    BY <1>1, <2>1, SumSame
<1>6. Sum(m, S \ {x}) \in Int
  <2>1. \A y \in S \ {x} : m[y] \in Int
    BY <1>1
  <2> QED
    BY <1>1, <2>1, SumInt
<1>7. m[x] \in Int /\ n[x] \in Int
  OBVIOUS
<1> QED
  BY <1>3, <1>4, <1>5, <1>6, <1>7

\* The rows of a request in flight that approves nothing.
LEMMA OwedStays ==
  ASSUME LibInv, LibInv',
         \A x \in Requests : \/ req'[x] = req[x]
                             \/ Owes(req'[x]) = Owes(req[x])
  PROVE  Sum(Owed, Requests)' = Sum(Owed, Requests)
<1> DEFINE now == Owed  then == Owed'
<1>1. \A x \in Requests : now[x] = then[x] /\ now[x] \in Int
  <2>1. \A x \in Requests : Owed[x] = Owes(req[x]) /\ Owed[x] \in Nat
    BY DocTypes
  <2>2. \A x \in Requests : Owed'[x] = Owes(req'[x])
    BY DEF Owed
  <2> QED
    BY <2>1, <2>2
<1>2. IsFiniteSet(Requests)
  BY DocTypes
<1> HIDE DEF now, then
<1>3. Sum(now, Requests) = Sum(then, Requests)
  BY <1>1, <1>2, SumSame
<1>4. Sum(Owed, Requests)' = Sum(then, Requests)
  BY DEF then
<1> QED
  BY <1>3, <1>4 DEF now

\* Steps that neither approve nor import.
LEMMA CountKept ==
  ASSUME LibInv, LibInv', DocInv, UNCHANGED docBank, doc'.approved = doc.approved,
         doc'.status = "NONE" => doc.status = "NONE",
         doc.status = "GONE" => doc'.status = "GONE",
         \A x \in Requests : req'[x] = req[x] \/ req'[x].op \notin Approvals,
         crashes' = 0 => /\ crashes = 0
                         /\ \A x \in Requests : req'[x] = req[x] \/ req[x].op \notin Approvals
  PROVE  DocInv'
<1>1. \A x \in Requests : req'[x].op \in Approvals => req'[x].made \subseteq Candidates
  BY DEF DocInv
<1>2. doc'.status = "NONE" => Untouched'
  BY DEF DocInv, Untouched
<1>3. ASSUME crashes' = 0, doc'.status # "GONE" PROVE CountHolds'
  <2>1. CountHolds
    BY <1>3 DEF DocInv
  <2>2. \A x \in Requests : req'[x] = req[x] \/ Owes(req'[x]) = Owes(req[x])
    BY <1>3 DEF Owes, Approvals
  <2>3. Sum(Owed, Requests)' = Sum(Owed, Requests)
    BY <2>2, OwedStays
  <2>4. Sum(docBank, Candidates)' = Sum(docBank, Candidates)
    OBVIOUS
  <2> QED
    BY <2>1, <2>3, <2>4 DEF CountHolds
<1> QED
  BY <1>1, <1>2, <1>3 DEF DocInv

\* A step of one request that approves nothing.
Apart(r) ==
    \/ req' = req
    \/ req[r].op \notin Approvals /\ \E row : req' = [req EXCEPT ![r] = row]
                                              /\ row.op \notin Approvals

LEMMA ApartKeeps ==
  ASSUME LibInv, LibInv', DocInv, UNCHANGED <<docBank, crashes>>, doc'.approved = doc.approved,
         doc'.status = "NONE" => doc.status = "NONE",
         doc.status = "GONE" => doc'.status = "GONE", NEW r \in Requests, Apart(r)
  PROVE  DocInv'
<1>1. req \in [Requests -> ReqRow]
  BY DocTypes
<1>2. \A x \in Requests : \/ req'[x] = req[x]
                          \/ req'[x].op \notin Approvals /\ req[x].op \notin Approvals
  BY <1>1 DEF Apart
<1> QED
  BY <1>2, CountKept

\* Generations, reviews and the library stay apart from the document.
LEMMA GenerationApart ==
  ASSUME LibInv, LibInv', DocInv, [GenNext]_genVars, UNCHANGED reviewRows
  PROVE  DocInv'
<1>1. /\ \A r \in Requests : \/ req'[r] = req[r]
                             \/ /\ req'[r].op \in GenOps
                                /\ crashes' = crashes => req[r].op \in GenOps
      /\ crashes' = crashes \/ crashes' = crashes + 1
  BY GenFrame DEF LibInv, ReviewInv
<1>2. \A o \in GenOps : o \notin Approvals
  BY DEF GenOps, Approvals
<1>3. crashes \in Nat
  BY DocTypes
<1>4. \A r \in Requests : req'[r] = req[r] \/ req'[r].op \notin Approvals
  BY <1>1, <1>2
<1>5. crashes' = 0 => crashes = 0 /\ crashes' = crashes
  BY <1>1, <1>3
<1>6. crashes' = crashes => \A r \in Requests : req'[r] = req[r] \/ req[r].op \notin Approvals
  BY <1>1, <1>2
<1>7. UNCHANGED <<doc, docBank>>
  BY DEF reviewRows
<1> QED
  BY <1>4, <1>5, <1>6, <1>7, CountKept

LEMMA PutApart ==
  ASSUME NEW r \in Requests, NEW row, req' = [req EXCEPT ![r] = row],
         req[r].op \notin Approvals, row.op \notin Approvals
  PROVE  Apart(r)
  BY DEF Apart

LEMMA LibraryApart ==
  ASSUME LibInv, LibInv', DocInv, NEW r \in Requests, LibRequest(r) \/ LibStep(r)
  PROVE  DocInv'
<1>1. UNCHANGED <<doc, docBank, crashes>>
  BY ZenonT(30) DEF LibRequest, LibStep, UpdatePromptTemplate, DeletePromptTemplate, RollbackPromptTemplate,
     UpdateSyllabus, GenerateExamPaper, GenerateRandomPaperSets, PromptWrite, RollbackWrite,
     UnitsWrite, PaperWrite, RandomSet, RandomSetsDone, GenRows, reviewRows
<1>2. req[r].op \notin Approvals
  BY ZenonT(30) DEF LibRequest, LibStep, UpdatePromptTemplate, DeletePromptTemplate, RollbackPromptTemplate,
     UpdateSyllabus, GenerateExamPaper, GenerateRandomPaperSets, PromptWrite, RollbackWrite,
     UnitsWrite, PaperWrite, RandomSet, RandomSetsDone, Library, Begin, Approvals
<1>3. \/ req' = req
      \/ req' = [req EXCEPT ![r] = NoReq]
      \/ \E op \in LibOps : req' = [req EXCEPT ![r] = [NoReq EXCEPT !.op = op]]
  BY DEF LibRequest, LibStep, UpdatePromptTemplate, DeletePromptTemplate, RollbackPromptTemplate,
     UpdateSyllabus, GenerateExamPaper, GenerateRandomPaperSets, PromptWrite, RollbackWrite,
     UnitsWrite, PaperWrite, RandomSet, RandomSetsDone, Hold, Release, LibOps
<1>4. NoReq.op \notin Approvals
  BY IdleRow DEF Approvals
<1>5. \A op \in LibOps : [NoReq EXCEPT !.op = op].op = op /\ op \notin Approvals
  BY DEF NoReq, LibOps, Approvals
<1>6. Apart(r)
  <2>1. CASE req' = req
    BY <2>1 DEF Apart
  <2>2. CASE req' = [req EXCEPT ![r] = NoReq]
    BY <1>2, <1>4, <2>2, PutApart
  <2>3. ASSUME NEW op \in LibOps, req' = [req EXCEPT ![r] = [NoReq EXCEPT !.op = op]]
        PROVE  Apart(r)
    <3>1. PICK row : row = [NoReq EXCEPT !.op = op]
      OBVIOUS
    <3>2. row.op \notin Approvals
      BY <1>5, <3>1
    <3>3. req' = [req EXCEPT ![r] = row]
      BY <2>3, <3>1
    <3> QED
      BY <1>2, <3>2, <3>3, PutApart
  <2> QED
    BY <1>3, <2>1, <2>2, <2>3
<1> QED
  BY <1>1, <1>6, ApartKeeps

LEMMA TransferApart ==
  ASSUME LibInv, LibInv', DocInv, NEW r \in Requests,
         VersionWrite(r) \/ SaveCreate(r) \/ SaveMark(r) \/ SaveDone(r)
  PROVE  DocInv'
<1>1. UNCHANGED <<doc, docBank, crashes>> /\ req[r].op \notin Approvals
  BY DEF VersionWrite, SaveCreate, SaveMark, SaveDone, JobRows, reviewRows, Approvals
<1>2. req \in [Requests -> ReqRow] /\ req[r] \in ReqRow
  BY DocTypes
<1>3. NoReq.op \notin Approvals
  BY IdleRow DEF Approvals
<1>4. Apart(r)
  <2>1. CASE VersionWrite(r) \/ SaveDone(r)
    <3>1. req' = [req EXCEPT ![r] = NoReq]
      BY <2>1 DEF VersionWrite, SaveDone, Done
    <3> QED
      BY <1>1, <1>3, <3>1, PutApart
  <2>2. CASE SaveCreate(r)
    <3>1. PICK g \in req[r].made :
            req' = [req EXCEPT ![r] = [req[r] EXCEPT !.op = "mark", !.left = g]]
      BY <2>2 DEF SaveCreate
    <3>2. PICK row : row = [req[r] EXCEPT !.op = "mark", !.left = g]
      OBVIOUS
    <3>3. row.op = "mark"
      BY <1>2, <3>2 DEF ReqRow
    <3>4. row.op \notin Approvals /\ req' = [req EXCEPT ![r] = row]
      BY <3>1, <3>2, <3>3 DEF Approvals
    <3> QED
      BY <1>1, <3>4, PutApart
  <2>3. CASE SaveMark(r)
    <3>1. PICK row : row = [req[r] EXCEPT !.op = "save", !.made = req[r].made \ {req[r].left}]
      OBVIOUS
    <3>2. row.op = "save"
      BY <1>2, <3>1 DEF ReqRow
    <3>3. row.op \notin Approvals /\ req' = [req EXCEPT ![r] = row]
      BY <2>3, <3>1, <3>2 DEF Approvals, SaveMark
    <3> QED
      BY <1>1, <3>3, PutApart
  <2> QED
    BY <2>1, <2>2, <2>3
<1> QED
  BY <1>1, <1>4, ApartKeeps

\* Of the requests only one approves.
LEMMA RequestsKeepCount ==
  ASSUME LibInv, LibInv', DocInv, NEW r \in Requests, ReviewRequest(r)
  PROVE  DocInv'
<1>1. /\ req \in [Requests -> ReqRow] /\ req[r] \in ReqRow
      /\ doc \in [status : {"NONE", "OCR_REQUIRED", "EXTRACTED", "COMPLETED", "GONE"},
                  college : Colleges \cup {None}, approved : Nat,
                  cand : [Candidates -> {"NONE", "PENDING", "SAVED"}]]
  BY DocTypes, SMTT(20)
<1>2. UNCHANGED <<docBank, crashes>> /\ req[r].op = "idle" /\ req[r].op \notin Approvals
  BY ZenonT(60) DEF ReviewRequest, SaveApproved, ReviewResults, UpdateGeneratedQuestion, ImportDocument,
     ProcessDocumentJob, ApproveDocumentJob, DeleteDocumentJob, JobRequest, DocRequest, Begin,
     JobRows, reviewRows, Approvals
<1>3. ASSUME NEW u \in Users, NEW j \in Jobs, SaveApproved(r, u, j) PROVE DocInv'
  <2>1. PICK row : row = [NoReq EXCEPT !.op = "save", !.made = ApprovedOf(j), !.job = j]
    OBVIOUS
  <2>2. row.op = "save"
    BY <2>1 DEF NoReq
  <2>3. req' = [req EXCEPT ![r] = row] /\ row.op \notin Approvals /\ UNCHANGED doc
    BY <1>3, <2>1, <2>2 DEF SaveApproved, Work, Approvals, reviewRows
  <2>4. Apart(r)
    BY <1>2, <2>3, PutApart
  <2> QED
    BY <1>2, <2>3, <2>4, ApartKeeps
<1>4. ASSUME NEW u \in Users, NEW g \in Results, UpdateGeneratedQuestion(r, u, g) PROVE DocInv'
  <2>1. PICK row : row = [NoReq EXCEPT !.op = "version", !.job = g, !.left = Cardinality(versions[g])]
    OBVIOUS
  <2>2. row.op = "version"
    BY <2>1 DEF NoReq
  <2>3. req' = [req EXCEPT ![r] = row] /\ row.op \notin Approvals /\ UNCHANGED doc
    BY <1>4, <2>1, <2>2 DEF UpdateGeneratedQuestion, Approvals, reviewRows
  <2>4. Apart(r)
    BY <1>2, <2>3, PutApart
  <2> QED
    BY <1>2, <2>3, <2>4, ApartKeeps
<1>5. ASSUME NEW u \in Users, NEW j \in Jobs, NEW S \in SUBSET Results,
             NEW d \in {"APPROVED", "REJECTED"}, ReviewResults(r, u, j, S, d)
      PROVE  DocInv'
  <2>1. UNCHANGED <<req, doc>>
    BY <1>5 DEF ReviewResults
  <2> QED
    BY <1>2, <2>1, ApartKeeps DEF Apart
<1>6. ASSUME NEW u \in Users, NEW c \in Colleges, NEW k \in Kinds, ImportDocument(r, u, c, k)
      PROVE  DocInv'
  <2>1. PICK e \in Extracted(k) :
          doc' = [status |-> IF e.ocr THEN "OCR_REQUIRED" ELSE "EXTRACTED",
                  college |-> c, approved |-> 0,
                  cand |-> [x \in Candidates |-> IF x <= e.n THEN "PENDING" ELSE "NONE"]]
    BY <1>6 DEF ImportDocument
  <2>2. UNCHANGED req /\ doc.status = "NONE" /\ doc'.approved = 0 /\ doc'.status # "NONE"
    BY <1>6, <2>1 DEF ImportDocument
  <2>3. doc.approved = 0
    BY <2>2 DEF DocInv, Untouched
  <2> QED
    BY <1>2, <2>2, <2>3, ApartKeeps DEF Apart
<1>7. ASSUME NEW u \in Users, ProcessDocumentJob(r, u) \/ DeleteDocumentJob(r, u) PROVE DocInv'
  <2>1. /\ UNCHANGED req /\ doc.status # "GONE"
        /\ doc' = [doc EXCEPT !.status = "COMPLETED"] \/ doc' = [doc EXCEPT !.status = "GONE"]
    BY <1>7 DEF ProcessDocumentJob, DeleteDocumentJob, DocRequest
  <2>2. doc'.approved = doc.approved /\ doc'.status # "NONE"
    BY <1>1, <2>1
  <2> QED
    BY <1>2, <2>1, <2>2, ApartKeeps DEF Apart
<1>8. ASSUME NEW u \in Users, ApproveDocumentJob(r, u) PROVE DocInv'
  <2>1. PICK todo : todo = {c \in Candidates : doc.cand[c] = "PENDING"}
    OBVIOUS
  <2>2. PICK row : row = [NoReq EXCEPT !.op = "approve", !.made = todo, !.job = 0]
    OBVIOUS
  <2>3. row.op = "approve" /\ row.made = todo /\ row.left = 0
    BY <2>2 DEF NoReq
  <2>4. /\ req' = [req EXCEPT ![r] = row] /\ UNCHANGED doc /\ doc.status # "NONE"
    BY <1>8, <2>1, <2>2 DEF ApproveDocumentJob, DocRequest, Work, reviewRows
  <2>5. todo \subseteq Candidates
    BY <2>1
  <2>6. \A x \in Requests : req'[x] = IF x = r THEN row ELSE req[x]
    BY <1>1, <2>4
  <2>7. \A x \in Requests : req'[x].op \in Approvals => req'[x].made \subseteq Candidates
    BY <2>3, <2>5, <2>6 DEF DocInv
  <2>8. Owes(row) = 0 /\ Owes(req[r]) = 0
    BY <1>2, <2>3 DEF Owes
  <2>9. \A x \in Requests : req'[x] = req[x] \/ Owes(req'[x]) = Owes(req[x])
    BY <2>6, <2>8
  <2>10. Sum(Owed, Requests)' = Sum(Owed, Requests)
    BY <2>9, OwedStays
  <2>11. Sum(docBank, Candidates)' = Sum(docBank, Candidates)
    BY <1>2
  <2>12. CountHolds => CountHolds'
    BY <2>4, <2>10, <2>11 DEF CountHolds
  <2> QED
    BY <1>2, <2>4, <2>7, <2>12 DEF DocInv
<1> QED
  BY <1>3, <1>4, <1>5, <1>6, <1>7, <1>8 DEF ReviewRequest

\* A request that goes on with an approval: the count holds if what its step adds
\* to the bank is what it adds to the count and to what it owes.
LEMMA ApprovalGoesOn ==
  ASSUME LibInv, LibInv', DocInv, NEW r \in Requests, NEW row, req' = [req EXCEPT ![r] = row],
         row.op \in Approvals => row.made \subseteq Candidates,
         doc'.status # "NONE", UNCHANGED crashes,
         doc'.status # "GONE" =>
             /\ doc.status # "GONE"
             /\ Sum(docBank, Candidates)' - Sum(docBank, Candidates)
                  = (doc'.approved - doc.approved) + (Owes(row) - Owes(req[r]))
  PROVE  DocInv'
<1>1. req \in [Requests -> ReqRow] /\ IsFiniteSet(Requests) /\ IsFiniteSet(Candidates)
  BY DocTypes
<1>2. \A x \in Requests : req'[x] = IF x = r THEN row ELSE req[x]
  BY <1>1
<1>3. \A x \in Requests : req'[x].op \in Approvals => req'[x].made \subseteq Candidates
  BY <1>2 DEF DocInv
<1>4. ASSUME crashes' = 0, doc'.status # "GONE" PROVE CountHolds'
  <2> DEFINE now == Owed  then == Owed'
  <2>1. \A x \in Requests : now[x] = Owes(req[x]) /\ now[x] \in Nat
    BY DocTypes
  <2>2. \A x \in Requests : then[x] = Owes(req'[x])
    BY DEF Owed
  <2>3. req' \in [Requests -> ReqRow]
    BY DEF LibInv, ReviewInv, GenInv, GenTypeOK
  <2>4. \A x \in Requests : then[x] \in Nat
    <3>1. \A x \in Requests : req'[x].left \in Nat
      BY <2>3 DEF ReqRow
    <3> QED
      BY <2>2, <3>1 DEF Owes
  <2>5. \A x \in Requests : x # r => then[x] = now[x]
    BY <1>2, <2>1, <2>2
  <2>6. now[r] = Owes(req[r]) /\ then[r] = Owes(row)
    BY <1>2, <2>1, <2>2
  <2>7. Sum(Owed, Requests)' = Sum(then, Requests)
    OBVIOUS
  <2>8. Sum(Owed, Requests) = Sum(now, Requests)
    OBVIOUS
  <2> HIDE DEF now, then
  <2>9. \A x \in Requests : now[x] \in Int /\ then[x] \in Int
    BY <2>1, <2>4
  <2>10. Sum(then, Requests) = Sum(now, Requests) + (then[r] - now[r])
    BY <1>1, <2>5, <2>9, SumChanges
  <2>11. Sum(now, Requests) \in Int
    BY <1>1, <2>9, SumInt
  <2>12. Sum(docBank, Candidates) = doc.approved + Sum(now, Requests)
    BY <1>4, <2>8 DEF DocInv, CountHolds
  <2>13. doc.approved \in Int
    BY DocTypes
  <2>14. (doc.approved \in Nat)' /\ (docBank \in [Candidates -> Nat])'
    BY DEF LibInv, ReviewInv, ReviewTypeOK
  <2>15. Sum(docBank, Candidates)' \in Int
    <3>1. PICK bank2 : bank2 = docBank'
      OBVIOUS
    <3>2. \A c \in Candidates : bank2[c] \in Int
      BY <2>14, <3>1
    <3>3. Sum(bank2, Candidates) \in Int
      BY <1>1, <3>2, SumInt
    <3>4. Sum(docBank, Candidates)' = Sum(bank2, Candidates)
      BY <3>1
    <3> QED
      BY <3>3, <3>4
  <2>16. now[r] \in Int /\ then[r] \in Int
    BY <2>9
  <2>17. Sum(docBank, Candidates)' - Sum(docBank, Candidates)
           = (doc'.approved - doc.approved) + (then[r] - now[r])
    BY <1>4, <2>6
  <2>18. Sum(docBank, Candidates) \in Int
    BY <2>11, <2>12, <2>13
  <2>19. Sum(docBank, Candidates)' = doc'.approved + Sum(then, Requests)
    BY <2>10, <2>11, <2>12, <2>13, <2>14, <2>15, <2>16, <2>17, <2>18
  <2> QED
    BY <2>7, <2>19 DEF CountHolds
<1>5. CASE crashes' = 0 /\ doc'.status # "GONE"
  BY <1>3, <1>4, <1>5 DEF DocInv
<1>6. CASE ~(crashes' = 0 /\ doc'.status # "GONE")
  BY <1>3, <1>6 DEF DocInv
<1> QED
  BY <1>5, <1>6

LEMMA CandidateCounted ==
  ASSUME LibInv, LibInv', DocInv, NEW r \in Requests, CandidateCreate(r)
  PROVE  DocInv'
<1>1. req[r].op = "approve" /\ UNCHANGED <<doc, crashes>>
  BY DEF CandidateCreate, JobRows
<1>2. PICK c \in req[r].made :
        /\ docBank' = [docBank EXCEPT ![c] = docBank[c] + 1]
        /\ req' = [req EXCEPT ![r] = [req[r] EXCEPT !.op = "candidate", !.job = c]]
  BY DEF CandidateCreate
<1>3. req[r] \in ReqRow /\ docBank \in [Candidates -> Nat] /\ IsFiniteSet(Candidates)
  BY DocTypes
<1>4. req[r].made \subseteq Candidates /\ c \in Candidates
  BY <1>1 DEF DocInv, Approvals
<1>5. PICK row : row = [req[r] EXCEPT !.op = "candidate", !.job = c]
  OBVIOUS
<1>6. row.op = "candidate" /\ row.made = req[r].made /\ row.left = req[r].left
  BY <1>3, <1>5 DEF ReqRow
<1>7. doc'.status # "NONE"
  BY <1>1 DEF DocInv, Untouched, Approvals
<1>8. req[r].left \in Nat
  BY <1>3 DEF ReqRow
<1>9. Owes(row) - Owes(req[r]) = 1
  BY <1>1, <1>6, <1>8 DEF Owes
<1>10. Sum(docBank, Candidates)' = Sum(docBank, Candidates) + 1
  <2>1. PICK bank2 : bank2 = docBank'
    OBVIOUS
  <2>2. /\ \A d \in Candidates : docBank[d] \in Int /\ bank2[d] \in Int
        /\ \A d \in Candidates : d # c => bank2[d] = docBank[d]
        /\ bank2[c] - docBank[c] = 1
    BY <1>2, <1>3, <1>4, <2>1
  <2>3. Sum(bank2, Candidates) = Sum(docBank, Candidates) + (bank2[c] - docBank[c])
    BY <1>3, <1>4, <2>2, SumChanges
  <2>4. Sum(docBank, Candidates)' = Sum(bank2, Candidates)
    BY <2>1
  <2> QED
    BY <2>2, <2>3, <2>4
<1>11. Sum(docBank, Candidates) \in Int
  <2>1. \A d \in Candidates : docBank[d] \in Int
    BY <1>3
  <2> QED
    BY <1>3, <2>1, SumInt
<1>12. doc.approved \in Nat /\ doc'.approved = doc.approved
  BY <1>1, DocTypes
<1>13. Sum(docBank, Candidates)' - Sum(docBank, Candidates)
         = (doc'.approved - doc.approved) + (Owes(row) - Owes(req[r]))
  BY <1>9, <1>10, <1>11, <1>12
<1>14. req' = [req EXCEPT ![r] = row] /\ row.made \subseteq Candidates
  BY <1>2, <1>4, <1>5, <1>6
<1> QED
  BY <1>1, <1>7, <1>13, <1>14, ApprovalGoesOn

LEMMA MarkCounted ==
  ASSUME LibInv, LibInv', DocInv, NEW r \in Requests, CandidateMark(r) \/ ApproveDone(r)
  PROVE  DocInv'
<1>1. req[r].op \in Approvals /\ UNCHANGED <<docBank, crashes>>
  BY DEF CandidateMark, ApproveDone, JobRows, Approvals
<1>2. /\ req[r] \in ReqRow /\ docBank \in [Candidates -> Nat] /\ IsFiniteSet(Candidates)
      /\ doc \in [status : {"NONE", "OCR_REQUIRED", "EXTRACTED", "COMPLETED", "GONE"},
                  college : Colleges \cup {None}, approved : Nat,
                  cand : [Candidates -> {"NONE", "PENDING", "SAVED"}]]
      /\ doc.approved \in Nat
  BY DocTypes
<1>3. req[r].left \in Nat
  BY <1>2 DEF ReqRow
<1>4. req[r].made \subseteq Candidates /\ doc.status # "NONE"
  BY <1>1 DEF DocInv, Untouched
<1>5. NoReq.op = "idle" /\ NoReq.op \notin Approvals /\ Owes(NoReq) = 0
  BY IdleRow DEF Approvals, Owes
<1>6. Sum(docBank, Candidates)' - Sum(docBank, Candidates) = 0
  <2>1. \A d \in Candidates : docBank[d] \in Int
    BY <1>2
  <2>2. Sum(docBank, Candidates) \in Int
    BY <1>2, <2>1, SumInt
  <2>3. Sum(docBank, Candidates)' = Sum(docBank, Candidates)
    BY <1>1
  <2> QED
    BY <2>2, <2>3
<1>7. CASE doc.status = "GONE"
  <2>1. UNCHANGED doc /\ req' = [req EXCEPT ![r] = NoReq]
    BY <1>7 DEF CandidateMark, ApproveDone, Done
  <2> QED
    BY <1>1, <1>5, <1>7, <2>1, ApprovalGoesOn
<1>8. CASE doc.status # "GONE" /\ CandidateMark(r)
  <2>1. PICK row : row = [req[r] EXCEPT !.op = "approve", !.made = req[r].made \ {req[r].job},
                                        !.left = req[r].left + 1]
    OBVIOUS
  <2>2. /\ row.op = "approve" /\ row.made = req[r].made \ {req[r].job}
        /\ row.left = req[r].left + 1
    BY <1>2, <2>1 DEF ReqRow
  <2>3. /\ req' = [req EXCEPT ![r] = row] /\ req[r].op = "candidate"
        /\ doc' = [doc EXCEPT !.cand[req[r].job] = "SAVED"]
    BY <1>8, <2>1 DEF CandidateMark
  <2>4. doc'.status = doc.status /\ doc'.approved = doc.approved
    BY <1>2, <2>3
  <2>5. Owes(row) = Owes(req[r]) /\ Owes(req[r]) \in Nat
    BY <1>3, <2>2, <2>3 DEF Owes
  <2>6. row.made \subseteq Candidates /\ doc'.status # "NONE"
    BY <1>4, <2>2, <2>4
  <2>7. Sum(docBank, Candidates)' - Sum(docBank, Candidates)
          = (doc'.approved - doc.approved) + (Owes(row) - Owes(req[r]))
    BY <1>2, <1>6, <2>4, <2>5
  <2> QED
    BY <1>1, <1>8, <2>3, <2>6, <2>7, ApprovalGoesOn
<1>9. CASE doc.status # "GONE" /\ ApproveDone(r)
  <2>1. /\ req' = [req EXCEPT ![r] = NoReq] /\ req[r].op = "approve"
        /\ doc' = [doc EXCEPT !.status = "COMPLETED", !.approved = doc.approved + req[r].left]
    BY <1>9 DEF ApproveDone, Done
  <2>2. doc'.status = "COMPLETED" /\ doc'.approved = doc.approved + req[r].left
    BY <1>2, <2>1
  <2>3. Owes(NoReq) - Owes(req[r]) = -req[r].left
    BY <1>3, <1>5, <2>1 DEF Owes
  <2>4. Sum(docBank, Candidates)' - Sum(docBank, Candidates)
          = (doc'.approved - doc.approved) + (Owes(NoReq) - Owes(req[r]))
    BY <1>2, <1>3, <1>6, <2>2, <2>3
  <2> QED
    BY <1>1, <1>5, <1>9, <2>1, <2>2, <2>4, ApprovalGoesOn
<1> QED
  BY <1>7, <1>8, <1>9


LEMMA SumOfZeros ==
  ASSUME NEW S, IsFiniteSet(S), NEW m, \A x \in S : m[x] = 0
  PROVE  Sum(m, S) = 0
<1> DEFINE h == [s \in SUBSET S |-> 0]
<1>1. Sums(h, m, S)
  <2>1. h = [s \in SUBSET S |-> h[s]] /\ h[{}] = 0
    OBVIOUS
  <2>2. ASSUME NEW s \in SUBSET S, s # {} PROVE h[s] = m[Elt(s)] + h[s \ {Elt(s)}]
    <3>1. Elt(s) \in S
      BY <2>2, EltOf
    <3>2. m[Elt(s)] = 0 /\ h[s] = 0 /\ h[s \ {Elt(s)}] = 0
      BY <3>1
    <3> QED
      BY <3>2
  <2> QED
    BY <2>1, <2>2 DEF Sums
<1> HIDE DEF h
<1>2. Sum(m, S) = h[S]
  BY <1>1, SumIs
<1> QED
  BY <1>2 DEF h

LEMMA DocStart == AiInit => DocInv
<1> SUFFICES ASSUME AiInit PROVE DocInv
  OBVIOUS
<1>1. LibInv
  BY LibStart
<1>2. IsFiniteSet(Requests) /\ IsFiniteSet(Candidates)
  BY <1>1, DocTypes
<1>3. \A r \in Requests : req[r].op = "idle" /\ req[r].op \notin Approvals
  BY DEF AiInit, NoReq, Approvals
<1>4. (\A c \in Candidates : docBank[c] = 0) /\ doc.approved = 0
  BY DEF AiInit, ReviewRowsInit, NoDoc
<1>5. \A r \in Requests : Owed[r] = 0
  BY <1>3 DEF Owed, Owes
<1>6. Sum(docBank, Candidates) = 0
  BY <1>2, <1>4, SumOfZeros
<1>7. Sum(Owed, Requests) = 0
  BY <1>2, <1>5, SumOfZeros
<1>8. CountHolds
  BY <1>4, <1>6, <1>7 DEF CountHolds
<1> QED
  BY <1>3, <1>4, <1>8 DEF DocInv, Untouched

LEMMA DocSteps == LibInv /\ LibInv' /\ DocInv /\ [LibNext]_vars => DocInv'
<1> SUFFICES ASSUME LibInv, LibInv', DocInv, [LibNext]_vars PROVE DocInv'
  OBVIOUS
<1>1. ASSUME [GenNext]_genVars, UNCHANGED reviewRows PROVE DocInv'
  BY <1>1, GenerationApart
<1>2. ASSUME NEW r \in Requests, ReviewRequest(r) PROVE DocInv'
  BY <1>2, RequestsKeepCount
<1>3. ASSUME NEW r \in Requests, ReviewStep(r) PROVE DocInv'
  <2>1. ASSUME VersionWrite(r) \/ SaveCreate(r) \/ SaveMark(r) \/ SaveDone(r) PROVE DocInv'
    BY <2>1, TransferApart
  <2>2. ASSUME CandidateCreate(r) PROVE DocInv'
    BY <2>2, CandidateCounted
  <2>3. ASSUME CandidateMark(r) \/ ApproveDone(r) PROVE DocInv'
    BY <2>3, MarkCounted
  <2> QED
    BY <1>3, <2>1, <2>2, <2>3 DEF ReviewStep
<1>4. ASSUME NEW r \in Requests, LibRequest(r) \/ LibStep(r) PROVE DocInv'
  BY <1>4, LibraryApart
<1>5. ASSUME UNCHANGED <<req, doc, docBank, crashes>> PROVE DocInv'
  BY <1>5, CountKept
<1>6. ASSUME NEW q \in 1..Len(Pool), BankChanges(q) PROVE DocInv'
  BY <1>5, <1>6 DEF BankChanges, GenRows, reviewRows
<1>7. ASSUME UNCHANGED vars PROVE DocInv'
  <2>1. UNCHANGED <<genVars, reviewRows>>
    BY <1>7 DEF vars, reviewVars
  <2> QED
    BY <1>1, <2>1
<1>8. ASSUME ReviewNext PROVE DocInv'
  BY <1>1, <1>2, <1>3, <1>8 DEF ReviewNext
<1> QED
  BY <1>4, <1>6, <1>7, <1>8 DEF LibNext

\* When nothing is under way and the process has not died, the approved count of
\* a document is the number of questions its approvals have made, although each
\* candidate takes two statements and two approvals may overlap
\* (approveDocumentJob).
THEOREM ApprovedCounted == AiSpec => []ApprovedCountExact
<1>1. LibInv /\ DocInv => ApprovedCountExact
  <2> SUFFICES ASSUME LibInv, DocInv, AtRest, crashes = 0, doc.status # "GONE"
               PROVE  doc.approved = MapThenSumSet(LAMBDA c : docBank[c], Candidates)
    BY DEF ApprovedCountExact
  <2>1. IsFiniteSet(Requests) /\ doc.approved \in Nat
    BY DocTypes
  <2>2. \A r \in Requests : Owed[r] = 0
    BY DEF AtRest, Owed, Owes
  <2>3. Sum(Owed, Requests) = 0
    BY <2>1, <2>2, SumOfZeros
  <2>4. Sum(docBank, Candidates) = doc.approved
    BY <2>1, <2>3 DEF DocInv, CountHolds
  <2>5. Sum(docBank, Candidates) = MapThenSumSet(LAMBDA c : docBank[c], Candidates)
    BY DEF Sum
  <2> QED
    BY <2>4, <2>5
<1>2. AiSpec => []DocInv
  BY DocStart, DocSteps, LibAlways, PTL DEF AiSpec
<1> QED
  BY <1>1, <1>2, LibAlways, PTL


=============================================================================
