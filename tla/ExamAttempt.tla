---------------------------- MODULE ExamAttempt ----------------------------
(***************************************************************************)
(* One exam attempt, from the moment the student may answer it until it is *)
(* submitted and graded, with every writer of its database rows: the       *)
(* student's requests (save, submit, open the page, poll the timer), the   *)
(* worker's expiry job and sweep, the worker's result-calculation job and  *)
(* the proctoring service.                                                 *)
(*                                                                         *)
(* The transactions run at READ COMMITTED.  Each one that reads the        *)
(* attempt and writes later is two steps here, the read and the commit,    *)
(* with the values read kept in the client's slot req[c].  Every such      *)
(* transaction updates the attempt row before it commits, and so holds the *)
(* row lock from that update on: nothing of another writer commits between *)
(* that update and its own commit, which makes the second step atomic.     *)
(* autoSubmitAttempt takes the lock with its first statement and is one    *)
(* step.                                                                   *)
(*                                                                         *)
(* Data: an answer is a value or Blank; the score is a function of the     *)
(* answers that were read, so a result is the set of answers it graded.    *)
(* Time is whether expiresAt has been reached.                             *)
(***************************************************************************)
EXTENDS Naturals, FiniteSets

CONSTANTS
    Questions,        \* the attempt's question snapshots
    ManualQuestions,  \* those of type SHORT_ANSWER or DESCRIPTIVE
    Values,           \* the answers a student may give
    Blank,            \* no answer: no row, or a row that was cleared
    Clients,          \* database clients: API requests and worker jobs
    MaxVersion,       \* bound: saves per question
    Proctored,        \* may the proctoring policy end the attempt?
    NoReceipt, NoResult

Entries == Values \cup {Blank}

VARIABLES
    expired,    \* expiresAt <= now
    status,     \* TestAttempt.status
    claimed,    \* TestAttempt.autoSubmitClaimedAt is set
    receipt,    \* the SubmissionReceipt row
    answers,    \* the StudentAnswer rows; version 0 is "no row"
    revisions,  \* the AnswerRevision rows
    result,     \* the Result row: the answers it was computed from
    resultJob,  \* the BullMQ job result-calculation-<attemptId>
    req         \* what each client's open transaction has read

vars == <<expired, status, claimed, receipt, answers, revisions, result,
          resultJob, req>>

Statuses == {"IN_PROGRESS", "SUBMITTED", "AUTO_SUBMITTED", "EXPIRED",
             "UNDER_REVIEW", "EVALUATED"}

Receipts == [by: {"student", "auto", "proctor"},
             status: {"SUBMITTED", "AUTO_SUBMITTED"},
             answerCount: Nat]

Sheets == [Questions -> Entries]   \* what an evaluation reads

ASSUME AttemptAssumption ==
    /\ ManualQuestions \subseteq Questions
    /\ IsFiniteSet(Questions)
    /\ Blank \notin Values
    /\ MaxVersion \in Nat \ {0}
    /\ Proctored \in BOOLEAN
    /\ NoReceipt \notin Receipts
    /\ NoResult \notin Sheets

Idle == [op |-> "idle"]
Expiring == [op |-> "expire"]
Saving == [op: {"save"}, question: Questions, value: Entries,
           expected: 0..MaxVersion, seen: 0..MaxVersion]
Submitting == [op: {"submit"}, status: {"SUBMITTED", "AUTO_SUBMITTED"},
               answerCount: Nat]
Ending == [op: {"proctor"}, answerCount: Nat]
Calculating == [op: {"calculate"}, graded: Sheets]

(***************************************************************************)
(* The one type invariant: the rows and the open transactions.             *)
(***************************************************************************)
TypeOK ==
    /\ expired \in BOOLEAN
    /\ status \in Statuses
    /\ claimed \in BOOLEAN
    /\ receipt \in Receipts \cup {NoReceipt}
    /\ answers \in [Questions -> [version: 0..MaxVersion, value: Entries]]
    /\ revisions \subseteq [question: Questions, version: 1..MaxVersion,
                            value: Entries]
    /\ result \in Sheets \cup {NoResult}
    /\ resultJob \in {"absent", "waiting", "active", "done"}
    /\ req \in [Clients -> {Idle, Expiring} \cup Saving \cup Submitting
                            \cup Ending \cup Calculating]

Init ==
    /\ expired = FALSE
    /\ status = "IN_PROGRESS"
    /\ claimed = FALSE
    /\ receipt = NoReceipt
    /\ answers = [q \in Questions |-> [version |-> 0, value |-> Blank]]
    /\ revisions = {}
    /\ result = NoResult
    /\ resultJob = "absent"
    /\ req = [c \in Clients |-> Idle]

Sheet == [q \in Questions |-> answers[q].value]

AnswerCount == Cardinality({q \in Questions : answers[q].value # Blank})

\* The status an evaluation leaves: manual questions wait for a reviewer.
EvaluatedStatus ==
    IF ManualQuestions = {} THEN "EVALUATED" ELSE "UNDER_REVIEW"

TimePasses ==
    /\ ~expired
    /\ expired' = TRUE
    /\ UNCHANGED <<status, claimed, receipt, answers, revisions, result,
                   resultJob, req>>

-----------------------------------------------------------------------------
(* saveAnswer.  The EXPIRED update of findAttemptForWrite is undone by the *)
(* exception that follows it, so a refused save changes nothing.           *)

\* Mutant: the status check of findAttemptForWrite is forgotten.
MutFindAttemptForWrite == ~expired

FindAttemptForWrite == status = "IN_PROGRESS" /\ ~expired

SaveRead(c, q, v, e) ==
    /\ req[c] = Idle
    /\ FindAttemptForWrite
    /\ e = 0 \/ answers[q].version = 0 \/ answers[q].version = e
    /\ answers[q].version < MaxVersion
    /\ req' = [req EXCEPT ![c] = [op |-> "save", question |-> q, value |-> v,
                                  expected |-> e,
                                  seen |-> answers[q].version]]
    /\ UNCHANGED <<expired, status, claimed, receipt, answers, revisions,
                   result, resultJob>>

\* The insert of a row that another save has inserted meanwhile violates
\* the unique index on attemptQuestionId.
InsertConflict(s) == s.seen = 0 /\ answers[s.question].version # 0

\* Mutant: the version read is incremented, not the row's.
MutNextVersion(s) == s.seen + 1

NextVersion(s) == answers[s.question].version + 1

SaveCommit(c) ==
    LET s == req[c] IN
    /\ s.op = "save"
    /\ ~InsertConflict(s)
    /\ answers[s.question].version < MaxVersion
    /\ answers' = [answers EXCEPT ![s.question] =
                     [version |-> NextVersion(s), value |-> s.value]]
    /\ revisions' = revisions \cup
         {[question |-> s.question, version |-> NextVersion(s),
           value |-> s.value]}
    /\ req' = [req EXCEPT ![c] = Idle]
    /\ UNCHANGED <<expired, status, claimed, receipt, result, resultJob>>

-----------------------------------------------------------------------------
(* submitAttempt: no guard on the status; evaluateAttempt reads the        *)
(* answers again inside the second step.                                   *)

SubmitRead(c) ==
    /\ req[c] = Idle
    /\ receipt = NoReceipt
    /\ req' = [req EXCEPT ![c] =
                 [op |-> "submit",
                  status |-> IF expired THEN "AUTO_SUBMITTED"
                                        ELSE "SUBMITTED",
                  answerCount |-> AnswerCount]]
    /\ UNCHANGED <<expired, status, claimed, receipt, answers, revisions,
                   result, resultJob>>

\* Mutant: SubmissionReceipt.attemptId is not unique.
MutReceiptInsertSucceeds == TRUE

\* The unique index on SubmissionReceipt.attemptId.
ReceiptInsertSucceeds == receipt = NoReceipt

\* Mutant: the call of evaluateAttempt is missing.
MutSubmitCommit(c) ==
    /\ req[c].op = "submit"
    /\ ReceiptInsertSucceeds
    /\ receipt' = [by |-> "student", status |-> req[c].status,
                   answerCount |-> req[c].answerCount]
    /\ status' = EvaluatedStatus
    /\ req' = [req EXCEPT ![c] = Idle]
    /\ UNCHANGED <<expired, claimed, answers, revisions, result, resultJob>>

SubmitCommit(c) ==
    LET s == req[c] IN
    /\ s.op = "submit"
    /\ ReceiptInsertSucceeds
    /\ receipt' = [by |-> "student", status |-> s.status,
                   answerCount |-> s.answerCount]
    /\ result' = Sheet
    /\ status' = EvaluatedStatus
    /\ req' = [req EXCEPT ![c] = Idle]
    /\ UNCHANGED <<expired, claimed, answers, revisions, resultJob>>

-----------------------------------------------------------------------------
(* autoSubmitAttempt: the API's copy, called by the timer poll and the     *)
(* operators' sweep, and the worker's, called by the expiry job and the    *)
(* 30-second sweep.                                                        *)

MutClaimableExpired == status = "EXPIRED" /\ expired /\ ~claimed

Claimable == status = "IN_PROGRESS" /\ expired /\ ~claimed

\* Mutant: the claimed attempt keeps its status.
MutAutoSubmit ==
    /\ Claimable
    /\ claimed' = TRUE
    /\ receipt' = [by |-> "auto", status |-> "AUTO_SUBMITTED",
                   answerCount |-> AnswerCount]
    /\ result' = Sheet
    /\ UNCHANGED <<expired, status, answers, revisions, req>>

AutoSubmit ==
    /\ Claimable
    /\ claimed' = TRUE
    /\ receipt' = IF receipt = NoReceipt
                    THEN [by |-> "auto", status |-> "AUTO_SUBMITTED",
                          answerCount |-> AnswerCount]
                    ELSE receipt
    /\ result' = Sheet
    /\ status' = EvaluatedStatus
    /\ UNCHANGED <<expired, answers, revisions, req>>

\* addJob: a job with this jobId is not added twice.
AddResultJob ==
    resultJob' = IF resultJob = "absent" THEN "waiting" ELSE resultJob

WorkerAutoSubmit == AutoSubmit /\ UNCHANGED resultJob

ApiAutoSubmit == AutoSubmit /\ AddResultJob

\* The job is in Redis before the transaction commits; when the record of
\* the job, or the commit, fails, the job stays.
ApiAutoSubmitRollback ==
    /\ Claimable
    /\ AddResultJob
    /\ UNCHANGED <<expired, status, claimed, receipt, answers, revisions,
                   result, req>>

-----------------------------------------------------------------------------
(* expireIfNeeded, run when the student opens the attempt and by the timer *)
(* poll: a read, and an update by id in a statement of its own.            *)

ExpireRead(c) ==
    /\ req[c] = Idle
    /\ status = "IN_PROGRESS" /\ expired
    /\ req' = [req EXCEPT ![c] = Expiring]
    /\ UNCHANGED <<expired, status, claimed, receipt, answers, revisions,
                   result, resultJob>>

ExpireUpdate(c) ==
    /\ req[c] = Expiring
    /\ status' = "EXPIRED"
    /\ req' = [req EXCEPT ![c] = Idle]
    /\ UNCHANGED <<expired, claimed, receipt, answers, revisions, result,
                   resultJob>>

-----------------------------------------------------------------------------
(* The worker's result-calculation job: calculateResult, on any status.    *)

CalculateRead(c) ==
    /\ req[c] = Idle
    /\ resultJob = "waiting"
    /\ resultJob' = "active"
    /\ req' = [req EXCEPT ![c] = [op |-> "calculate", graded |-> Sheet]]
    /\ UNCHANGED <<expired, status, claimed, receipt, answers, revisions,
                   result>>

CalculateCommit(c) ==
    /\ req[c].op = "calculate"
    /\ result' = req[c].graded
    /\ status' = EvaluatedStatus
    /\ resultJob' = "done"
    /\ req' = [req EXCEPT ![c] = Idle]
    /\ UNCHANGED <<expired, claimed, receipt, answers, revisions>>

-----------------------------------------------------------------------------
(* autoSubmitAttemptForProctoring: a receipt, and no evaluation.           *)

TerminalAttemptStatuses == {"SUBMITTED", "AUTO_SUBMITTED", "EVALUATED"}

ProctorRead(c) ==
    /\ Proctored
    /\ req[c] = Idle
    /\ status \notin TerminalAttemptStatuses
    /\ receipt = NoReceipt
    /\ req' = [req EXCEPT ![c] = [op |-> "proctor",
                                  answerCount |-> AnswerCount]]
    /\ UNCHANGED <<expired, status, claimed, receipt, answers, revisions,
                   result, resultJob>>

ProctorCommit(c) ==
    LET s == req[c] IN
    /\ s.op = "proctor"
    /\ ReceiptInsertSucceeds
    /\ receipt' = [by |-> "proctor", status |-> "AUTO_SUBMITTED",
                   answerCount |-> s.answerCount]
    /\ status' = "AUTO_SUBMITTED"
    /\ req' = [req EXCEPT ![c] = Idle]
    /\ UNCHANGED <<expired, claimed, answers, revisions, result, resultJob>>

-----------------------------------------------------------------------------
(* Any open transaction may be rolled back: it lost the race for a unique  *)
(* index, timed out, or its process died.  A failed job is retried.        *)

Rollback(c) ==
    /\ req[c] # Idle
    /\ req' = [req EXCEPT ![c] = Idle]
    /\ resultJob' = IF req[c].op = "calculate" THEN "waiting" ELSE resultJob
    /\ UNCHANGED <<expired, status, claimed, receipt, answers, revisions,
                   result>>

ClientStep(c) ==
    \/ \E q \in Questions, v \in Entries, e \in 0..MaxVersion :
          SaveRead(c, q, v, e)
    \/ SaveCommit(c)
    \/ SubmitRead(c)
    \/ SubmitCommit(c)
    \/ ExpireRead(c)
    \/ ExpireUpdate(c)
    \/ CalculateRead(c)
    \/ CalculateCommit(c)
    \/ ProctorRead(c)
    \/ ProctorCommit(c)
    \/ Rollback(c)

Next ==
    \/ TimePasses
    \/ WorkerAutoSubmit
    \/ ApiAutoSubmit
    \/ ApiAutoSubmitRollback
    \/ \E c \in Clients : ClientStep(c)

Spec == Init /\ [][Next]_vars

(* Time passes, and the worker sweeps every 30 seconds whatever happened   *)
(* to the delayed job.  Nothing is assumed of the student.                 *)
FairSpec == Spec /\ WF_vars(TimePasses) /\ WF_vars(WorkerAutoSubmit)

-----------------------------------------------------------------------------
(* Properties.                                                             *)

\* Two submits, a submit and the sweep, a submit and a proctor may race:
\* one receipt is issued and it is never replaced (docs/DATABASE.md,
\* "idempotent final submission receipts").
ReceiptIsFinal == [][receipt # NoReceipt => receipt' = receipt]_vars

\* An attempt that still accepts answers has no trace of a submission: no
\* claim, no receipt, no result.  Were it otherwise, the sweep would grade
\* an attempt twice or never.
OpenIsUntouched ==
    status = "IN_PROGRESS" =>
        receipt = NoReceipt /\ result = NoResult /\ ~claimed

\* The atomic claim of autoSubmitAttempt: a claimed attempt has the receipt
\* of the claimer and a result, never a receipt of somebody else.
ClaimIsComplete ==
    claimed => /\ receipt # NoReceipt /\ receipt.by = "auto"
               /\ result # NoResult

\* Whoever submitted, the student or the clock, the answers were graded.
\* Proctoring is the exception: it writes a receipt and evaluates nothing.
SubmittedIsGraded ==
    receipt # NoReceipt /\ receipt.by # "proctor" => result # NoResult

RevisionsOf(q) == {r \in revisions : r.question = q}

\* The answer history that saveAnswer keeps is complete and ordered in
\* spite of concurrent saves: versions 1..n once each, the last of them the
\* current answer.
HistoryIsComplete ==
    \A q \in Questions :
        /\ {r.version : r \in RevisionsOf(q)} = 1..answers[q].version
        /\ \A r1, r2 \in RevisionsOf(q) :
              r1.version = r2.version => r1 = r2
        /\ \A r \in RevisionsOf(q) :
              r.version = answers[q].version => r.value = answers[q].value

\* The rows of one attempt agree with each other whatever requests, sweeps and
\* jobs interleave: nothing of a submission exists before one, a claim is
\* complete and belongs to its claimer, and the history explains every answer.
AttemptConsistent ==
    /\ TypeOK
    /\ OpenIsUntouched
    /\ ClaimIsComplete
    /\ HistoryIsComplete

\* No answer write or expiry update that began while the attempt was open
\* is still under way.
Drained ==
    /\ status # "IN_PROGRESS"
    /\ \A c \in Clients : req[c].op \notin {"save", "expire"}

\* Late writers are only those that read the attempt while it was open: once
\* they are done, the answers are frozen for good, and a graded attempt is
\* never turned into an expired one.
LateWritersDrain ==
    [][Drained => /\ Drained'
                  /\ answers' = answers
                  /\ status' = "EXPIRED" => status = "EXPIRED"]_vars

\* The sweep closes every attempt whose time is over, though the delayed job
\* may be lost and the student may never come back.
SweepCloses == expired ~> status # "IN_PROGRESS"

Contract == INSTANCE AttemptContract WITH
    Writers <- Clients,
    open    <- (status = "IN_PROGRESS"),
    writers <- {c \in Clients : req[c].op = "save"},
    content <- Sheet,
    graded  <- result

\* The attempt keeps the contract: an open attempt is closed once and for
\* all, admits answer writes only while open, issues one receipt and is
\* graded from the close on.
ImplementsContract == Contract!Spec

=============================================================================
