------------------------------ MODULE AiReview ------------------------------
(***************************************************************************)
(* What becomes of generated and imported questions (AiWorkflowsService):    *)
(* review, edit and transfer of a job's questions to the question bank, and  *)
(* the import of a document.  Both transfers go question by question, each   *)
(* one created first and the source row marked in a later statement.  The    *)
(* texts and what classifies them are left out, and so are the counters of a *)
(* job, which only the lists show.                                           *)
(***************************************************************************)
EXTENDS AiGeneration, FiniteSetsExt

CONSTANTS OcrConfigured,   \* OCR_PROVIDER is tesseract
          Kinds,           \* kinds of file: "text" and "scan"
          MaxCandidates    \* bound: questions found in a document

Candidates == 1..MaxCandidates

ASSUME ReviewAssumption == MaxCandidates \in Nat /\ IsFiniteSet(Requests)

VARIABLES bank,       \* questions made of each generated question
          versions,   \* version numbers of a generated question's edits
          doc,        \* the documentImportJob row with its candidates
          docBank,    \* questions made of each candidate
          everApproved \* history: the generated questions a human approved

reviewRows == <<bank, versions, doc, docBank, everApproved>>
reviewVars == <<genVars, reviewRows>>

NoDoc == [status |-> "NONE", college |-> None, approved |-> 0,
          cand |-> [c \in Candidates |-> "NONE"]]

ReviewTypeOK ==
    /\ bank \in [Results -> Nat]
    /\ versions \in [Results -> SUBSET Nat]
    /\ doc \in [status : {"NONE", "OCR_REQUIRED", "EXTRACTED", "COMPLETED", "GONE"},
                college : Colleges \cup {None}, approved : Nat,
                cand : [Candidates -> {"NONE", "PENDING", "SAVED"}]]
    /\ docBank \in [Candidates -> Nat]
    /\ everApproved \subseteq Results

ReviewRowsInit ==
    /\ bank = [g \in Results |-> 0]
    /\ versions = [g \in Results |-> {}]
    /\ doc = NoDoc
    /\ docBank = [c \in Candidates |-> 0]
    /\ everApproved = {}

Work(r, op, todo, id) ==
    req' = [req EXCEPT ![r] = [NoReq EXCEPT !.op = op, !.made = todo, !.job = id]]
Done(r) == req' = [req EXCEPT ![r] = NoReq]
JobRows == <<jobs, usage, batch, run, breaker, stopped, crashes>>

-----------------------------------------------------------------------------
(* Review and edit. *)

\* reviewResults: updateMany over the named questions of the job, whatever
\* their status, also those that are already saved
ReviewResults(r, u, j, S, decision) ==
    /\ JobRequest(r, u, j, IF decision = "APPROVED" THEN "approveResults" ELSE "rejectResults")
    /\ S # {} /\ S \subseteq ResultsOf(j)
    /\ results' = [g \in Results |-> IF g \in S
           THEN [results[g] EXCEPT !.status = decision] ELSE results[g]]
    /\ everApproved' = IF decision = "APPROVED" THEN everApproved \cup S ELSE everApproved
    /\ UNCHANGED <<JobRows, req, bank, versions, doc, docBank>>

\* updateGeneratedQuestion writes the question, counts its versions ...
UpdateGeneratedQuestion(r, u, g) ==
    /\ results[g].job # 0
    /\ JobRequest(r, u, results[g].job, "updateGeneratedQuestion")
    /\ req' = [req EXCEPT ![r] = [NoReq EXCEPT !.op = "version", !.job = g,
           !.left = Cardinality(versions[g])]]
    /\ UNCHANGED <<JobRows, results, reviewRows>>

\* ... and creates the next: (resultId, versionNumber) is unique, so of two
\* edits that counted the same the second ends in an error, its text written
VersionWrite(r) ==
    LET q == req[r] IN
    /\ q.op = "version" /\ Done(r)
    /\ versions' = [versions EXCEPT ![q.job] = @ \cup {q.left + 1}]
    /\ UNCHANGED <<JobRows, results, requests, bank, doc, docBank, everApproved>>

-----------------------------------------------------------------------------
(* saveApprovedToQuestionBank. *)

ApprovedOf(j) == {g \in ResultsOf(j) : results[g].status = "APPROVED"}

SaveApproved(r, u, j) ==
    /\ JobRequest(r, u, j, "saveApprovedToQuestionBank")
    /\ Work(r, "save", ApprovedOf(j), j)
    /\ UNCHANGED <<JobRows, results, reviewRows>>

\* Mutant: the generated question is marked before the bank has it.
MutSaveCreate(r) ==
    /\ req[r].op = "save" /\ \E g \in req[r].made :
         /\ results' = [results EXCEPT ![g].status = "SAVED"]
         /\ req' = [req EXCEPT ![r] = [@ EXCEPT !.op = "mark", !.left = g]]
    /\ UNCHANGED <<JobRows, requests, reviewRows>>

\* question.create, as a DRAFT
SaveCreate(r) ==
    /\ req[r].op = "save" /\ \E g \in req[r].made :
         /\ bank' = [bank EXCEPT ![g] = @ + 1]
         /\ req' = [req EXCEPT ![r] = [@ EXCEPT !.op = "mark", !.left = g]]
    /\ UNCHANGED <<JobRows, results, requests, versions, doc, docBank, everApproved>>

\* the generated question becomes SAVED, whatever its status is by now
SaveMark(r) ==
    LET g == req[r].left IN
    /\ req[r].op = "mark"
    /\ results' = [results EXCEPT ![g].status = "SAVED"]
    /\ req' = [req EXCEPT ![r] = [@ EXCEPT !.op = "save", !.made = req[r].made \ {g}]]
    /\ UNCHANGED <<JobRows, requests, reviewRows>>

SaveDone(r) ==
    /\ req[r].op = "save" /\ req[r].made = {} /\ Done(r)
    /\ UNCHANGED <<JobRows, results, requests, reviewRows>>

-----------------------------------------------------------------------------
(* Documents. *)

\* extractText: a text has at least one candidate (a placeholder when no line
\* looks like a question); a scan goes to OCR, which may be missing or fail
Extracted(kind) ==
    IF kind = "text" THEN {[ocr |-> FALSE, n |-> n] : n \in Candidates}
    ELSE {[ocr |-> TRUE, n |-> 0]} \cup
         (IF OcrConfigured THEN {[ocr |-> FALSE, n |-> n] : n \in 0..MaxCandidates} ELSE {})

DocRequest(r, u, route) ==
    /\ RoleOf[u] \in AiRoutes[route] /\ Begin(r)
    /\ doc.status \notin {"NONE", "GONE"} /\ InTenant(u, doc.college)

ImportDocument(r, u, college, kind) ==
    /\ RoleOf[u] \in AiRoutes["importDocument"] /\ Begin(r)
    /\ doc.status = "NONE" /\ Scoped(u, college)
    /\ \E e \in Extracted(kind) :
         doc' = [status |-> IF e.ocr THEN "OCR_REQUIRED" ELSE "EXTRACTED",
                 college |-> college, approved |-> 0,
                 cand |-> [c \in Candidates |-> IF c <= e.n THEN "PENDING" ELSE "NONE"]]
    /\ UNCHANGED <<JobRows, results, req, bank, versions, docBank, everApproved>>

ProcessDocumentJob(r, u) ==
    /\ DocRequest(r, u, "processDocumentJob")
    /\ doc.status = "OCR_REQUIRED" => OcrConfigured
    /\ doc' = [doc EXCEPT !.status = "COMPLETED"]
    /\ UNCHANGED <<JobRows, results, req, bank, versions, docBank, everApproved>>

DeleteDocumentJob(r, u) ==
    /\ DocRequest(r, u, "deleteDocumentJob")
    /\ doc' = [doc EXCEPT !.status = "GONE"]
    /\ UNCHANGED <<JobRows, results, req, bank, versions, docBank, everApproved>>

\* approveDocumentJob reads the job with its candidates
ApproveDocumentJob(r, u) ==
    /\ DocRequest(r, u, "approveDocumentJob")
    /\ Work(r, "approve", {c \in Candidates : doc.cand[c] = "PENDING"}, 0)
    /\ UNCHANGED <<JobRows, results, reviewRows>>

CandidateCreate(r) ==
    /\ req[r].op = "approve" /\ \E c \in req[r].made :
         /\ docBank' = [docBank EXCEPT ![c] = @ + 1]
         /\ req' = [req EXCEPT ![r] = [@ EXCEPT !.op = "candidate", !.job = c]]
    /\ UNCHANGED <<JobRows, results, requests, bank, versions, doc, everApproved>>

\* the update fails when the job, and with it the candidate, was deleted
CandidateMark(r) ==
    LET c == req[r].job IN
    /\ req[r].op = "candidate"
    /\ IF doc.status = "GONE" THEN Done(r) /\ UNCHANGED doc
       ELSE /\ doc' = [doc EXCEPT !.cand[c] = "SAVED"]
            /\ req' = [req EXCEPT ![r] =
                   [@ EXCEPT !.op = "approve", !.made = req[r].made \ {c},
                             !.left = req[r].left + 1]]
    /\ UNCHANGED <<JobRows, results, requests, bank, versions, docBank, everApproved>>

\* Mutant: approvedCount is set and not incremented.
MutApproveDone(r) ==
    /\ req[r].op = "approve" /\ req[r].made = {} /\ Done(r)
    /\ doc' = IF doc.status = "GONE" THEN doc
              ELSE [doc EXCEPT !.status = "COMPLETED", !.approved = req[r].left]
    /\ UNCHANGED <<JobRows, results, requests, bank, versions, docBank, everApproved>>

ApproveDone(r) ==
    /\ req[r].op = "approve" /\ req[r].made = {} /\ Done(r)
    /\ doc' = IF doc.status = "GONE" THEN doc
              ELSE [doc EXCEPT !.status = "COMPLETED", !.approved = @ + req[r].left]
    /\ UNCHANGED <<JobRows, results, requests, bank, versions, docBank, everApproved>>

-----------------------------------------------------------------------------

ReviewStep(r) ==
    \/ VersionWrite(r) \/ SaveCreate(r) \/ SaveMark(r) \/ SaveDone(r)
    \/ CandidateCreate(r) \/ CandidateMark(r) \/ ApproveDone(r)

ReviewRequest(r) == requests < MaxRequests /\ \E u \in Users :
    \/ \E j \in Jobs : \/ SaveApproved(r, u, j)
                       \/ \E S \in SUBSET Results, d \in {"APPROVED", "REJECTED"} :
                             ReviewResults(r, u, j, S, d)
    \/ \E g \in Results : UpdateGeneratedQuestion(r, u, g)
    \/ \E c \in Colleges, k \in Kinds : ImportDocument(r, u, c, k)
    \/ ProcessDocumentJob(r, u) \/ ApproveDocumentJob(r, u) \/ DeleteDocumentJob(r, u)

ReviewNext ==
    \/ GenNext /\ UNCHANGED reviewRows
    \/ \E r \in Requests : ReviewRequest(r) \/ ReviewStep(r)

-----------------------------------------------------------------------------
(* Properties. *)

\* No generated question is in the bank that no human has approved, whatever
\* reviews, regenerations and transfers overlap (saveApprovedToQuestionBank;
\* docs/AI_SECURITY.md asks for human review before the bank).
ApprovedFirst == \A g \in Results : bank[g] > 0 => g \in everApproved

\* A generated question marked as saved is in the bank, also when the process
\* dies during the transfer: the failure leaves a question to save again, never
\* one that is lost (saveApprovedToQuestionBank).
SavedHasQuestion == \A g \in Results : results[g].status = "SAVED" => bank[g] > 0

AtRest == \A r \in Requests : req[r].op = "idle"

\* When nothing is under way and the process has not died, the approved count of
\* a document is the number of questions its approvals have made, also when two
\* approvals ran at once (approveDocumentJob).
ApprovedCountExact ==
    AtRest /\ crashes = 0 /\ doc.status # "GONE" =>
        doc.approved = MapThenSumSet(LAMBDA c : docBank[c], Candidates)

\* What reaches the question bank was approved and what is marked as saved is
\* there, although a transfer is two statements for each question that overlap
\* with reviews, other transfers and a restart.
ReviewAccounted ==
    /\ ApprovedFirst
    /\ SavedHasQuestion
=============================================================================
