--------------------------- MODULE Attempts_proofs ---------------------------
(***************************************************************************)
(* Proofs about a student's attempts: ExamAttempt (one attempt, for any     *)
(* number of clients, questions, values and saves), AttemptStart (starting  *)
(* them, for any number of devices and any limit), JobQueue (the background *)
(* jobs, for any jobs, calls, attempts and faults), Coding (the coding       *)
(* submissions, for any users, programs, test cases, requests and crashes)  *)
(* and Configuration (the judges of the environment, for any environment).  *)
(***************************************************************************)
EXTENDS ExamAttempt, AttemptStart, JobQueue, Coding, SetFacts

-----------------------------------------------------------------------------
(* ExamAttempt. *)

Slots == {Idle, Expiring} \cup Saving \cup Submitting \cup Ending
         \cup Calculating

LEMMA AnswerCountType == AnswerCount \in Nat
<1>1. IsFiniteSet({q \in Questions : answers[q].value # Blank})
  BY AttemptAssumption, FS_Subset
<1> QED
  BY <1>1, FS_CardinalityType DEF AnswerCount

LEMMA SheetType == TypeOK => Sheet \in Sheets /\ Sheet # NoResult
  BY AttemptAssumption DEF TypeOK, Sheet, Sheets

\* Writing a slot keeps the slots well typed.
LEMMA SlotUpdate ==
  ASSUME req \in [Clients -> Slots], NEW c \in Clients, NEW s \in Slots
  PROVE  [req EXCEPT ![c] = s] \in [Clients -> Slots]
  OBVIOUS

LEMMA TypeInit == Init => TypeOK
<1> SUFFICES ASSUME Init PROVE TypeOK
  OBVIOUS
<1>1. answers \in [Questions -> [version: 0..MaxVersion, value: Entries]]
  BY AttemptAssumption DEF Init, Entries
<1>2. req \in [Clients -> {Idle, Expiring} \cup Saving \cup Submitting
                           \cup Ending \cup Calculating]
  BY DEF Init
<1> QED
  BY <1>1, <1>2 DEF Init, TypeOK, Statuses

LEMMA TypeStep == TypeOK /\ [Next]_vars => TypeOK'
<1> SUFFICES ASSUME TypeOK, [Next]_vars PROVE TypeOK'
  OBVIOUS
<1>t. req \in [Clients -> Slots] /\ Idle \in Slots /\ Expiring \in Slots
  BY DEF TypeOK, Slots
<1>e. EvaluatedStatus \in Statuses
  BY DEF EvaluatedStatus, Statuses
<1>s. Sheet \in Sheets
  BY SheetType
<1>a. AnswerCount \in Nat
  BY AnswerCountType
<1>1. CASE TimePasses
  BY <1>1 DEF TypeOK, TimePasses
<1>2. CASE AutoSubmit /\ (UNCHANGED resultJob \/ AddResultJob)
  <2>1. receipt' \in Receipts \cup {NoReceipt}
    BY <1>2, <1>a DEF AutoSubmit, TypeOK, Receipts
  <2> QED
    BY <1>2, <2>1, <1>s, <1>e DEF AutoSubmit, AddResultJob, TypeOK
<1>3. CASE ApiAutoSubmitRollback
  BY <1>3 DEF ApiAutoSubmitRollback, AddResultJob, TypeOK
<1>4. ASSUME NEW c \in Clients, NEW q \in Questions, NEW v \in Entries,
             NEW e \in 0..MaxVersion, SaveRead(c, q, v, e)
      PROVE  TypeOK'
  <2>1. [op |-> "save", question |-> q, value |-> v, expected |-> e,
         seen |-> answers[q].version] \in Slots
    BY <1>4 DEF TypeOK, Slots, Saving
  <2>2. req' \in [Clients -> Slots]
    BY <2>1, <1>t, <1>4 DEF SaveRead
  <2> QED
    BY <2>2, <1>4 DEF SaveRead, TypeOK, Slots
<1>5. ASSUME NEW c \in Clients, SaveCommit(c) PROVE TypeOK'
  <2>1. req[c] \in Saving
    BY <1>5, <1>t DEF SaveCommit, Slots, Idle, Expiring, Submitting, Ending,
       Calculating
  <2>2. NextVersion(req[c]) \in 1..MaxVersion
    BY <2>1, <1>5, AttemptAssumption
       DEF SaveCommit, NextVersion, Saving, TypeOK
  <2>3. answers' \in [Questions -> [version: 0..MaxVersion, value: Entries]]
    BY <2>1, <2>2, <1>5 DEF SaveCommit, Saving, TypeOK
  <2>4. revisions' \subseteq [question: Questions, version: 1..MaxVersion,
                              value: Entries]
    BY <2>1, <2>2, <1>5 DEF SaveCommit, Saving, TypeOK
  <2>5. req' \in [Clients -> Slots]
    BY <1>t, <1>5 DEF SaveCommit
  <2> QED
    BY <2>3, <2>4, <2>5, <1>5 DEF SaveCommit, TypeOK, Slots
<1>6. ASSUME NEW c \in Clients, SubmitRead(c) PROVE TypeOK'
  <2>1. req' \in [Clients -> Slots]
    BY <1>t, <1>a, <1>6 DEF SubmitRead, Slots, Submitting
  <2> QED
    BY <2>1, <1>6 DEF SubmitRead, TypeOK, Slots
<1>7. ASSUME NEW c \in Clients, SubmitCommit(c) PROVE TypeOK'
  <2>1. req[c] \in Submitting
    BY <1>7, <1>t DEF SubmitCommit, Slots, Idle, Expiring, Saving, Ending,
       Calculating
  <2>2. receipt' \in Receipts
    BY <2>1, <1>7 DEF SubmitCommit, Submitting, Receipts
  <2>3. req' \in [Clients -> Slots]
    BY <1>t, <1>7 DEF SubmitCommit
  <2> QED
    BY <2>2, <2>3, <1>s, <1>e, <1>7 DEF SubmitCommit, TypeOK, Slots
<1>8. ASSUME NEW c \in Clients, ExpireRead(c) \/ ExpireUpdate(c) PROVE TypeOK'
  <2>1. req' \in [Clients -> Slots]
    BY <1>t, <1>8 DEF ExpireRead, ExpireUpdate
  <2> QED
    BY <2>1, <1>8 DEF ExpireRead, ExpireUpdate, TypeOK, Slots, Statuses
<1>9. ASSUME NEW c \in Clients, CalculateRead(c) PROVE TypeOK'
  <2>1. req' \in [Clients -> Slots]
    BY <1>t, <1>s, <1>9 DEF CalculateRead, Slots, Calculating
  <2> QED
    BY <2>1, <1>9 DEF CalculateRead, TypeOK, Slots
<1>10. ASSUME NEW c \in Clients, CalculateCommit(c) PROVE TypeOK'
  <2>1. req[c] \in Calculating
    BY <1>10, <1>t DEF CalculateCommit, Slots, Idle, Expiring, Saving,
       Submitting, Ending
  <2>2. req' \in [Clients -> Slots]
    BY <1>t, <1>10 DEF CalculateCommit
  <2> QED
    BY <2>1, <2>2, <1>e, <1>10 DEF CalculateCommit, Calculating, TypeOK, Slots
<1>11. ASSUME NEW c \in Clients, ProctorRead(c) PROVE TypeOK'
  <2>1. req' \in [Clients -> Slots]
    BY <1>t, <1>a, <1>11 DEF ProctorRead, Slots, Ending
  <2> QED
    BY <2>1, <1>11 DEF ProctorRead, TypeOK, Slots
<1>12. ASSUME NEW c \in Clients, ProctorCommit(c) PROVE TypeOK'
  <2>1. req[c] \in Ending
    BY <1>12, <1>t DEF ProctorCommit, Slots, Idle, Expiring, Saving,
       Submitting, Calculating
  <2>2. receipt' \in Receipts
    BY <2>1, <1>12 DEF ProctorCommit, Ending, Receipts
  <2>3. req' \in [Clients -> Slots]
    BY <1>t, <1>12 DEF ProctorCommit
  <2> QED
    BY <2>2, <2>3, <1>12 DEF ProctorCommit, TypeOK, Slots, Statuses
<1>13. ASSUME NEW c \in Clients, Rollback(c) PROVE TypeOK'
  <2>1. req' \in [Clients -> Slots]
    BY <1>t, <1>13 DEF Rollback
  <2> QED
    BY <2>1, <1>13 DEF Rollback, TypeOK, Slots
<1>14. CASE UNCHANGED vars
  BY <1>14 DEF vars, TypeOK
<1> QED
  BY <1>1, <1>2, <1>3, <1>4, <1>5, <1>6, <1>7, <1>8, <1>9, <1>10, <1>11,
     <1>12, <1>13, <1>14
     DEF Next, ClientStep, WorkerAutoSubmit, ApiAutoSubmit

\* Every row and every open transaction keeps its type, for any number of
\* clients, questions and saves.
THEOREM TypeCorrect == Spec => []TypeOK
  BY TypeInit, TypeStep, PTL DEF Spec

-----------------------------------------------------------------------------
(* Submission: what an open attempt is free of, and what a claim and a     *)
(* receipt imply.  The three facts are inductive together: that a claim    *)
(* finds no receipt of somebody else is OpenIsUntouched, and that a        *)
(* receipt stays graded is that no step returns result to NoResult.        *)

SubmissionInv == OpenIsUntouched /\ ClaimIsComplete /\ SubmittedIsGraded

LEMMA SubmissionInit == Init => SubmissionInv
  BY DEF Init, SubmissionInv, OpenIsUntouched, ClaimIsComplete,
     SubmittedIsGraded

LEMMA SubmissionStep ==
  TypeOK /\ SubmissionInv /\ [Next]_vars => SubmissionInv'
<1> SUFFICES ASSUME TypeOK, SubmissionInv, [Next]_vars PROVE SubmissionInv'
  OBVIOUS
<1> USE DEF SubmissionInv, OpenIsUntouched, ClaimIsComplete,
            SubmittedIsGraded
<1>e. EvaluatedStatus # "IN_PROGRESS"
  BY DEF EvaluatedStatus
<1>s. Sheet # NoResult
  BY SheetType
<1>r. receipt # NoReceipt => receipt \in Receipts
  BY DEF TypeOK
<1>1. CASE AutoSubmit
  <2>1. receipt = NoReceipt
    BY <1>1 DEF AutoSubmit, Claimable
  <2>2. receipt' = [by |-> "auto", status |-> "AUTO_SUBMITTED",
                    answerCount |-> AnswerCount]
    BY <1>1, <2>1 DEF AutoSubmit
  <2>3. receipt' # NoReceipt
    BY <2>2, AttemptAssumption, AnswerCountType DEF Receipts
  <2> QED
    BY <1>1, <2>2, <2>3, <1>e, <1>s DEF AutoSubmit
<1>2. CASE TimePasses \/ ApiAutoSubmitRollback
  BY <1>2 DEF TimePasses, ApiAutoSubmitRollback
<1>3. ASSUME NEW c \in Clients, NEW q \in Questions, NEW v \in Entries,
             NEW e \in 0..MaxVersion, SaveRead(c, q, v, e)
      PROVE  SubmissionInv'
  BY <1>3 DEF SaveRead
<1>4. ASSUME NEW c \in Clients, SubmitCommit(c) PROVE SubmissionInv'
  <2>1. ~claimed
    BY <1>4 DEF SubmitCommit, ReceiptInsertSucceeds
  <2> QED
    BY <2>1, <1>4, <1>e, <1>s DEF SubmitCommit
<1>5. ASSUME NEW c \in Clients, CalculateCommit(c) PROVE SubmissionInv'
  <2>1. req[c] \in Calculating
    BY <1>5 DEF CalculateCommit, TypeOK, Idle, Expiring, Saving, Submitting,
       Ending
  <2>2. result' # NoResult
    BY <2>1, <1>5, AttemptAssumption DEF CalculateCommit, Calculating
  <2> QED
    BY <2>2, <1>5, <1>e DEF CalculateCommit
<1>6. ASSUME NEW c \in Clients, ProctorCommit(c) PROVE SubmissionInv'
  <2>1. ~claimed
    BY <1>6 DEF ProctorCommit, ReceiptInsertSucceeds
  <2> QED
    BY <2>1, <1>6 DEF ProctorCommit
<1>7. ASSUME NEW c \in Clients, ExpireUpdate(c) PROVE SubmissionInv'
  BY <1>7 DEF ExpireUpdate
<1>8. ASSUME NEW c \in Clients,
             SaveCommit(c) \/ SubmitRead(c) \/ ExpireRead(c)
               \/ CalculateRead(c) \/ ProctorRead(c) \/ Rollback(c)
      PROVE  SubmissionInv'
  BY <1>8 DEF SaveCommit, SubmitRead, ExpireRead, CalculateRead, ProctorRead,
     Rollback
<1>9. CASE UNCHANGED vars
  BY <1>9 DEF vars
<1> QED
  BY <1>1, <1>2, <1>3, <1>4, <1>5, <1>6, <1>7, <1>8, <1>9
     DEF Next, ClientStep, WorkerAutoSubmit, ApiAutoSubmit

LEMMA Submission == Spec => []SubmissionInv
  BY TypeCorrect, SubmissionInit, SubmissionStep, PTL DEF Spec

\* An attempt that still accepts answers carries no claim, receipt or
\* result, however many requests and jobs race.
THEOREM OpenUntouched == Spec => []OpenIsUntouched
  BY Submission, PTL DEF SubmissionInv

\* autoSubmitAttempt's claim is atomic: it implies the claimer's receipt and
\* a result.
THEOREM ClaimComplete == Spec => []ClaimIsComplete
  BY Submission, PTL DEF SubmissionInv

\* A receipt that proctoring did not write comes with a result.
THEOREM SubmittedGraded == Spec => []SubmittedIsGraded
  BY Submission, PTL DEF SubmissionInv

-----------------------------------------------------------------------------
(* Action properties.                                                      *)

\* No race replaces a receipt: the unique index refuses the second insert
\* and the claim's upsert keeps what it finds.
THEOREM ReceiptFinal == Spec => ReceiptIsFinal
<1>1. [Next]_vars => [receipt # NoReceipt => receipt' = receipt]_vars
  BY ZenonT(60) DEF Next, ClientStep, vars, TimePasses, WorkerAutoSubmit, ApiAutoSubmit,
     AutoSubmit, ApiAutoSubmitRollback, SaveRead, SaveCommit, SubmitRead,
     SubmitCommit, ReceiptInsertSucceeds, ExpireRead, ExpireUpdate,
     CalculateRead, CalculateCommit, ProctorRead, ProctorCommit, Rollback
<1> QED
  BY <1>1, PTL DEF Spec, ReceiptIsFinal

\* After the close no save and no expiry is admitted, so the late writers
\* run out: from then on answers and outcome are fixed.
THEOREM LateWriters == Spec => LateWritersDrain
<1> DEFINE Fixed == /\ Drained'
                    /\ answers' = answers
                    /\ status' = "EXPIRED" => status = "EXPIRED"
<1>1. TypeOK /\ [Next]_vars => [Drained => Fixed]_vars
  <2> SUFFICES ASSUME TypeOK, Next, Drained PROVE Fixed
    BY DEF vars
  <2> USE DEF Drained
  <2>e. EvaluatedStatus \notin {"IN_PROGRESS", "EXPIRED"}
    BY DEF EvaluatedStatus
  <2>i. Idle.op = "idle" /\ Expiring.op = "expire"
    BY DEF Idle, Expiring
  <2>1. CASE TimePasses \/ WorkerAutoSubmit \/ ApiAutoSubmit
               \/ ApiAutoSubmitRollback
    BY <2>1, <2>e DEF TimePasses, WorkerAutoSubmit, ApiAutoSubmit,
       ApiAutoSubmitRollback, AutoSubmit
  <2>2. ASSUME NEW c \in Clients, ClientStep(c) PROVE Fixed
    <3>1. ~ \E q \in Questions, v \in Entries, e \in 0..MaxVersion :
              SaveRead(c, q, v, e)
      BY DEF SaveRead, FindAttemptForWrite
    <3>2. ~ SaveCommit(c) /\ ~ ExpireRead(c) /\ ~ ExpireUpdate(c)
      BY <2>i DEF SaveCommit, ExpireRead, ExpireUpdate
    <3>3. CASE SubmitRead(c) \/ SubmitCommit(c)
      BY <3>3, <2>e, <2>i DEF SubmitRead, SubmitCommit, TypeOK
    <3>4. CASE CalculateRead(c) \/ CalculateCommit(c)
      BY <3>4, <2>e, <2>i DEF CalculateRead, CalculateCommit, TypeOK
    <3>5. CASE ProctorRead(c) \/ ProctorCommit(c) \/ Rollback(c)
      BY <3>5, <2>i DEF ProctorRead, ProctorCommit, Rollback, TypeOK
    <3> QED
      BY <2>2, <3>1, <3>2, <3>3, <3>4, <3>5 DEF ClientStep
  <2> QED
    BY <2>1, <2>2 DEF Next
<1> QED
  BY <1>1, TypeCorrect, PTL DEF Spec, LateWritersDrain

-----------------------------------------------------------------------------
(* The answer history.                                                     *)

\* Only a commit of saveAnswer touches the answers and their revisions.
LEMMA OnlySavesWrite ==
  ASSUME [Next]_vars
  PROVE  \/ UNCHANGED <<answers, revisions>>
         \/ \E c \in Clients : SaveCommit(c)
  BY DEF Next, ClientStep, vars, TimePasses, WorkerAutoSubmit, ApiAutoSubmit,
     AutoSubmit, ApiAutoSubmitRollback, SaveRead, SubmitRead, SubmitCommit,
     ExpireRead, ExpireUpdate, CalculateRead, CalculateCommit, ProctorRead,
     ProctorCommit, Rollback

LEMMA VersionsOfUnion ==
  ASSUME NEW A, NEW x
  PROVE  {r.version : r \in A \cup {x}} = {r.version : r \in A}
                                            \cup {x.version}
  OBVIOUS

\* One question's share of HistoryIsComplete.
HistoryOf(q) ==
    /\ {r.version : r \in RevisionsOf(q)} = 1..answers[q].version
    /\ \A r1, r2 \in RevisionsOf(q) : r1.version = r2.version => r1 = r2
    /\ \A r \in RevisionsOf(q) :
          r.version = answers[q].version => r.value = answers[q].value

LEMMA HistoryStep ==
  TypeOK /\ HistoryIsComplete /\ [Next]_vars => HistoryIsComplete'
<1> SUFFICES ASSUME TypeOK, HistoryIsComplete, [Next]_vars,
                    NEW q \in Questions
             PROVE  HistoryOf(q)'
  BY DEF HistoryIsComplete, HistoryOf
<1>h. HistoryOf(q)
  BY DEF HistoryIsComplete, HistoryOf
<1>1. CASE UNCHANGED <<answers, revisions>>
  BY <1>1, <1>h DEF HistoryOf, RevisionsOf
<1>2. ASSUME NEW c \in Clients, SaveCommit(c) PROVE HistoryOf(q)'
  <2> DEFINE s == req[c]
             n == NextVersion(s)
             new == [question |-> s.question, version |-> n,
                     value |-> s.value]
  <2>1. s \in Saving
    BY <1>2 DEF SaveCommit, TypeOK, Idle, Expiring, Submitting, Ending,
       Calculating
  <2>2. revisions' = revisions \cup {new}
    BY <1>2 DEF SaveCommit
  <2>3. CASE s.question # q
    <3>1. answers'[q] = answers[q]
      BY <2>3, <2>1, <1>2 DEF SaveCommit, TypeOK
    <3>2. RevisionsOf(q)' = RevisionsOf(q)
      BY <2>3, <2>2 DEF RevisionsOf
    <3> QED
      BY <3>1, <3>2, <1>h DEF HistoryOf
  <2>4. CASE s.question = q
    <3> DEFINE k == answers[q].version
    <3>1. k \in Nat /\ n = k + 1
      BY <2>4, <2>1, AttemptAssumption DEF NextVersion, TypeOK
    <3>2. answers'[q] = [version |-> n, value |-> s.value]
      BY <2>4, <2>1, <1>2 DEF SaveCommit, TypeOK
    <3>3. RevisionsOf(q)' = RevisionsOf(q) \cup {new}
      BY <2>4, <2>2 DEF RevisionsOf
    <3>4. \A r \in RevisionsOf(q) : r.version \in 1..k
      BY <1>h DEF HistoryOf
    <3>5. {r.version : r \in RevisionsOf(q)'} = 1..(k + 1)
      <4>1. {r.version : r \in RevisionsOf(q)'} = 1..k \cup {n}
        <5>1. new.version = n
          OBVIOUS
        <5> HIDE DEF new
        <5> QED
          BY <3>3, <5>1, VersionsOfUnion, <1>h DEF HistoryOf
      <4> QED
        BY <4>1, <3>1
    <3> QED
      BY <3>1, <3>2, <3>3, <3>4, <3>5, <1>h DEF HistoryOf
  <2> QED
    BY <2>3, <2>4
<1> QED
  BY <1>1, <1>2, OnlySavesWrite

\* Concurrent saves of one question may overwrite each other, but each
\* leaves its revision: the history is gapless and ends in the answer.
THEOREM HistoryComplete == Spec => []HistoryIsComplete
<1>1. Init => HistoryIsComplete
  BY AttemptAssumption DEF Init, HistoryIsComplete, RevisionsOf
<1> QED
  BY <1>1, HistoryStep, TypeCorrect, PTL DEF Spec

-----------------------------------------------------------------------------
(* Refinement of the contract.                                             *)

SaversOf(f) == {c \in Clients : f[c].op = "save"}

\* A client that leaves or enters a save changes the contract's writers by
\* itself and nothing else.
LEMMA SaversUpdate ==
  ASSUME NEW f \in [Clients -> Slots], NEW c \in Clients, NEW s
  PROVE  SaversOf([f EXCEPT ![c] = s]) =
           IF s.op = "save" THEN SaversOf(f) \cup {c} ELSE SaversOf(f) \ {c}
  BY DEF SaversOf

\* Every step of the attempt is a step of the contract or leaves it alone:
\* the database rows, the racing transactions and the sweep implement the
\* promise that an attempt closes once, takes no new writer afterwards and
\* has one receipt.
THEOREM Refinement == Spec => ImplementsContract
<1> DEFINE W == SaversOf(req)
<1>w. W = {c \in Clients : req[c].op = "save"}
  BY DEF SaversOf
<1>1. Init => Contract!Init
  BY DEF Init, Contract!Init, Sheet, Idle
<1>2. TypeOK /\ SubmissionInv /\ [Next]_vars => [Contract!Next]_(Contract!cvars)
  <2> SUFFICES ASSUME TypeOK, SubmissionInv, [Next]_vars
               PROVE  Contract!Next \/ UNCHANGED Contract!cvars
    OBVIOUS
  <2>t. req \in [Clients -> Slots]
    BY DEF TypeOK, Slots
  <2>i. Idle.op = "idle" /\ Expiring.op = "expire"
    BY DEF Idle, Expiring
  <2>e. EvaluatedStatus # "IN_PROGRESS"
    BY DEF EvaluatedStatus
  <2>k. ASSUME status' # "IN_PROGRESS", answers' = answers, W' = W,
               receipt' = receipt \/ (receipt = NoReceipt
                                         /\ receipt' \in Receipts),
               result' = result \/ result' \in Sheets
        PROVE  Contract!Conclude
    BY <2>k DEF Contract!Conclude, SaversOf, Sheet, Sheets
  <2>u. ASSUME status' = status, answers' = answers, W' = W,
               receipt' = receipt, result' = result
        PROVE  UNCHANGED Contract!cvars
    BY <2>u DEF Contract!cvars, SaversOf, Sheet
  <2>n. ASSUME NEW c \in Clients, NEW s, req' = [req EXCEPT ![c] = s],
               s.op # "save", req[c].op # "save"
        PROVE  W' = W
    BY <2>n, <2>t, SaversUpdate DEF SaversOf
  <2>1. CASE AutoSubmit
    <3>1. receipt' = receipt \/ (receipt = NoReceipt /\ receipt' \in Receipts)
      BY <2>1, AnswerCountType DEF AutoSubmit, Receipts
    <3> QED
      BY <3>1, <2>1, <2>e, <2>k, SheetType DEF AutoSubmit, SaversOf, Contract!Next
  <2>2. CASE TimePasses \/ ApiAutoSubmitRollback
    BY <2>2, <2>u DEF TimePasses, ApiAutoSubmitRollback, SaversOf
  <2>3. ASSUME NEW c \in Clients, NEW q \in Questions, NEW v \in Entries,
               NEW e \in 0..MaxVersion, SaveRead(c, q, v, e)
        PROVE  Contract!Next
    <3>1. W' = W \cup {c}
      BY <2>3, <2>t, SaversUpdate DEF SaveRead, SaversOf
    <3>2. Contract!Admit(c)
      BY <3>1, <2>3 DEF Contract!Admit, SaveRead, FindAttemptForWrite, Sheet,
         SaversOf
    <3> QED
      BY <3>2 DEF Contract!Next
  <2>4. ASSUME NEW c \in Clients, SaveCommit(c) PROVE Contract!Next
    <3> DEFINE s == req[c]
    <3>1. s \in Saving
      BY <2>4, <2>t DEF SaveCommit, Slots, Idle, Expiring, Submitting, Ending,
         Calculating
    <3>2. W' = W \ {c} /\ c \in W
      BY <2>4, <2>t, <2>i, SaversUpdate DEF SaveCommit, SaversOf
    <3>3. Sheet' = [Sheet EXCEPT ![s.question] = s.value]
      BY <3>1, <2>4 DEF SaveCommit, Sheet, TypeOK, Saving
    <3>4. \E q \in Questions, v \in Entries : Sheet' = [Sheet EXCEPT ![q] = v]
      BY <3>1, <3>3 DEF Saving
    <3>5. Contract!Finish(c)
      BY <3>2, <3>4, <2>4 DEF Contract!Finish, SaveCommit, SaversOf
    <3> QED
      BY <3>5 DEF Contract!Next
  <2>5. ASSUME NEW c \in Clients, SubmitRead(c) \/ ProctorRead(c)
                                     \/ ExpireRead(c) \/ CalculateRead(c)
        PROVE  UNCHANGED Contract!cvars
    <3>1. W' = W
      BY <2>5, <2>i, <2>n DEF SubmitRead, ProctorRead, ExpireRead, CalculateRead
    <3> QED
      BY <3>1, <2>5, <2>u DEF SubmitRead, ProctorRead, ExpireRead, CalculateRead
  <2>6. ASSUME NEW c \in Clients, SubmitCommit(c) PROVE Contract!Next
    <3>1. req[c] \in Submitting
      BY <2>6, <2>t DEF SubmitCommit, Slots, Idle, Expiring, Saving, Ending,
         Calculating
    <3>2. receipt = NoReceipt /\ receipt' \in Receipts
      BY <3>1, <2>6 DEF SubmitCommit, ReceiptInsertSucceeds, Submitting, Receipts
    <3>3. W' = W
      BY <2>6, <2>i, <2>n DEF SubmitCommit
    <3> QED
      BY <3>2, <3>3, <2>6, <2>e, <2>k, SheetType DEF SubmitCommit, Contract!Next
  <2>7. ASSUME NEW c \in Clients, ProctorCommit(c) PROVE Contract!Next
    <3>1. req[c] \in Ending
      BY <2>7, <2>t DEF ProctorCommit, Slots, Idle, Expiring, Saving,
         Submitting, Calculating
    <3>2. receipt = NoReceipt /\ receipt' \in Receipts
      BY <3>1, <2>7 DEF ProctorCommit, ReceiptInsertSucceeds, Ending, Receipts
    <3>3. W' = W
      BY <2>7, <2>i, <2>n DEF ProctorCommit
    <3> QED
      BY <3>2, <3>3, <2>7, <2>k DEF ProctorCommit, Contract!Next
  <2>8. ASSUME NEW c \in Clients, CalculateCommit(c) PROVE Contract!Next
    <3>1. req[c] \in Calculating
      BY <2>8, <2>t DEF CalculateCommit, Slots, Idle, Expiring, Saving,
         Submitting, Ending
    <3>2. W' = W
      BY <2>8, <2>i, <2>n DEF CalculateCommit
    <3> QED
      BY <3>1, <3>2, <2>8, <2>e, <2>k DEF CalculateCommit, Calculating,
         Contract!Next
  <2>9. ASSUME NEW c \in Clients, ExpireUpdate(c) PROVE Contract!Next
    <3>1. W' = W
      BY <2>9, <2>i, <2>n DEF ExpireUpdate
    <3> QED
      BY <3>1, <2>9, <2>k DEF ExpireUpdate, Contract!Next
  <2>10. ASSUME NEW c \in Clients, Rollback(c)
         PROVE  Contract!Next \/ UNCHANGED Contract!cvars
    <3>1. CASE req[c].op = "save"
      <4>1. W' = W \ {c} /\ c \in W
        BY <3>1, <2>10, <2>t, <2>i, SaversUpdate DEF Rollback, SaversOf
      <4>2. Contract!Finish(c)
        BY <4>1, <2>10 DEF Contract!Finish, Rollback, SaversOf, Sheet
      <4> QED
        BY <4>2 DEF Contract!Next
    <3>2. CASE req[c].op # "save"
      <4>1. W' = W
        BY <3>2, <2>10, <2>i, <2>n DEF Rollback
      <4> QED
        BY <4>1, <2>10, <2>u DEF Rollback
    <3> QED
      BY <3>1, <3>2
  <2>11. CASE UNCHANGED vars
    BY <2>11, <2>u DEF vars, SaversOf
  <2> QED
    BY <2>1, <2>2, <2>3, <2>4, <2>5, <2>6, <2>7, <2>8, <2>9, <2>10, <2>11
       DEF Next, ClientStep, WorkerAutoSubmit, ApiAutoSubmit
<1> QED
  BY <1>1, <1>2, TypeCorrect, Submission, PTL
     DEF Spec, ImplementsContract, Contract!Spec

-----------------------------------------------------------------------------
\* The rows of one attempt agree with each other: no claim without its receipt
\* and result, no answer without its revisions, whatever overlaps or dies.
THEOREM Consistent == Spec => []AttemptConsistent
<1>1. AttemptConsistent <=> /\ TypeOK /\ OpenIsUntouched /\ ClaimIsComplete
                            /\ HistoryIsComplete
  BY DEF AttemptConsistent
<1> QED
  BY <1>1, TypeCorrect, OpenUntouched, ClaimComplete, HistoryComplete, PTL

-----------------------------------------------------------------------------
(* AttemptStart. *)

\* Valid(c): no other start has committed since c took its snapshot.
Valid(c) == opening[c] # NoStart /\ opening[c].seen = DOMAIN attempts

Rowed == /\ \E k \in 0..MaxNumber : DOMAIN attempts = 1..k
         /\ \A n \in DOMAIN attempts :
              /\ attempts[n] \in Rows
              /\ attempts[n].createdAt <= now
              /\ attempts[n].expiresAt <= EndAt
         /\ attempts = [n \in DOMAIN attempts |-> attempts[n]]

\* What a snapshot that is still valid knows: its number follows the table,
\* nothing is live, and there is room below the limit.  Grants raise the
\* limit, a reset empties Counted, the clock only ends attempts.
SnapshotOK(c) ==
    /\ opening[c] # NoStart => opening[c].seen \subseteq DOMAIN attempts
    /\ Valid(c) => /\ DOMAIN attempts = 1..(opening[c].number - 1)
                   /\ LiveAttempts = {}
                   /\ Cardinality(Counted) < Limit

StartInv == /\ now \in 1..MaxTime
        /\ resetBefore \in 0..MaxTime
        /\ additional \in 0..MaxGrant
        /\ opening \in [Devices -> {NoStart} \cup Starting]
        /\ Rowed
        /\ OneLiveAttempt
        /\ AttemptsWithinLimit
        /\ \A c \in Devices : SnapshotOK(c)

LEMMA CountedFinite ==
  ASSUME Rowed
  PROVE  IsFiniteSet(Counted) /\ Cardinality(Counted) \in Nat
<1>1. PICK k \in 0..MaxNumber : DOMAIN attempts = 1..k
  BY DEF Rowed
<1>2. IsFiniteSet(1..k)
  BY FS_Interval
<1>3. IsFiniteSet(Counted)
  BY <1>1, <1>2, FS_Subset DEF Counted
<1> QED
  BY <1>3, FS_CardinalityType

\* A set that gains at most one element counts at most one more.
LEMMA OneMore ==
  ASSUME NEW S, NEW x, NEW T, IsFiniteSet(S), T \subseteq S \cup {x}
  PROVE  Cardinality(T) \in Nat /\ Cardinality(T) <= Cardinality(S) + 1
<1> DEFINE U == S \cup {x}
<1>1. IsFiniteSet(U) /\ Cardinality(U) = IF x \in S THEN Cardinality(S)
                                          ELSE Cardinality(S) + 1
  BY FS_AddElement
<1>2. Cardinality(S) \in Nat
  BY FS_CardinalityType
<1>3. Cardinality(U) <= Cardinality(S) + 1
  <2> HIDE DEF U
  <2> QED
    BY <1>1, <1>2
<1>4. IsFiniteSet(T) /\ Cardinality(T) <= Cardinality(U)
  BY <1>1, FS_Subset
<1>5. Cardinality(T) \in Nat /\ Cardinality(U) \in Nat
  BY <1>1, <1>4, FS_CardinalityType
<1> HIDE DEF U
<1> QED
  BY <1>2, <1>3, <1>4, <1>5

LEMMA NextNumberIs ==
  ASSUME NEW k \in Nat, DOMAIN attempts = 1..k
  PROVE  NextNumber = k + 1
<1> DEFINE Top(n) == \A j \in 1..k : j <= n
<1>1. CASE k = 0
  <2>1. DOMAIN attempts = {}
    BY <1>1
  <2> QED
    BY <1>1, <2>1 DEF NextNumber
<1>2. CASE k # 0
  <2>1. k \in 1..k /\ Top(k)
    BY <1>2
  <2>2. \A n \in 1..k : Top(n) => n = k
    BY <2>1
  <2> HIDE DEF Top
  <2>3. (CHOOSE n \in 1..k : Top(n)) = k
    BY <2>1, <2>2
  <2>4. DOMAIN attempts # {}
    BY <2>1
  <2> DEFINE top == CHOOSE n \in 1..k : Top(n)
  <2>5. NextNumber = 1 + top
    BY <2>4 DEF NextNumber, Top
  <2>6. top = k
    BY <2>3
  <2> HIDE DEF top
  <2> QED
    BY <2>5, <2>6
<1> QED
  BY <1>1, <1>2

LEMMA StartInit == StartsInit => StartInv
<1> SUFFICES ASSUME StartsInit PROVE StartInv
  OBVIOUS
<1>1. DOMAIN attempts = {} /\ attempts = [n \in {} |-> {}]
  BY DEF StartsInit
<1>2. Rowed
  <2>1. DOMAIN attempts = 1..0
    BY <1>1
  <2> QED
    BY <2>1, <1>1, StartAssumption DEF Rowed
<1>3. Counted = {} /\ LiveAttempts = {}
  BY <1>1 DEF Counted, LiveAttempts
<1>4. AttemptsWithinLimit
  BY <1>3, FS_EmptySet, StartAssumption DEF AttemptsWithinLimit, Limit, StartsInit
<1> QED
  BY <1>2, <1>3, <1>4, StartAssumption
     DEF StartsInit, StartInv, OneLiveAttempt, LiveWithinWindow, SnapshotOK, Valid

LEMMA StartStep == StartInv /\ [StartsNext]_svars => StartInv'
<1> SUFFICES ASSUME StartInv, [StartsNext]_svars PROVE StartInv'
  OBVIOUS
<1> USE StartAssumption
<1>f. IsFiniteSet(Counted) /\ Cardinality(Counted) \in Nat
  BY CountedFinite DEF StartInv
<1>l. additional \in Nat /\ Limit \in Nat
  BY DEF StartInv, Limit
<1>1. CASE Tick
  <2>1. Counted' = Counted /\ LiveAttempts' \subseteq LiveAttempts
    BY <1>1, SMTT(30) DEF Tick, Counted, LiveAttempts, Live, StartInv, Rowed, Rows
  <2>2. Rowed'
    BY <1>1, SMTT(30) DEF Tick, StartInv, Rowed, Rows
  <2>3. \A c \in Devices : SnapshotOK(c)'
    BY <1>1, <2>1 DEF Tick, StartInv, SnapshotOK, Valid, Limit
  <2> QED
    BY <1>1, <2>1, <2>2, <2>3
       DEF Tick, StartInv, OneLiveAttempt, AttemptsWithinLimit, Limit
<1>2. CASE ResetStudentAttempts
  <2>1. Counted' = {}
    BY <1>2, SMTT(30) DEF ResetStudentAttempts, Counted, StartInv, Rowed, Rows
  <2>2. Cardinality(Counted') = 0
    BY <2>1, FS_EmptySet
  <2>3. Limit' \in Nat /\ 0 < Limit'
    BY <1>2 DEF ResetStudentAttempts, Limit
  <2>4. LiveAttempts' = LiveAttempts /\ Rowed'
    BY <1>2 DEF ResetStudentAttempts, LiveAttempts, Live, StartInv, Rowed
  <2>5. \A c \in Devices : SnapshotOK(c)'
    BY <1>2, <2>2, <2>3, <2>4
       DEF ResetStudentAttempts, StartInv, SnapshotOK, Valid
  <2> QED
    BY <1>2, <2>2, <2>3, <2>4, <2>5
       DEF ResetStudentAttempts, StartInv, OneLiveAttempt, AttemptsWithinLimit
<1>3. CASE GrantStudentAttempt
  <2>1. Counted' = Counted /\ LiveAttempts' = LiveAttempts /\ Rowed'
    BY <1>3 DEF GrantStudentAttempt, Counted, LiveAttempts, Live, StartInv, Rowed
  <2>2. Limit' = Limit + 1
    BY <1>3, <1>l DEF GrantStudentAttempt, Limit
  <2>3. \A c \in Devices : SnapshotOK(c)'
    BY <1>3, <1>f, <1>l, <2>1, <2>2
       DEF GrantStudentAttempt, StartInv, SnapshotOK, Valid
  <2>4. AttemptsWithinLimit'
    BY <1>f, <1>l, <2>1, <2>2 DEF StartInv, AttemptsWithinLimit
  <2> QED
    BY <1>3, <2>1, <2>3, <2>4 DEF GrantStudentAttempt, StartInv, OneLiveAttempt
<1>4. ASSUME NEW m \in DOMAIN attempts, Close(m) PROVE StartInv'
  <2>1. DOMAIN attempts' = DOMAIN attempts
    BY <1>4 DEF Close, StartInv, Rowed
  <2>2. \A n \in DOMAIN attempts :
           /\ attempts'[n] \in Rows
           /\ attempts'[n].createdAt = attempts[n].createdAt
           /\ attempts'[n].expiresAt = attempts[n].expiresAt
           /\ attempts'[n].status = "IN_PROGRESS"
                => attempts[n].status = "IN_PROGRESS"
    BY <1>4, ZenonT(60) DEF Close, StartInv, Rowed, Rows
  <2>3. Counted' = Counted /\ LiveAttempts' \subseteq LiveAttempts
    BY <1>4, <2>1, <2>2 DEF Close, Counted, LiveAttempts, Live
  <2>4. attempts' = [n \in DOMAIN attempts' |-> attempts'[n]]
    BY <1>4 DEF Close, StartInv, Rowed
  <2>5. Rowed'
    <3>1. \E k \in 0..MaxNumber : DOMAIN attempts' = 1..k
      BY <2>1 DEF StartInv, Rowed
    <3>2. \A n \in DOMAIN attempts' :
            /\ attempts'[n] \in Rows
            /\ attempts'[n].createdAt <= now'
            /\ attempts'[n].expiresAt <= EndAt
      BY <1>4, <2>1, <2>2, ZenonT(60) DEF Close, StartInv, Rowed
    <3> QED
      BY <3>1, <3>2, <2>4 DEF Rowed
  <2>6. \A c \in Devices : SnapshotOK(c)'
    BY <1>4, <2>1, <2>3 DEF Close, StartInv, SnapshotOK, Valid, Limit
  <2> QED
    BY <1>4, <2>3, <2>5, <2>6
       DEF Close, StartInv, OneLiveAttempt, AttemptsWithinLimit, Limit
<1>5. ASSUME NEW c \in Devices, NEW key \in Keys \cup {NoKey},
             StartRead(c, key)
      PROVE  StartInv'
  <2>1. PICK k \in 0..MaxNumber : DOMAIN attempts = 1..k
    BY DEF StartInv, Rowed
  <2>2. NextNumber = k + 1
    BY <2>1, NextNumberIs
  <2>3. [op |-> "start", key |-> key, number |-> NextNumber,
         seen |-> DOMAIN attempts] \in Starting
    BY <1>5, <2>1, <2>2 DEF StartRead, Starting
  <2>4. opening' \in [Devices -> {NoStart} \cup Starting]
    BY <1>5, <2>3 DEF StartRead, StartInv
  <2>5. UNCHANGED <<Counted, LiveAttempts, Limit, Rowed>>
    BY <1>5 DEF StartRead, Counted, LiveAttempts, Live, Limit, Rowed
  <2>6. ASSUME NEW d \in Devices PROVE SnapshotOK(d)'
    <3>1. CASE d = c
      <4>1. opening'[d].number = k + 1 /\ opening'[d].seen = DOMAIN attempts
        BY <1>5, <2>2, <3>1 DEF StartRead, StartInv
      <4>2. DOMAIN attempts' = DOMAIN attempts /\ k = (k + 1) - 1
        BY <1>5, <2>1 DEF StartRead
      <4>3. LiveAttempts' = {} /\ Cardinality(Counted') < Limit'
        BY <1>5, <2>5 DEF StartRead, NoActiveAttempt, BelowLimit
      <4> QED
        BY <2>1, <4>1, <4>2, <4>3 DEF SnapshotOK
    <3>2. CASE d # c
      BY <1>5, <2>5, <3>2 DEF StartRead, StartInv, SnapshotOK, Valid
    <3> QED
      BY <3>1, <3>2
  <2> QED
    BY <1>5, <2>4, <2>5, <2>6
       DEF StartRead, StartInv, OneLiveAttempt, AttemptsWithinLimit
<1>6. ASSUME NEW c \in Devices, StartCommit(c) PROVE StartInv'
  <2> DEFINE s == opening[c]
             row == [status |-> "IN_PROGRESS", createdAt |-> now,
                     expiresAt |-> ExpiresAt, key |-> s.key]
  <2>1. s \in Starting /\ Valid(c)
    BY <1>6 DEF StartCommit, Serializable, StartInv, Valid, NoStart, Starting
  <2>2. PICK k \in 0..MaxNumber : DOMAIN attempts = 1..k
    BY DEF StartInv, Rowed
  <2>3. /\ DOMAIN attempts = 1..(s.number - 1)
        /\ LiveAttempts = {}
        /\ Cardinality(Counted) < Limit
    BY <2>1 DEF StartInv, SnapshotOK
  <2>4. DOMAIN attempts' = DOMAIN attempts \cup {s.number}
    BY <1>6 DEF StartCommit
  <2>5. \A n \in DOMAIN attempts' :
          attempts'[n] = IF n = s.number THEN row ELSE attempts[n]
    BY <1>6 DEF StartCommit
  <2>6. ExpiresAt \in Nat /\ ExpiresAt <= EndAt
    BY DEF ExpiresAt, StartInv
  <2>7. row \in Rows
    BY <2>1, <2>6 DEF Rows, Starting, StartInv
  <2>8. s.number \in Nat /\ s.number \notin DOMAIN attempts
    BY <2>1, <1>6 DEF Starting, StartCommit, Serializable
  <2>9. Rowed'
    <3>1. \E j \in 0..MaxNumber : DOMAIN attempts' = 1..j
      <4>1. s.number \in 1..MaxNumber
        BY <2>1 DEF Starting
      <4>2. 1..(s.number - 1) \cup {s.number} = 1..s.number
        BY <4>1
      <4> QED
        BY <4>1, <4>2, <2>3, <2>4, SMTT(30)
    <3>2. \A n \in DOMAIN attempts' :
            /\ attempts'[n] \in Rows
            /\ attempts'[n].createdAt <= now'
            /\ attempts'[n].expiresAt <= EndAt
      BY <1>6, <2>4, <2>5, <2>6, <2>7, SMTT(30) DEF StartCommit, StartInv, Rowed
    <3>3. attempts' = [n \in DOMAIN attempts' |-> attempts'[n]]
      BY <1>6 DEF StartCommit
    <3> QED
      BY <3>1, <3>2, <3>3 DEF Rowed
  <2>10. Counted' \subseteq Counted \cup {s.number}
    BY <1>6, <2>4, <2>5 DEF StartCommit, Counted
  <2>11. /\ Cardinality(Counted') \in Nat
         /\ Cardinality(Counted') <= Cardinality(Counted) + 1
    BY <1>f, <2>10, OneMore
  <2>12. AttemptsWithinLimit'
    <3>1. Limit' = Limit
      BY <1>6 DEF StartCommit, Limit
    <3> QED
      BY <3>1, <2>3, <2>11, <1>f, <1>l DEF AttemptsWithinLimit
  <2>13. OneLiveAttempt'
    <3>1. LiveAttempts' \subseteq {s.number}
      BY <1>6, <2>3, <2>4, <2>5 DEF StartCommit, LiveAttempts, Live
    <3> QED
      BY <3>1 DEF OneLiveAttempt
  <2>14. ASSUME NEW d \in Devices PROVE SnapshotOK(d)'
    <3>1. CASE d = c
      BY <1>6, <3>1 DEF StartCommit, StartInv, SnapshotOK, Valid
    <3>2. CASE d # c
      <4>1. opening'[d] = opening[d]
        BY <1>6, <3>2 DEF StartCommit, StartInv
      <4>2. opening[d] # NoStart => opening[d].seen \subseteq DOMAIN attempts
        BY DEF StartInv, SnapshotOK
      <4>3. ~Valid(d)'
        BY <4>1, <4>2, <2>4, <2>8 DEF Valid
      <4> QED
        BY <4>1, <4>2, <4>3, <2>4 DEF SnapshotOK
    <3> QED
      BY <3>1, <3>2
  <2> QED
    BY <1>6, <2>9, <2>12, <2>13, <2>14 DEF StartCommit, StartInv
<1>7. ASSUME NEW c \in Devices, StartAbort(c) PROVE StartInv'
  <2>1. UNCHANGED <<Counted, LiveAttempts, Limit, Rowed>>
    BY <1>7 DEF StartAbort, Counted, LiveAttempts, Live, Limit, Rowed
  <2>2. \A d \in Devices : opening'[d] = IF d = c THEN NoStart ELSE opening[d]
    BY <1>7 DEF StartAbort, StartInv
  <2>3. \A d \in Devices : SnapshotOK(d)'
    BY <1>7, <2>1, <2>2 DEF StartAbort, StartInv, SnapshotOK, Valid
  <2>4. opening' \in [Devices -> {NoStart} \cup Starting]
    BY <1>7 DEF StartAbort, StartInv
  <2> QED
    BY <1>7, <2>1, <2>3, <2>4
       DEF StartAbort, StartInv, OneLiveAttempt, AttemptsWithinLimit
<1>8. CASE UNCHANGED svars
  <2>1. UNCHANGED <<Counted, LiveAttempts, Limit, Rowed>>
    BY <1>8 DEF svars, Counted, LiveAttempts, Live, Limit, Rowed
  <2> QED
    BY <1>8, <2>1 DEF svars, StartInv, OneLiveAttempt, AttemptsWithinLimit,
       SnapshotOK, Valid
<1> QED
  BY <1>1, <1>2, <1>3, <1>4, <1>5, <1>6, <1>7, <1>8 DEF StartsNext

LEMMA StartInvariant == StartsSpec => []StartInv
  BY StartInit, StartStep, PTL DEF StartsSpec

\* However many tabs start at once, one attempt runs at a time.
THEOREM OneLive == StartsSpec => []OneLiveAttempt
<1>1. StartInv => OneLiveAttempt
  BY DEF StartInv
<1> QED
  BY <1>1, StartInvariant, PTL

\* Starts, grants and resets in any order never let the counted attempts
\* exceed the limit.
THEOREM WithinLimit == StartsSpec => []AttemptsWithinLimit
<1>1. StartInv => AttemptsWithinLimit
  BY DEF StartInv
<1> QED
  BY <1>1, StartInvariant, PTL

\* Numbers are gapless and a start that was not overtaken gets a fresh one.
THEOREM FreshNumbers == StartsSpec => []NumbersAreFresh
<1>1. StartInv => NumbersAreFresh
  <2> SUFFICES ASSUME StartInv PROVE NumbersAreFresh
    OBVIOUS
  <2>1. \E k \in 0..MaxNumber : DOMAIN attempts = 1..k
    BY DEF StartInv, Rowed
  <2>2. ASSUME NEW c \in Devices, Valid(c)
        PROVE  opening[c].number \notin DOMAIN attempts
    <3>1. opening[c].number \in 1..MaxNumber
      BY <2>2 DEF Valid, StartInv, Starting
    <3> QED
      BY <2>2, <3>1, StartAssumption DEF StartInv, SnapshotOK
  <2> QED
    BY <2>1, <2>2 DEF NumbersAreFresh, Valid
<1> QED
  BY <1>1, StartInvariant, PTL

\* A running attempt ends no later than the assessment's window.
THEOREM LiveWindow == StartsSpec => []LiveWithinWindow
<1>1. StartInv => LiveWithinWindow
  BY StartAssumption, SMTT(30)
     DEF StartInv, Rowed, Rows, LiveWithinWindow, LiveAttempts, Live
<1> QED
  BY <1>1, StartInvariant, PTL

\* Starts, grants, resets and the clock in any order keep attempts, numbers and
\* the limit consistent (startAttempt, resetAttempt, grantAdditionalAttempt).
THEOREM StartsAreConsistent == StartsSpec => []StartsConsistent
<1>1. StartInv => StartTypeOK
  <2> SUFFICES ASSUME StartInv PROVE StartTypeOK
    OBVIOUS
  <2>1. PICK k \in 0..MaxNumber : DOMAIN attempts = 1..k
    BY DEF StartInv, Rowed
  <2>2. 1..k \in SUBSET (1..MaxNumber)
    BY <2>1, StartAssumption
  <2>3. attempts \in [1..k -> Rows]
    BY <2>1 DEF StartInv, Rowed
  <2> QED
    BY <2>2, <2>3 DEF StartInv, StartTypeOK
<1>2. StartsConsistent <=> /\ StartTypeOK /\ OneLiveAttempt /\ AttemptsWithinLimit
                           /\ NumbersAreFresh /\ LiveWithinWindow
  BY DEF StartsConsistent
<1> QED
  BY <1>1, <1>2, StartInvariant, OneLive, WithinLimit, FreshNumbers, LiveWindow, PTL

-----------------------------------------------------------------------------
(* JobQueue. *)

\* The handler reports what it has done.
Honest == \A j \in Ids : handler[j] \in {"done", "resolve"} => j \in worked

\* A call writes some status, but never COMPLETED; one that nothing has overtaken writes
\* what the queue says.
CallsTell == \A c \in Calls : call[c] # NoCall =>
    /\ call[c].status \notin {"NONE", "COMPLETED"}
    /\ call[c].calm => /\ queue[call[c].job] # "active"
                       /\ call[c].status \in Told[queue[call[c].job]]

\* A handler that is about to leave has recorded how.
HandlersTell == \A j \in Ids \ behind :
    /\ handler[j] = "resolve" => record[j] = "COMPLETED"
    /\ handler[j] = "reject" => record[j] = "FAILED"

\* A queued job without a record has a call that will write one.
RecordComing == \A j \in Ids \ behind :
    record[j] = "NONE" /\ queue[j] # "absent" =>
        \E c \in Pending(j) : call[c].at = "added"

QueueInv == /\ JobQueueTypeOK
        /\ CompletedMeansDone /\ Honest
        /\ CallsTell /\ HandlersTell /\ RecordComing
        /\ RecordTruthful

LEMMA QueueStart == QueueInit => QueueInv
<1> SUFFICES ASSUME QueueInit PROVE QueueInv
  OBVIOUS
<1>1. JobQueueTypeOK
  <2>1. 0 \in 0..Attempts /\ 0 \in 0..MaxCalls /\ 0 \in 0..MaxFaults
    BY QueueAssumption
  <2>2. call \in [Calls -> CallRow \cup {NoCall}]
    BY DEF QueueInit
  <2> QED
    BY <2>1, <2>2 DEF QueueInit, JobQueueTypeOK, QueueStates, RecordStates,
       HandlerSteps
<1>2. \A j \in Ids : /\ queue[j] = "absent" /\ record[j] = "NONE"
                      /\ handler[j] = "idle"
  BY DEF QueueInit
<1>3. \A c \in Calls : call[c] = NoCall
  BY DEF QueueInit
<1>4. "NONE" \in Told["absent"]
  BY DEF Told
<1>5. CompletedMeansDone /\ Honest /\ HandlersTell /\ RecordComing
  BY <1>2 DEF CompletedMeansDone, Honest, HandlersTell, RecordComing
<1>6. RecordTruthful
  BY <1>2, <1>4 DEF RecordTruthful
<1> QED
  BY <1>1, <1>3, <1>5, <1>6 DEF QueueInv, CallsTell

\* What a step that happens to job j does to the calls.
LEMMA Disturbed ==
  ASSUME JobQueueTypeOK, NEW j \in Ids
  PROVE  /\ Disturb(j) \in [Calls -> CallRow \cup {NoCall}]
         /\ \A c \in Calls :
              /\ call[c] = NoCall <=> Disturb(j)[c] = NoCall
              /\ call[c] # NoCall =>
                   /\ Disturb(j)[c].at = call[c].at
                   /\ Disturb(j)[c].job = call[c].job
                   /\ Disturb(j)[c].status = call[c].status
                   /\ Disturb(j)[c].calm <=> call[c].calm /\ call[c].job # j
<1> SUFFICES ASSUME NEW c \in Calls
             PROVE  /\ Disturb(j)[c] \in CallRow \cup {NoCall}
                    /\ call[c] = NoCall <=> Disturb(j)[c] = NoCall
                    /\ call[c] # NoCall =>
                         /\ Disturb(j)[c].at = call[c].at
                         /\ Disturb(j)[c].job = call[c].job
                         /\ Disturb(j)[c].status = call[c].status
                         /\ Disturb(j)[c].calm <=> call[c].calm /\ call[c].job # j
  BY DEF Disturb
<1>1. call[c] \in CallRow \cup {NoCall}
  BY DEF JobQueueTypeOK
<1>2. c \in Pending(j) <=> call[c] # NoCall /\ call[c].job = j
  BY DEF Pending
<1>3. CASE c \in Pending(j)
  <2>1. Disturb(j)[c] = [call[c] EXCEPT !.calm = FALSE] /\ call[c] \in CallRow
    BY <1>1, <1>2, <1>3 DEF Disturb
  <2> QED
    BY <2>1, <1>2, <1>3 DEF CallRow, NoCall
<1>4. CASE c \notin Pending(j)
  <2>1. Disturb(j)[c] = call[c]
    BY <1>4 DEF Disturb
  <2> QED
    BY <2>1, <1>1, <1>2, <1>4 DEF CallRow, NoCall
<1> QED
  BY <1>3, <1>4

-----------------------------------------------------------------------------
(* What happens to one job, the calls in their places. *)

\* The calls stay what they are; those whose job went on are calm no longer,
\* unless what they will write is still right.
Stay(j, q) == \A c \in Calls :
    /\ call[c] = NoCall <=> call'[c] = NoCall
    /\ call[c] # NoCall =>
         /\ call'[c].at = call[c].at
         /\ call'[c].job = call[c].job
         /\ call'[c].status = call[c].status
         /\ call'[c].calm => call[c].calm
         /\ call'[c].calm /\ call[c].job = j => q # "active" /\ call[c].status \in Told[q]

\* A step brings job j into state q, its handler to h and its record to r.
Event(j, q, h, r) ==
    /\ q \in QueueStates /\ h \in HandlerSteps /\ r \in RecordStates
    /\ queue' = [queue EXCEPT ![j] = q]
    /\ handler' = [handler EXCEPT ![j] = h]
    /\ record' = [record EXCEPT ![j] = r]
    /\ tries' \in [Ids -> 0..Attempts] /\ paused' = paused
    /\ calls' \in 0..MaxCalls /\ faults' \in 0..MaxFaults
    /\ worked \subseteq worked' /\ worked' \subseteq worked \cup {j}
    /\ behind \subseteq behind' \cup {j} /\ behind' \subseteq behind \cup {j}
    /\ call' \in [Calls -> CallRow \cup {NoCall}]
    /\ Stay(j, q)
    /\ r = "COMPLETED" \/ q = "completed" \/ h \in {"done", "resolve"} => j \in worked'
    /\ h # "idle" => q = "active"
    /\ j \notin behind' =>
         /\ h = "resolve" => r = "COMPLETED"
         /\ h = "reject" => r = "FAILED"
         /\ r = "NONE" /\ q # "absent" => \E c \in Pending(j) : call[c].at = "added"
         /\ Pending(j) = {} /\ q # "active" => r \in Told[q]

LEMMA JobStep ==
  ASSUME QueueInv, NEW j \in Ids, NEW q, NEW h, NEW r, Event(j, q, h, r)
  PROVE  QueueInv'
<1> USE DEF Event, Stay
<1>1. \A k \in Ids : /\ queue'[k] = IF k = j THEN q ELSE queue[k]
                     /\ handler'[k] = IF k = j THEN h ELSE handler[k]
                     /\ record'[k] = IF k = j THEN r ELSE record[k]
  BY DEF QueueInv, JobQueueTypeOK
<1>2. \A k \in Ids : Pending(k)' = Pending(k)
  BY DEF Pending
<1>3. JobQueueTypeOK'
  BY <1>1 DEF QueueInv, JobQueueTypeOK
<1>4. CompletedMeansDone' /\ Honest'
  BY <1>1 DEF QueueInv, CompletedMeansDone, Honest
<1>5. CallsTell'
  <2> SUFFICES ASSUME NEW c \in Calls, call'[c] # NoCall
               PROVE  /\ call'[c].status \notin {"NONE", "COMPLETED"}
                      /\ call'[c].calm => /\ queue'[call'[c].job] # "active"
                                          /\ call'[c].status \in Told[queue'[call'[c].job]]
    BY DEF CallsTell
  <2>1. call[c] # NoCall /\ call'[c].job = call[c].job /\ call'[c].status = call[c].status
    OBVIOUS
  <2>2. call[c].job \in Ids
    <3>1. call[c] \in CallRow
      BY <2>1 DEF QueueInv, JobQueueTypeOK
    <3> QED
      BY <3>1 DEF CallRow
  <2> QED
    BY <1>1, <2>1, <2>2 DEF QueueInv, CallsTell
<1>6. HandlersTell'
  BY <1>1 DEF QueueInv, HandlersTell
<1>7. RecordComing'
  <2> SUFFICES ASSUME NEW k \in Ids \ behind', record'[k] = "NONE", queue'[k] # "absent"
               PROVE  \E c \in Pending(k)' : call'[c].at = "added"
    BY DEF RecordComing
  <2>1. PICK c \in Pending(k) : call[c].at = "added"
    BY <1>1 DEF QueueInv, RecordComing
  <2> QED
    BY <1>2, <2>1 DEF Pending
<1>8. RecordTruthful'
  BY <1>1, <1>2 DEF QueueInv, RecordTruthful
<1> QED
  BY <1>3, <1>4, <1>5, <1>6, <1>7, <1>8 DEF QueueInv

\* A worker's step on a job is such an event.
LEMMA WorkerStep ==
  ASSUME QueueInv, NEW j \in Ids, WorkerNext(j)
  PROVE  QueueInv'
<1>1. /\ queue \in [Ids -> QueueStates] /\ tries \in [Ids -> 0..Attempts]
      /\ record \in [Ids -> RecordStates] /\ handler \in [Ids -> HandlerSteps]
      /\ calls \in 0..MaxCalls /\ faults \in 0..MaxFaults
      /\ call \in [Calls -> CallRow \cup {NoCall}]
      /\ handler[j] # "idle" => queue[j] = "active"
  BY DEF QueueInv, JobQueueTypeOK
<1>2. /\ queue[j] \in QueueStates /\ record[j] \in RecordStates /\ handler[j] \in HandlerSteps
      /\ queue = [queue EXCEPT ![j] = queue[j]]
      /\ record = [record EXCEPT ![j] = record[j]]
      /\ handler = [handler EXCEPT ![j] = handler[j]]
  BY <1>1
<1>3. Fault => faults' \in 0..MaxFaults
  BY <1>1, QueueAssumption DEF Fault
<1>4. ASSUME call' = Disturb(j), NEW q
      PROVE  call' \in [Calls -> CallRow \cup {NoCall}] /\ Stay(j, q)
  BY <1>4, Disturbed DEF QueueInv, Stay
<1>5. /\ record[j] = "COMPLETED" \/ queue[j] = "completed" \/ handler[j] \in {"done", "resolve"}
           => j \in worked
      /\ j \notin behind =>
            /\ handler[j] = "resolve" => record[j] = "COMPLETED"
            /\ handler[j] = "reject" => record[j] = "FAILED"
            /\ record[j] = "NONE" /\ queue[j] # "absent" =>
                 \E c \in Pending(j) : call[c].at = "added"
            /\ Pending(j) = {} /\ queue[j] # "active" => record[j] \in Told[queue[j]]
  BY DEF QueueInv, CompletedMeansDone, Honest, HandlersTell, RecordComing, RecordTruthful
<1>6. ASSUME call' = call, NEW q,
             queue[j] # "active" => q # "active" /\ Told[queue[j]] \subseteq Told[q]
      PROVE  Stay(j, q)
  BY <1>6 DEF QueueInv, CallsTell, Stay
<1>7. CASE Due(j)
  <2>1. Told["delayed"] \subseteq Told["waiting"]
    BY DEF Told
  <2>2. Stay(j, "waiting")
    BY <1>7, <1>6, <2>1 DEF Due
  <2>3. Event(j, "waiting", handler[j], record[j])
    BY <1>7, <1>1, <1>2, <1>5, <2>1, <2>2 DEF Due, Put, Event, QueueStates
  <2> QED
    BY <2>3, JobStep
<1>8. CASE Trimmed(j)
  <2>1. Told["completed"] \subseteq Told["absent"]
    BY DEF Told
  <2>2. Event(j, "absent", handler[j], record[j])
    BY <1>8, <1>1, <1>2, <1>4, <1>5, <2>1 DEF Trimmed, Put, Event, QueueStates
  <2> QED
    BY <2>2, JobStep
<1>9. CASE Take(j)
  <2>1. Event(j, "active", "start", record[j])
    BY <1>9, <1>1, <1>2, <1>4, <1>5 DEF Take, Put, Event, QueueStates, HandlerSteps
  <2> QED
    BY <2>1, JobStep
<1>10. CASE RecordActive(j)
  <2>1. queue[j] = "active" /\ Stay(j, "active")
    BY <1>10, <1>1, <1>4, <1>6 DEF RecordActive
  <2>2. Event(j, queue[j], "work", "ACTIVE") \/ Event(j, queue[j], "reject", record[j])
    BY <1>10, <1>1, <1>2, <1>3, <1>4, <1>5, <2>1
       DEF RecordActive, Write, Proceed, Event, RecordStates, HandlerSteps
  <2> QED
    BY <2>2, JobStep
<1>11. CASE Work(j)
  <2>1. queue[j] = "active" /\ Stay(j, "active")
    BY <1>11, <1>1, <1>6 DEF Work
  <2>2. Event(j, queue[j], "done", record[j]) \/ Event(j, queue[j], "fail", record[j])
    BY <1>11, <1>1, <1>2, <1>5, <2>1 DEF Work, Proceed, Event, HandlerSteps
  <2> QED
    BY <2>2, JobStep
<1>12. CASE RecordCompleted(j)
  <2>1. queue[j] = "active" /\ Stay(j, "active")
    BY <1>12, <1>1, <1>4, <1>6 DEF RecordCompleted
  <2>2. \/ Event(j, queue[j], "resolve", "COMPLETED")
        \/ Event(j, queue[j], "fail", record[j])
    BY <1>12, <1>1, <1>2, <1>3, <1>4, <1>5, <2>1
       DEF RecordCompleted, Write, Proceed, Event, RecordStates, HandlerSteps
  <2> QED
    BY <2>2, JobStep
<1>13. CASE RecordFailed(j)
  <2>1. queue[j] = "active" /\ Stay(j, "active")
    BY <1>13, <1>1, <1>4, <1>6 DEF RecordFailed
  <2>2. Event(j, queue[j], "reject", "FAILED") \/ Event(j, queue[j], "reject", record[j])
    BY <1>13, <1>1, <1>2, <1>3, <1>4, <1>5, <2>1
       DEF RecordFailed, Write, Proceed, Event, RecordStates, HandlerSteps
  <2> QED
    BY <2>2, JobStep
<1>14. CASE Resolve(j)
  <2>1. "COMPLETED" \in Told["completed"]
    BY DEF Told
  <2>2. Event(j, "completed", "idle", record[j])
    BY <1>14, <1>1, <1>2, <1>4, <1>5, <2>1
       DEF Resolve, Put, Proceed, Event, QueueStates, HandlerSteps
  <2> QED
    BY <2>2, JobStep
<1>15. CASE Reject(j)
  <2>1. "FAILED" \in Told["delayed"] /\ "FAILED" \in Told["failed"]
    BY DEF Told
  <2>2. tries' \in [Ids -> 0..Attempts]
    BY <1>15, <1>1, QueueAssumption DEF Reject
  <2>3. Event(j, "delayed", "idle", record[j]) \/ Event(j, "failed", "idle", record[j])
    BY <1>15, <1>1, <1>2, <1>4, <1>5, <2>1, <2>2
       DEF Reject, Put, Proceed, Event, QueueStates, HandlerSteps
  <2> QED
    BY <2>3, JobStep
<1>16. CASE WorkerDies(j)
  <2>1. PICK state \in {"waiting", "failed"} : Put(j, state)
    BY <1>16 DEF WorkerDies
  <2>2. Event(j, state, "idle", record[j])
    BY <1>16, <1>1, <1>2, <1>3, <1>4, <1>5, <2>1
       DEF WorkerDies, Put, Proceed, Event, QueueStates, HandlerSteps
  <2> QED
    BY <2>2, JobStep
<1> QED
  BY <1>7, <1>8, <1>9, <1>10, <1>11, <1>12, <1>13, <1>14, <1>15, <1>16 DEF WorkerNext

-----------------------------------------------------------------------------
(* The API's calls. *)

\* A call's queue operation: it takes a free slot and disturbs the others.
LEMMA NewCallStep ==
  ASSUME QueueInv, NEW c \in Calls, NEW j \in Ids, NEW q \in QueueStates, NEW row \in CallRow,
         call[c] = NoCall, call' = [Disturb(j) EXCEPT ![c] = row],
         row.job = j, row.status \notin {"NONE", "COMPLETED"},
         row.calm => q # "active" /\ row.status \in Told[q],
         queue' = [queue EXCEPT ![j] = q],
         queue[j] = "active" => q = "active",
         q = "completed" => queue[j] = "completed",
         q # "absent" => queue[j] # "absent" \/ row.at = "added",
         tries' \in [Ids -> 0..Attempts], calls' \in 0..MaxCalls,
         UNCHANGED <<paused, record, handler, worked, behind, faults>>
  PROVE  QueueInv'
<1>1. /\ Disturb(j) \in [Calls -> CallRow \cup {NoCall}]
      /\ \A d \in Calls \ {c} : call'[d] = Disturb(j)[d]
      /\ call'[c] = row
      /\ row # NoCall
  <2>1. row # NoCall
    BY DEF CallRow, NoCall
  <2> QED
    BY <2>1, Disturbed DEF QueueInv
<1>2. \A d \in Calls \ {c} :
        /\ call[d] = NoCall <=> call'[d] = NoCall
        /\ call[d] # NoCall =>
             /\ call'[d].at = call[d].at
             /\ call'[d].job = call[d].job
             /\ call'[d].status = call[d].status
             /\ call'[d].calm => call[d].calm /\ call[d].job # j
  BY <1>1, Disturbed DEF QueueInv
<1>3. \A k \in Ids : queue'[k] = IF k = j THEN q ELSE queue[k]
  BY DEF QueueInv, JobQueueTypeOK
<1>4. \A k \in Ids : Pending(k)' = Pending(k) \cup (IF k = j THEN {c} ELSE {})
  BY <1>1, <1>2 DEF Pending
<1>5. JobQueueTypeOK'
  BY <1>1, <1>3, ZenonT(60) DEF QueueInv, JobQueueTypeOK
<1>6. CompletedMeansDone' /\ Honest'
  BY <1>3 DEF QueueInv, CompletedMeansDone, Honest
<1>7. CallsTell'
  <2> SUFFICES ASSUME NEW d \in Calls, call'[d] # NoCall
               PROVE  /\ call'[d].status \notin {"NONE", "COMPLETED"}
                      /\ call'[d].calm => /\ queue'[call'[d].job] # "active"
                                          /\ call'[d].status \in Told[queue'[call'[d].job]]
    BY DEF CallsTell
  <2>1. CASE d = c
    BY <1>1, <1>3, <2>1
  <2>2. CASE d # c
    <3>1. call[d] \in CallRow
      BY <1>2, <2>2 DEF QueueInv, JobQueueTypeOK
    <3>2. call[d].job \in Ids
      BY <3>1 DEF CallRow
    <3> QED
      BY <1>2, <1>3, <2>2, <3>2 DEF QueueInv, CallsTell
  <2> QED
    BY <2>1, <2>2
<1>8. HandlersTell'
  BY DEF QueueInv, HandlersTell
<1>9. RecordComing'
  <2> SUFFICES ASSUME NEW k \in Ids \ behind', record'[k] = "NONE", queue'[k] # "absent"
               PROVE  \E d \in Pending(k)' : call'[d].at = "added"
    BY DEF RecordComing
  <2>1. CASE queue[k] # "absent"
    <3>1. PICK d \in Pending(k) : call[d].at = "added"
      BY <2>1 DEF QueueInv, RecordComing
    <3>2. d \in Calls \ {c} /\ call[d] # NoCall
      BY <3>1 DEF Pending
    <3> QED
      BY <1>2, <1>4, <3>1, <3>2
  <2>2. CASE queue[k] = "absent"
    BY <1>1, <1>3, <1>4, <2>2
  <2> QED
    BY <2>1, <2>2
<1>10. RecordTruthful'
  BY <1>3, <1>4 DEF QueueInv, RecordTruthful
<1> QED
  BY <1>5, <1>6, <1>7, <1>8, <1>9, <1>10 DEF QueueInv

LEMMA AddJobStep ==
  ASSUME QueueInv, NEW c \in Calls, NEW j \in Ids, NEW delay \in BOOLEAN, AddJob(c, j, delay)
  PROVE  QueueInv'
<1> DEFINE row == [at |-> "added", job |-> j, calm |-> queue[j] = "absent",
                   status |-> IF delay THEN "DELAYED" ELSE "WAITING"]
           q == IF queue[j] # "absent" THEN queue[j]
                ELSE IF delay THEN "delayed" ELSE "waiting"
<1>1. /\ queue \in [Ids -> QueueStates] /\ tries \in [Ids -> 0..Attempts]
      /\ calls \in 0..MaxCalls
  BY DEF QueueInv, JobQueueTypeOK
<1>2. row \in CallRow /\ q \in QueueStates
  BY <1>1 DEF CallRow, RecordStates, QueueStates
<1>3. "DELAYED" \in Told["delayed"] /\ "WAITING" \in Told["waiting"]
  BY DEF Told
<1>4. queue' = [queue EXCEPT ![j] = q]
  BY <1>1 DEF AddJob, Put
<1>5. tries' \in [Ids -> 0..Attempts] /\ calls' \in 0..MaxCalls
  BY <1>1, QueueAssumption DEF AddJob, NewCall
<1>6. /\ call[c] = NoCall /\ call' = [Disturb(j) EXCEPT ![c] = row]
      /\ UNCHANGED <<paused, record, handler, worked, behind, faults>>
  BY DEF AddJob, NewCall
<1>7. /\ row.job = j /\ row.status \notin {"NONE", "COMPLETED"} /\ row.at = "added"
      /\ row.calm => q # "active" /\ row.status \in Told[q]
      /\ queue[j] = "active" => q = "active"
      /\ q = "completed" => queue[j] = "completed"
  BY <1>3
<1> QED
  <2> HIDE DEF row, q
  <2> QED
    BY <1>2, <1>4, <1>5, <1>6, <1>7, NewCallStep

LEMMA OperatorStep ==
  ASSUME QueueInv, NEW c \in Calls, NEW j \in Ids, RetryFailed(c, j) \/ RemoveFailed(c, j)
  PROVE  QueueInv'
<1>1. /\ queue \in [Ids -> QueueStates] /\ tries \in [Ids -> 0..Attempts]
      /\ calls \in 0..MaxCalls
  BY DEF QueueInv, JobQueueTypeOK
<1>2. NewCall(c) => call[c] = NoCall /\ calls' \in 0..MaxCalls
  BY <1>1, QueueAssumption DEF NewCall
<1>3. CASE RetryFailed(c, j)
  <2> DEFINE row == [at |-> "retried", job |-> j, calm |-> TRUE, status |-> "WAITING"]
  <2>1. /\ row \in CallRow /\ row.job = j /\ row.status \in Told["waiting"]
        /\ row.status \notin {"NONE", "COMPLETED"} /\ "waiting" \in QueueStates
    BY DEF CallRow, RecordStates, QueueStates, Told
  <2>2. /\ call' = [Disturb(j) EXCEPT ![c] = row] /\ queue[j] = "failed"
        /\ queue' = [queue EXCEPT ![j] = "waiting"] /\ NewCall(c)
        /\ UNCHANGED <<tries, paused, record, handler, worked, behind, faults>>
    BY <1>3 DEF RetryFailed, Put
  <2> HIDE DEF row
  <2> QED
    BY <1>1, <1>2, <2>1, <2>2, NewCallStep
<1>4. CASE RemoveFailed(c, j)
  <2> DEFINE row == [at |-> "removed", job |-> j, calm |-> TRUE, status |-> "FAILED"]
  <2>1. /\ row \in CallRow /\ row.job = j /\ row.status \in Told["absent"]
        /\ row.status \notin {"NONE", "COMPLETED"} /\ "absent" \in QueueStates
    BY DEF CallRow, RecordStates, QueueStates, Told
  <2>2. /\ call' = [Disturb(j) EXCEPT ![c] = row] /\ queue[j] # "active"
        /\ queue' = [queue EXCEPT ![j] = "absent"] /\ NewCall(c)
        /\ UNCHANGED <<tries, paused, record, handler, worked, behind, faults>>
    BY <1>4 DEF RemoveFailed, Put
  <2> HIDE DEF row
  <2> QED
    BY <1>1, <1>2, <2>1, <2>2, NewCallStep
<1> QED
  BY <1>3, <1>4

\* What the second statement writes is right, or the job is marked as behind.
LEMMA RecordCallStep ==
  ASSUME QueueInv, NEW c \in Calls, RecordCall(c)
  PROVE  QueueInv'
<1> DEFINE j == call[c].job
<1>1. call[c] # NoCall /\ call[c] \in CallRow
  BY DEF RecordCall, QueueInv, JobQueueTypeOK
<1>2. j \in Ids /\ call[c].status \in RecordStates /\ call[c].calm \in BOOLEAN
  BY <1>1 DEF CallRow
<1>3. /\ record' = [record EXCEPT ![j] = IF Upserts(c) THEN call[c].status ELSE record[j]]
      /\ behind' = IF ~call[c].calm THEN behind \cup {j}
                   ELSE IF Upserts(c) THEN behind \ {j} ELSE behind
      /\ call' = [Disturb(j) EXCEPT ![c] = NoCall]
      /\ UNCHANGED <<queue, tries, paused, handler, worked, calls, faults>>
  <2>1. record = [record EXCEPT ![j] = record[j]]
    BY <1>2 DEF QueueInv, JobQueueTypeOK
  <2> QED
    BY <1>1, <2>1 DEF RecordCall, Write
<1>4. Upserts(c) <=> call[c].at = "added" \/ record[j] # "NONE"
  BY DEF Upserts
<1>5. \A d \in Calls \ {c} :
        /\ call[d] = NoCall <=> call'[d] = NoCall
        /\ call[d] # NoCall =>
             /\ call'[d].at = call[d].at
             /\ call'[d].job = call[d].job
             /\ call'[d].status = call[d].status
             /\ call'[d].calm => call[d].calm /\ call[d].job # j
  BY <1>2, <1>3, Disturbed DEF QueueInv
<1>6. call'[c] = NoCall /\ call' \in [Calls -> CallRow \cup {NoCall}]
  BY <1>2, <1>3, Disturbed DEF QueueInv
<1>7. \A k \in Ids : Pending(k)' = Pending(k) \ {c}
  BY <1>5, <1>6 DEF Pending
<1>8. \A k \in Ids : record'[k] = IF k = j /\ Upserts(c) THEN call[c].status ELSE record[k]
  BY <1>2, <1>3 DEF QueueInv, JobQueueTypeOK
<1>9. /\ call[c].status \notin {"NONE", "COMPLETED"}
      /\ call[c].calm => queue[j] # "active" /\ call[c].status \in Told[queue[j]]
  BY <1>1 DEF QueueInv, CallsTell
<1> HIDE DEF j
<1>10. JobQueueTypeOK'
  BY <1>2, <1>3, <1>6 DEF QueueInv, JobQueueTypeOK
<1>11. CompletedMeansDone' /\ Honest'
  BY <1>3, <1>8, <1>9 DEF QueueInv, CompletedMeansDone, Honest
<1>12. CallsTell'
  BY <1>3, <1>5, <1>6 DEF QueueInv, CallsTell
<1>13. HandlersTell'
  <2> SUFFICES ASSUME NEW k \in Ids \ behind'
               PROVE  /\ handler[k] = "resolve" => record'[k] = "COMPLETED"
                      /\ handler[k] = "reject" => record'[k] = "FAILED"
    BY <1>3 DEF HandlersTell
  <2>1. CASE k # j
    BY <1>3, <1>8, <2>1 DEF QueueInv, HandlersTell
  <2>2. CASE k = j
    <3>1. call[c].calm
      BY <1>3, <2>2
    <3>2. handler[k] = "idle"
      BY <1>9, <2>2, <3>1 DEF QueueInv, JobQueueTypeOK
    <3> QED
      BY <3>2
  <2> QED
    BY <2>1, <2>2
<1>14. RecordComing'
  <2> SUFFICES ASSUME NEW k \in Ids \ behind', record'[k] = "NONE", queue'[k] # "absent"
               PROVE  \E d \in Pending(k)' : call'[d].at = "added"
    BY DEF RecordComing
  <2>1. ~(k = j /\ Upserts(c))
    BY <1>8, <1>9
  <2>2. record[k] = "NONE" /\ k \notin behind
    BY <1>3, <1>8, <2>1
  <2>3. PICK d \in Pending(k) : call[d].at = "added"
    BY <1>3, <2>2 DEF QueueInv, RecordComing
  <2>4. d # c
    BY <1>4, <2>1, <2>3 DEF Pending, j
  <2>5. d \in Calls \ {c} /\ call[d] # NoCall
    BY <2>3, <2>4 DEF Pending
  <2> QED
    BY <1>5, <1>7, <2>3, <2>5
<1>15. RecordTruthful'
  <2> SUFFICES ASSUME NEW k \in Ids \ behind', Pending(k)' = {}, queue'[k] # "active"
               PROVE  record'[k] \in Told[queue'[k]]
    BY DEF RecordTruthful
  <2>1. CASE k # j
    <3>1. Pending(k) = {}
      BY <1>7, <2>1 DEF Pending, j
    <3> QED
      BY <1>3, <1>8, <2>1, <3>1 DEF QueueInv, RecordTruthful
  <2>2. CASE k = j /\ Upserts(c)
    BY <1>3, <1>8, <1>9, <2>2
  <2>3. CASE k = j /\ ~Upserts(c)
    <3>1. record[k] = "NONE" /\ k \notin behind /\ call[c].at # "added"
      BY <1>3, <1>4, <2>3
    <3>2. ~ \E d \in Pending(k) : call[d].at = "added"
      BY <1>7, <3>1
    <3>3. queue[k] = "absent"
      BY <3>1, <3>2 DEF QueueInv, RecordComing
    <3>4. "NONE" \in Told["absent"]
      BY DEF Told
    <3> QED
      BY <1>3, <1>8, <2>3, <3>1, <3>3, <3>4
  <2> QED
    BY <2>1, <2>2, <2>3
<1> QED
  BY <1>10, <1>11, <1>12, <1>13, <1>14, <1>15 DEF QueueInv

\* A call that is lost leaves its job marked.
LEMMA CallLostStep ==
  ASSUME QueueInv, NEW c \in Calls, CallLost(c)
  PROVE  QueueInv'
<1>1. /\ call[c] # NoCall /\ call' = [call EXCEPT ![c] = NoCall]
      /\ behind' = behind \cup {call[c].job}
      /\ UNCHANGED <<queue, tries, paused, record, handler, worked, calls>>
  BY DEF CallLost
<1>2. /\ call' \in [Calls -> CallRow \cup {NoCall}] /\ call'[c] = NoCall
      /\ \A d \in Calls \ {c} : call'[d] = call[d]
  BY <1>1 DEF QueueInv, JobQueueTypeOK
<1>3. call[c].job \in Ids
  BY <1>1 DEF QueueInv, JobQueueTypeOK, CallRow
<1>4. \A k \in Ids : Pending(k)' = Pending(k) \ {c}
  BY <1>1, <1>2 DEF Pending
<1>5. faults' \in 0..MaxFaults
  BY QueueAssumption DEF CallLost, Fault, QueueInv, JobQueueTypeOK
<1>6. JobQueueTypeOK'
  BY <1>1, <1>2, <1>3, <1>5 DEF QueueInv, JobQueueTypeOK
<1>7. CompletedMeansDone' /\ Honest' /\ HandlersTell'
  BY <1>1 DEF QueueInv, CompletedMeansDone, Honest, HandlersTell
<1>8. CallsTell'
  BY <1>1, <1>2 DEF QueueInv, CallsTell
<1>9. RecordComing'
  <2> SUFFICES ASSUME NEW k \in Ids \ behind', record[k] = "NONE", queue[k] # "absent"
               PROVE  \E d \in Pending(k)' : call'[d].at = "added"
    BY <1>1 DEF RecordComing
  <2>1. PICK d \in Pending(k) : call[d].at = "added"
    BY <1>1 DEF QueueInv, RecordComing
  <2>2. d \in Calls \ {c}
    BY <1>1, <2>1 DEF Pending
  <2> QED
    BY <1>2, <1>4, <2>1, <2>2
<1>10. RecordTruthful'
  <2> SUFFICES ASSUME NEW k \in Ids \ behind', Pending(k)' = {}, queue[k] # "active"
               PROVE  record[k] \in Told[queue[k]]
    BY <1>1 DEF RecordTruthful
  <2>1. Pending(k) = {}
    BY <1>1, <1>4 DEF Pending
  <2> QED
    BY <1>1, <2>1 DEF QueueInv, RecordTruthful
<1> QED
  BY <1>6, <1>7, <1>8, <1>9, <1>10 DEF QueueInv

-----------------------------------------------------------------------------

LEMMA QueueStep == QueueInv /\ [QueueNext]_queueVars => QueueInv'
<1> SUFFICES ASSUME QueueInv, [QueueNext]_queueVars PROVE QueueInv'
  OBVIOUS
<1>1. ASSUME NEW c \in Calls, CallNext(c) PROVE QueueInv'
  BY <1>1, AddJobStep, OperatorStep, RecordCallStep, CallLostStep DEF CallNext
<1>2. ASSUME NEW j \in Ids, WorkerNext(j) PROVE QueueInv'
  BY <1>2, WorkerStep
<1>3. ASSUME UNCHANGED <<queue, tries, record, handler, call, worked, behind, faults>>,
             paused' \in BOOLEAN, calls' \in 0..MaxCalls
      PROVE  QueueInv'
  <2>1. \A j \in Ids : Pending(j)' = Pending(j)
    BY <1>3 DEF Pending
  <2> QED
    BY <1>3, <2>1 DEF QueueInv, JobQueueTypeOK, CompletedMeansDone, Honest, CallsTell,
       HandlersTell, RecordComing, RecordTruthful
<1>4. ASSUME NEW p \in BOOLEAN, Pause(p) PROVE QueueInv'
  BY <1>3, <1>4, QueueAssumption DEF Pause, QueueInv, JobQueueTypeOK
<1>5. CASE UNCHANGED queueVars
  BY <1>3, <1>5 DEF queueVars, QueueInv, JobQueueTypeOK
<1> QED
  BY <1>1, <1>2, <1>4, <1>5 DEF QueueNext

LEMMA QueueInvariant == QueueSpec => []QueueInv
  BY QueueStart, QueueStep, PTL DEF QueueSpec

\* Neither the queue nor a record calls a job completed whose work was not done,
\* for any number of jobs, calls, retries, restarts and failed statements.
THEOREM Completed == QueueSpec => []CompletedMeansDone
<1>1. QueueInv => CompletedMeansDone
  BY DEF QueueInv
<1> QED
  BY <1>1, QueueInvariant, PTL

\* A job nobody works on is where its record says, unless it is marked as behind.
THEOREM Truthful == QueueSpec => []RecordTruthful
<1>1. QueueInv => RecordTruthful
  BY DEF QueueInv
<1> QED
  BY <1>1, QueueInvariant, PTL

\* The queue and its records tell the same story (addJob, retryFailed,
\* removeFailed and the worker's recordJob).
THEOREM QueueAndRecords == QueueSpec => []QueueConsistent
<1>1. QueueInv => QueueConsistent
  BY DEF QueueInv, QueueConsistent
<1> QED
  BY <1>1, QueueInvariant, PTL

-----------------------------------------------------------------------------
(* Coding. *)

Steps == {"idle", "count", "save", "judge", "version", "evaluation", "update",
          "complete", "answer", "match"}
Judge == {"judge", "version", "evaluation", "update", "complete", "answer"}
SubStatuses == {"NONE", "QUEUED", "PARTIALLY_ACCEPTED"} \cup {src.status : src \in Sources}

ServingRow == [pc : Steps, user : Users \cup {None}, sub : Nat, job : Nat, final : BOOLEAN,
               source : Sources \cup {None}, cases : SUBSET TestCases, version : Nat,
               pairs : SUBSET (Subs \X Subs)]
SubRow == [owner : Users \cup {None}, source : Sources \cup {None}, final : BOOLEAN,
           status : SubStatuses, score : 0..Marks, tests : Nat, latest : {0} \cup JobIds,
           review : {"NOT_REQUIRED", "HELD", "RELEASED", "OVERRIDDEN"},
           by : Users \cup {None}, override : Int]
RunnerRow == [sub : {0} \cup Subs, college : Colleges \cup {None},
              status : {"NONE", "RUNNING", "COMPLETED", "CANCELLED"}, by : Users \cup {None}]
EvalRow == [sub : Subs, version : Nat, job : JobIds, score : 0..Marks,
            cases : SUBSET TestCases, staff : BOOLEAN]
MatchRow == [a : Subs, b : Subs, by : Users \cup {None},
             status : {"UNREVIEWED", "CLEARED", "CONFIRMED", "SUSPICIOUS"}]
PlagRow == [college : Colleges \cup {None}, status : {"NONE", "RUNNING", "COMPLETED"},
            compared : SUBSET Subs, matches : Nat]

CodingRows ==
    /\ serving \in [Requests -> ServingRow] /\ sub \in [Subs -> SubRow]
    /\ runner \in [JobIds -> RunnerRow] /\ evals \subseteq EvalRow /\ IsFiniteSet(evals)
    /\ answer \in [Students -> {0} \cup Subs] /\ match \subseteq MatchRow
    /\ plag \in PlagRow
    /\ room \in [Students -> Int] /\ open \subseteq Students

\* Numbers are used up from below, and only rows that are there are spoken of.
Used(i) == sub[i].owner # None
SubsInOrder ==
    /\ \A i \in Subs : Used(i) => sub[i].owner \in Students /\ sub[i].source \in Sources
    /\ \A i \in Subs : ~Used(i) => sub[i] = NoSub
    /\ \A i, k \in Subs : Used(i) /\ k < i => Used(k)
    /\ \A e \in evals : Used(e.sub)

\* What a request knows of the submission it judges ...
Knows(v) ==
    /\ v.pc = "idle" => v = NoReq
    /\ v.pc \in {"count", "save"} => v.user \in Students /\ v.source \in Sources
    /\ v.pc \notin Judge => v.sub = 0
    /\ v.pc \in Judge =>
         /\ v.sub \in Subs /\ v.user \in Users
         /\ Used(v.sub) /\ v.source = sub[v.sub].source /\ RunnerUsable
         /\ v.user \in Students => /\ v.user = sub[v.sub].owner /\ v.final = sub[v.sub].final
                                   /\ v.cases = CasesOf(v.final)
         /\ v.user \notin Students => v.final
    /\ v.pc \notin Judge \ {"judge"} => v.job = 0
    /\ v.pc \in Judge \ {"judge"} => /\ v.job \in JobIds /\ runner[v.job].sub = v.sub
                                     /\ runner[v.job].status # "NONE"
    /\ v.pc = "answer" => /\ v.final /\ v.user \in Students
                          /\ runner[v.job].status # "RUNNING"
    /\ v.final => v.pc # "match"
    /\ v.user = None => v.pc = "idle"

\* ... of its evaluations ...
Of(i) == {e \in evals : e.sub = i}
Written(v, e) == /\ e.sub = v.sub /\ e.version = v.version /\ e.job = v.job
                 /\ e.score = Earned(v.source, v.cases) /\ e.cases = v.cases
Counts(v) ==
    /\ v.pc = "evaluation" => v.version \in 1..(Cardinality(Of(v.sub)) + 1)
    /\ v.pc = "update" => /\ \E e \in evals : Written(v, e)
                          /\ v.sub \notin torn => v.version = Cardinality(Of(v.sub))

\* ... and of the others.
Apart(v, w) ==
    /\ v.job # 0 => v.job # w.job
    /\ v.sub # 0 /\ v.sub = w.sub /\ v.pc # "answer" /\ w.pc # "answer" => v.sub \in torn
    /\ v.user = w.user /\ v.user \in Students /\ v.final /\ w.final => v.user \in overlapped
    /\ v.pc = "match" => w.pc # "match"

\* The evaluations of a submission are numbered one after the other.
Numbered ==
    /\ Versions
    /\ \A d, e \in evals : d.sub = e.sub /\ d.version = e.version => d = e

\* What a submission shows is its newest evaluation, or what staff made of it,
\* but for the moment between the evaluation and the update.
Fits(i, e) == /\ sub[i].latest = e.job /\ sub[i].tests = Cardinality(e.cases)
              /\ sub[i].score \in {e.score, sub[i].override}
Shows == \A i \in Subs : i \notin torn /\ (\A r \in Judging(i) : ~At(r, "update")) =>
    \A e \in Of(i) : e.version = Cardinality(Of(i)) => Fits(i, e)

\* The answer is a final submission of the student, and the newest whose submit
\* has ended; a submit under way has the newest of all.
Ended(s) == {i \in Subs : sub[i].owner = s /\ sub[i].final /\ i \notin torn
                 /\ ~\E r \in Requests : serving[r].user = s /\ serving[r].sub = i}
Answers ==
    /\ \A s \in Students : answer[s] # 0 => Used(answer[s]) /\ sub[answer[s]].owner = s
                                            /\ sub[answer[s]].final
    /\ RunnerUsable => \A s \in Students \ overlapped : \A i \in Ended(s) : i <= answer[s]
    /\ ~RunnerUsable => \A i \in Subs : sub[i].latest = 0
    /\ \A r \in Requests : serving[r].user \in Students \ overlapped /\ serving[r].sub # 0
          /\ serving[r].final => \A i \in Subs : sub[i].owner = serving[r].user
                                  /\ sub[i].final => i <= serving[r].sub

Rooms == \A s \in Students \ open : room[s] >= Cardinality(InFlight(s))

\* The rows of a comparison and the pairs to come are the pairs that match.
Recorded == {<<p.a, p.b>> : p \in match}
Compared ==
    /\ plag = NoPlag => match = {} /\ \A r \in Requests : ~At(r, "match")
    /\ plag.compared \subseteq Subs /\ \A i \in plag.compared : Used(i)
    /\ \A p, q \in match : p.a = q.a /\ p.b = q.b => p = q
    /\ plag # NoPlag => /\ plag.matches = Cardinality(Matching(plag.compared))
                        /\ Recorded \subseteq Matching(plag.compared)
    /\ \A r \in Requests : At(r, "match") =>
         /\ plag.status = "RUNNING"
         /\ serving[r].pairs = Matching(plag.compared) \ Recorded
    /\ plag.status = "COMPLETED" => Recorded = Matching(plag.compared)
    /\ plag.status = "NONE" <=> plag = NoPlag

CodingInv ==
    /\ CodingRows /\ SubsInOrder
    /\ \A r \in Requests : Knows(serving[r]) /\ Counts(serving[r])
    /\ \A r, q \in Requests : r # q => Apart(serving[r], serving[q])
    /\ Numbered /\ Shows /\ Answers /\ Rooms /\ Compared
    /\ JobAccounted /\ HiddenOnlyFinal

-----------------------------------------------------------------------------
(* Scores, roles and rows. *)

LEMMA WeightNat ==
  ASSUME NEW T \in SUBSET TestCases
  PROVE  Weight(T) \in Nat
<1> DEFINE m == [t \in TestCases |-> t.weight]
<1>1. IsFiniteSet(T) /\ \A t \in T : m[t] \in Nat
  BY CodingAssumption, FS_Subset
<1>2. \A t \in T : m[t] = t.weight
  OBVIOUS
<1> HIDE DEF m
<1>3. PICK h \in [SUBSET T -> Nat] : Sums(h, m, T)
  BY <1>1, SumsExist
<1>4. ASSUME NEW s \in SUBSET T, s # {} PROVE m[Elt(s)] = Elt(s).weight
  BY <1>2, <1>4, EltOf
<1>5. h = [s \in SUBSET T |-> IF s = {} THEN 0 ELSE Elt(s).weight + h[s \ {Elt(s)}]]
  <2>1. ASSUME NEW s \in SUBSET T
        PROVE  h[s] = IF s = {} THEN 0 ELSE Elt(s).weight + h[s \ {Elt(s)}]
    BY <1>3, <1>4 DEF Sums
  <2> QED
    BY <1>3, <2>1
<1>6. ASSUME NEW g,
             g = [s \in SUBSET T |-> IF s = {} THEN 0 ELSE Elt(s).weight + g[s \ {Elt(s)}]]
      PROVE  g[T] = h[T]
  <2>1. Sums(g, m, T)
    <3>1. \A s \in SUBSET T : s # {} => g[s] = m[Elt(s)] + g[s \ {Elt(s)}]
      BY <1>4, <1>6
    <3>2. g = [s \in SUBSET T |-> g[s]] /\ g[{}] = 0
      BY <1>6
    <3> QED
      BY <3>1, <3>2 DEF Sums
  <2>2. T \in SUBSET T /\ \A x \in T : m[x] = m[x]
    OBVIOUS
  <2> QED
    BY <1>1, <1>3, <2>1, <2>2, SumsUnique
<1>7. Weight(T) = h[T]
  BY <1>5, <1>6 DEF Weight, MapThenSumSet, MapThenFoldSet, Elt
<1> QED
  BY <1>3, <1>7

\* A share of the marks is at most the marks.
LEMMA EarnedIn ==
  ASSUME NEW src, NEW T \in SUBSET TestCases
  PROVE  Earned(src, T) \in 0..Marks
<1>1. Weight(T) \in Nat /\ Marks \in Nat
  BY WeightNat, CodingAssumption
<1>2. ASSUME NEW w \in Nat, NEW m \in Nat
      PROVE  (m * w) \div (IF w = 0 THEN 1 ELSE w) \in 0..m
  <2>1. CASE w = 0
    BY <2>1
  <2>2. CASE w # 0
    <3>1. (m * w) \div w = m
      BY <2>2, SMT
    <3> QED
      BY <2>2, <3>1
  <2> QED
    BY <2>1, <2>2
<1>3. (Marks * Weight(T)) \div (IF Weight(T) = 0 THEN 1 ELSE Weight(T)) \in 0..Marks
  BY <1>1, <1>2
<1> QED
  BY <1>1, <1>3 DEF Earned

LEMMA CasesIn ==
  ASSUME NEW final PROVE CasesOf(final) \in SUBSET TestCases
  BY DEF CasesOf, PublicCases

LEMMA CardinalNat ==
  /\ \A T \in SUBSET TestCases : Cardinality(T) \in Nat
  /\ \A R \in SUBSET Requests : IsFiniteSet(R) /\ Cardinality(R) \in Nat
  BY CodingAssumption, FS_Subset, FS_CardinalityType

\* Only students run and submit, and only others have them judged again.
LEMMA StudentOnly ==
  ASSUME NEW u \in Users
  PROVE  /\ RoleAdmitted(CodingRoutes["rejudge"], UserRole[u]) => u \notin Students
         /\ u \in Students <=> UserRole[u] = "STUDENT"
<1>1. CodingRoutes["rejudge"] = StaffRoles
  <2> DEFINE A == Route({"runCode", "submitCode", "studentSubmissions"}, {"STUDENT"})
             B == Route({"job", "cancelJob"}, Roles)
             C == Route({"rejudge", "hold", "release", "manualScore", "rejudgeAssessment",
                         "createPlagiarismJob", "reviewPlagiarism", "codingAnalytics"}, StaffRoles)
  <2>1. /\ "rejudge" \notin DOMAIN A /\ "rejudge" \notin DOMAIN B /\ "rejudge" \in DOMAIN C
        /\ C["rejudge"] = StaffRoles
    BY DEF Route
  <2>2. CodingRoutes = Together({A, B, C})
    BY DEF CodingRoutes
  <2> HIDE DEF A, B, C
  <2>3. {t \in {A, B, C} : "rejudge" \in DOMAIN t} = {C}
    BY <2>1
  <2>4. "rejudge" \in UNION {DOMAIN t : t \in {A, B, C}}
    BY <2>1
  <2>5. UNION {t["rejudge"] : t \in {C}} = StaffRoles
    BY <2>1
  <2> QED
    BY <2>2, <2>3, <2>4, <2>5 DEF Together
<1>2. StaffRoles # {} /\ "STUDENT" \notin StaffRoles
  BY DEF StaffRoles, AdminRoles
<1> QED
  BY <1>1, <1>2 DEF RoleAdmitted, Students

LEMMA Numbers == /\ Marks \in Nat /\ MaxSubs \in Nat /\ MaxJobs \in Nat /\ MaxRequests \in Nat
                 /\ None \notin Users /\ Students \subseteq Users
                 /\ Subs = 1..MaxSubs /\ JobIds = 1..MaxJobs /\ 0 \notin Subs /\ 0 \notin JobIds
  BY CodingAssumption DEF Subs, JobIds, Students

\* A free row is above all rows that are used.
LEMMA FreshSub ==
  ASSUME CodingRows, SubsInOrder, NEW i \in Fresh(sub, NoSub, Subs)
  PROVE  i \in Subs /\ ~Used(i) /\ \A k \in Subs : Used(k) => k < i
<1>1. i \in Subs /\ sub[i] = NoSub /\ ~Used(i)
  BY DEF Fresh, Used, NoSub
<1>2. ASSUME NEW k \in Subs, Used(k) PROVE k < i
  BY <1>1, <1>2, Numbers DEF SubsInOrder
<1> QED
  BY <1>1, <1>2

-----------------------------------------------------------------------------
(* What a step leaves of the invariant. *)

\* The row of a request is replaced by v.
Moves(r, v) == serving' = [serving EXCEPT ![r] = v]

LEMMA MovesOne ==
  ASSUME CodingRows, NEW r \in Requests, NEW v \in ServingRow, Moves(r, v)
  PROVE  /\ serving' \in [Requests -> ServingRow] /\ serving'[r] = v
         /\ \A q \in Requests : q # r => serving'[q] = serving[q]
  BY DEF Moves, CodingRows

\* What requests know is kept while submissions keep their owner, source and
\* kind, and jobs their submission.
JobsStay == \A j \in JobIds : runner[j].status # "NONE" =>
    /\ runner'[j].sub = runner[j].sub /\ runner'[j].status # "NONE"
    /\ runner[j].status # "RUNNING" => runner'[j].status # "RUNNING"
SubsStay == \A i \in Subs : Used(i) =>
    /\ sub'[i].owner = sub[i].owner /\ sub'[i].source = sub[i].source
    /\ sub'[i].final = sub[i].final

LEMMA KnowsStays ==
  ASSUME CodingRows, env' = env, JobsStay, SubsStay, NEW v \in ServingRow, Knows(v)
  PROVE  Knows(v)'
<1>1. v.pc \in Judge => Used(v.sub)'
  BY DEF Knows, SubsStay, Used
<1>2. RunnerUsable' <=> RunnerUsable
  BY DEF RunnerUsable
<1>3. v.pc \in Judge => /\ v.sub \in Subs /\ Used(v.sub) /\ sub'[v.sub].owner = sub[v.sub].owner
                        /\ sub'[v.sub].source = sub[v.sub].source
                        /\ sub'[v.sub].final = sub[v.sub].final
  BY DEF Knows, SubsStay
<1>4. v.pc \in Judge \ {"judge"} =>
        /\ v.job \in JobIds /\ runner'[v.job].sub = v.sub /\ runner'[v.job].status # "NONE"
        /\ runner[v.job].status # "RUNNING" => runner'[v.job].status # "RUNNING"
  BY DEF Knows, JobsStay
<1> QED
  BY <1>1, <1>2, <1>3, <1>4 DEF Knows, Judge

LEMMA CountsStays ==
  ASSUME evals' = evals, torn \subseteq torn', NEW v \in ServingRow, Counts(v)
  PROVE  Counts(v)'
<1>1. Of(v.sub)' = Of(v.sub)
  BY DEF Of
<1> QED
  BY <1>1 DEF Counts, Written

LEMMA ApartStays ==
  ASSUME torn \subseteq torn', overlapped \subseteq overlapped', NEW v, NEW w, Apart(v, w)
  PROVE  Apart(v, w)'
  BY DEF Apart

LEMMA OthersCount ==
  ASSUME CodingInv, evals' = evals, torn \subseteq torn', NEW r \in Requests
  PROVE  \A w \in {serving[q] : q \in Requests \ {r}} : Counts(w)'
  BY CountsStays DEF CodingInv, CodingRows

\* One request moves, and the others know what they knew.
LEMMA OthersKnow ==
  ASSUME CodingInv, NEW r \in Requests, NEW v \in ServingRow, Moves(r, v),
         env' = env, JobsStay, SubsStay,
         torn \subseteq torn', overlapped \subseteq overlapped',
         Knows(v)', Counts(v)',
         \A w \in {serving[q] : q \in Requests \ {r}} :
             Apart(v, w)' /\ Apart(w, v)' /\ Counts(w)'
  PROVE  /\ \A q \in Requests : Knows(serving[q])' /\ Counts(serving[q])'
         /\ \A q, s \in Requests : q # s => Apart(serving[q], serving[s])'
<1> USE DEF CodingInv
<1>1. /\ serving'[r] = v /\ serving \in [Requests -> ServingRow]
      /\ \A q \in Requests : q # r => serving'[q] = serving[q]
  BY MovesOne DEF CodingRows
<1>2. ASSUME NEW q \in Requests PROVE Knows(serving[q])' /\ Counts(serving[q])'
  <2>1. ASSUME NEW w, w = serving[q], q # r PROVE Knows(w)' /\ Counts(w)'
    BY <1>1, <2>1, KnowsStays
  <2>2. PICK w : w = serving'[q]
    OBVIOUS
  <2>3. Knows(w)' /\ Counts(w)'
    BY <1>1, <2>1, <2>2
  <2> QED
    BY <2>2, <2>3 DEF Knows, Counts, Written, Used, Of
<1>3. ASSUME NEW q \in Requests, NEW s \in Requests, q # s
      PROVE  Apart(serving[q], serving[s])'
  <2>1. PICK w, x : w = serving'[q] /\ x = serving'[s]
    OBVIOUS
  <2>2. q # r /\ s # r => Apart(w, x)'
    BY <1>1, <1>3, <2>1, ApartStays
  <2>3. Apart(w, x)'
    BY <1>1, <1>3, <2>1, <2>2
  <2> QED
    BY <2>1, <2>3 DEF Apart
<1> QED
  BY <1>2, <1>3

LEMMA NumberedStays ==
  ASSUME Numbered, evals' = evals PROVE Numbered'
<1>1. Versions'
  BY DEF Numbered, Versions
<1> QED
  BY <1>1 DEF Numbered

\* Rows keep their owner, source and kind; and what they show of the judging.
SubsAlike == \A i \in Subs :
    /\ sub'[i].owner = sub[i].owner /\ sub'[i].source = sub[i].source
    /\ sub'[i].final = sub[i].final
ScoresAlike == \A i \in Subs :
    /\ sub'[i].latest = sub[i].latest /\ sub'[i].tests = sub[i].tests
    /\ sub'[i].score = sub[i].score /\ sub'[i].override = sub[i].override

LEMMA ShowsStays ==
  ASSUME Shows, SubsAlike, ScoresAlike, evals' = evals, torn \subseteq torn',
         \A q \in Requests : At(q, "update") => serving'[q] = serving[q]
  PROVE  Shows'
<1> SUFFICES ASSUME NEW i \in Subs, i \notin torn', \A r \in Judging(i)' : ~At(r, "update")',
                    NEW e \in Of(i), e.version = Cardinality(Of(i))
             PROVE  Fits(i, e)'
  <2>1. \A i \in Subs : Of(i)' = Of(i)
    BY DEF Of
  <2> QED
    BY <2>1 DEF Shows
<1>1. \A r \in Judging(i) : ~At(r, "update")
  BY DEF Judging, At
<1>2. Fits(i, e)
  BY <1>1 DEF Shows
<1> QED
  BY <1>2 DEF Fits, SubsAlike, ScoresAlike

LEMMA AnswersStays ==
  ASSUME Answers, CodingRows, SubsAlike, answer' = answer, env' = env, torn \subseteq torn',
         overlapped \subseteq overlapped',
         RunnerUsable \/ \A i \in Subs : sub'[i].latest = sub[i].latest,
         \A q \in Requests : serving[q].sub # 0 /\ serving[q].user \in Students =>
             \/ serving'[q].user = serving[q].user /\ serving'[q].sub = serving[q].sub
             \/ serving[q].sub \in torn' \/ ~sub[serving[q].sub].final,
         \A q \in Requests : serving'[q].user \in Students \ overlapped'
               /\ serving'[q].sub # 0 /\ serving'[q].final =>
             /\ serving[q].user = serving'[q].user /\ serving[q].sub = serving'[q].sub
             /\ serving[q].final
  PROVE  Answers'
<1>1. RunnerUsable' <=> RunnerUsable
  BY DEF RunnerUsable
<1>2. ASSUME NEW s \in Students, answer[s] # 0
      PROVE  Used(answer[s])' /\ sub'[answer[s]].owner = s /\ sub'[answer[s]].final
  <2>1. answer[s] \in Subs /\ Used(answer[s]) /\ sub[answer[s]].owner = s
        /\ sub[answer[s]].final
    BY <1>2 DEF Answers, CodingRows
  <2> QED
    BY <2>1 DEF SubsAlike, Used
<1>3. ASSUME NEW s \in Students, NEW i \in Ended(s)' PROVE i \in Ended(s)
  <2>1. /\ i \in Subs /\ sub[i].owner = s /\ sub[i].final /\ i \notin torn'
        /\ ~\E r \in Requests : serving'[r].user = s /\ serving'[r].sub = i
    BY <1>3 DEF Ended, SubsAlike
  <2>2. ASSUME NEW r \in Requests, serving[r].user = s, serving[r].sub = i PROVE FALSE
    BY <2>1, <2>2, Numbers
  <2> QED
    BY <2>1, <2>2 DEF Ended
<1>4. ASSUME NEW r \in Requests, serving'[r].user \in Students \ overlapped',
             serving'[r].sub # 0, serving'[r].final,
             NEW i \in Subs, sub'[i].owner = serving'[r].user, sub'[i].final
      PROVE  i <= serving'[r].sub
  <2>1. serving[r].user \in Students \ overlapped /\ serving[r].sub # 0 /\ serving[r].final
        /\ sub[i].owner = serving[r].user /\ sub[i].final
    BY <1>4 DEF SubsAlike
  <2>2. i <= serving[r].sub
    BY <2>1 DEF Answers
  <2> QED
    BY <1>4, <2>2
<1>5. ~RunnerUsable => \A i \in Subs : sub'[i].latest = 0
  BY DEF Answers, SubsAlike
<1>6. RunnerUsable => \A s \in Students \ overlapped' : \A i \in Ended(s)' : i <= answer[s]
  BY <1>3 DEF Answers
<1> QED
  BY <1>1, <1>2, <1>4, <1>5, <1>6 DEF Answers

LEMMA RoomsStays ==
  ASSUME Rooms, room' = room, open' = open, CodingRows,
         \A s \in Students \ open : InFlight(s)' \subseteq InFlight(s)
  PROVE  Rooms'
<1> SUFFICES ASSUME NEW s \in Students \ open PROVE room[s] >= Cardinality(InFlight(s)')
  BY DEF Rooms
<1>1. room[s] \in Int /\ room[s] >= Cardinality(InFlight(s))
  BY DEF Rooms, CodingRows
<1>2. InFlight(s) \in SUBSET Requests /\ InFlight(s)' \in SUBSET Requests
  BY DEF InFlight
<1>3. /\ IsFiniteSet(InFlight(s)) /\ Cardinality(InFlight(s)) \in Nat
      /\ Cardinality(InFlight(s)') \in Nat
      /\ Cardinality(InFlight(s)') <= Cardinality(InFlight(s))
  BY <1>2, CardinalNat, FS_Subset
<1> QED
  BY <1>1, <1>3

LEMMA MatchingStays ==
  ASSUME NEW C \in SUBSET Subs, \A i \in C : sub'[i].source = sub[i].source
  PROVE  Matching(C)' = Matching(C)
  BY DEF Matching

LEMMA ComparedStays ==
  ASSUME Compared, plag' = plag, match' = match, SubsStay,
         \A q \in Requests : At(q, "match")' => serving'[q] = serving[q]
  PROVE  Compared'
<1> DEFINE C == plag.compared
<1>1. Matching(C)' = Matching(C)
  BY MatchingStays DEF Compared, SubsStay
<1>2. \A i \in C : Used(i)'
  BY DEF Compared, SubsStay, Used
<1>3. Recorded' = Recorded
  BY DEF Recorded
<1>4. \A q \in Requests : At(q, "match")' => At(q, "match")
  BY DEF At
<1> QED
  BY <1>1, <1>2, <1>3, <1>4 DEF Compared, At

LEMMA JobAccountedStays ==
  ASSUME JobAccounted, torn \subseteq torn',
         \A j \in JobIds : runner'[j].status = "RUNNING" =>
             runner[j].status = "RUNNING" /\ runner'[j].sub = runner[j].sub,
         \A q \in Requests : serving[q].job \in JobIds =>
             \/ serving'[q].job = serving[q].job
             \/ runner'[serving[q].job].status # "RUNNING"
             \/ runner[serving[q].job].sub \in torn'
  PROVE  JobAccounted'
  BY DEF JobAccounted

LEMMA HiddenStays ==
  ASSUME HiddenOnlyFinal, CodingRows, SubsStay, SubsInOrder, evals' = evals
  PROVE  HiddenOnlyFinal'
  BY DEF HiddenOnlyFinal, SubsStay, SubsInOrder, CodingRows, EvalRow

LEMMA SubsInOrderStays ==
  ASSUME SubsInOrder, SubsAlike, evals' = evals, CodingRows, \A i \in Subs : ~Used(i) => sub'[i] = sub[i]
  PROVE  SubsInOrder'
  BY DEF SubsInOrder, SubsAlike, Used, CodingRows, EvalRow

-----------------------------------------------------------------------------
(* Steps that leave the rows alone. *)

LEMMA CodingStarts == CodingInit => CodingInv
<1> SUFFICES ASSUME CodingInit PROVE CodingInv
  OBVIOUS
<1> USE DEF CodingInit
<1>1. NoReq \in ServingRow
  BY DEF NoReq, ServingRow, Steps
<1>2. NoSub \in SubRow /\ NoJob \in RunnerRow /\ NoPlag \in PlagRow
  BY Numbers DEF NoPlag, PlagRow, NoSub, SubRow, NoJob, RunnerRow, SubStatuses
<1>3. CodingRows
  BY <1>1, <1>2, FS_EmptySet DEF CodingRows
<1>4. SubsInOrder /\ \A i \in Subs : ~Used(i)
  BY DEF SubsInOrder, Used, NoSub
<1>5. \A r \in Requests : Knows(serving[r]) /\ Counts(serving[r])
  BY Numbers DEF Knows, Counts, NoReq, Judge
<1>6. \A r, q \in Requests : r # q => Apart(serving[r], serving[q])
  BY Numbers DEF Apart, NoReq
<1>7. Numbered /\ Shows
  <2>1. \A i \in Subs : {e \in evals : e.sub = i} = {}
    OBVIOUS
  <2>2. {e.version : e \in {}} = 1..Cardinality({})
    BY FS_EmptySet
  <2>3. Versions
    BY <2>1, <2>2 DEF Versions
  <2> QED
    BY <2>1, <2>3 DEF Numbered, Shows, Of
<1>8. Answers
  BY <1>4, Numbers DEF Answers, Ended, NoReq, NoSub
<1>9. Rooms
  BY DEF Rooms
<1>10. Compared
  <2>1. Recorded = {} /\ plag.compared = {} /\ plag.status = "NONE"
    BY DEF Recorded, NoPlag
  <2> QED
    BY <2>1 DEF Compared, At, NoReq
<1>11. JobAccounted /\ HiddenOnlyFinal
  BY DEF JobAccounted, HiddenOnlyFinal, NoJob
<1> QED
  BY <1>3, <1>4, <1>5, <1>6, <1>7, <1>8, <1>9, <1>10, <1>11 DEF CodingInv

\* A request moves, and no row changes but those of a comparison.
LEMMA RequestCompares ==
  ASSUME CodingInv, NEW r \in Requests, NEW v \in ServingRow, Moves(r, v),
         env' = env, sub' = sub, evals' = evals, runner' = runner, answer' = answer,
         open' = open, room' = room, match' \subseteq MatchRow,
         plag' \in PlagRow, Compared',
         torn \subseteq torn', overlapped \subseteq overlapped',
         Knows(v)', Counts(v)',
         \A w \in {serving[q] : q \in Requests \ {r}} : Apart(v, w)' /\ Apart(w, v)',
         serving[r].pc # "update",
         v.pc \in {"count", "save"} =>
             \/ v.user \in open
             \/ serving[r].pc \in {"count", "save"} /\ v.user = serving[r].user,
         \/ v.user = serving[r].user /\ v.sub = serving[r].sub /\ v.final = serving[r].final
         \/ v.sub = 0 /\ serving[r].sub = 0
         \/ serving[r].sub = 0 /\ v.user \notin Students,
         v.job = serving[r].job
  PROVE  CodingInv'
<1>1. /\ serving' \in [Requests -> ServingRow] /\ serving'[r] = v
      /\ \A q \in Requests : q # r => serving'[q] = serving[q]
  BY MovesOne DEF CodingInv
<1>2. JobsStay /\ SubsStay /\ SubsAlike /\ ScoresAlike
      /\ \A i \in Subs : sub'[i].latest = sub[i].latest
  BY DEF JobsStay, SubsStay, SubsAlike, ScoresAlike
<1>3. CodingRows'
  BY <1>1, <1>2 DEF CodingInv, CodingRows
<1>4. SubsInOrder'
  BY <1>2, SubsInOrderStays DEF CodingInv
<1>5. /\ \A q \in Requests : Knows(serving[q])' /\ Counts(serving[q])'
      /\ \A q, s \in Requests : q # s => Apart(serving[q], serving[s])'
  BY <1>2, OthersKnow, OthersCount
<1>6. Numbered' /\ HiddenOnlyFinal'
  BY <1>2, NumberedStays, HiddenStays DEF CodingInv
<1>7. Shows'
  <2>1. \A q \in Requests : At(q, "update") => serving'[q] = serving[q]
    BY <1>1 DEF At
  <2> QED
    BY <1>2, <2>1, ShowsStays DEF CodingInv
<1>8. Answers'
  <2>1. \A q \in Requests : serving[q].sub # 0 /\ serving[q].user \in Students =>
             serving'[q].user = serving[q].user /\ serving'[q].sub = serving[q].sub
    BY <1>1
  <2>2. \A q \in Requests : serving'[q].user \in Students \ overlapped'
               /\ serving'[q].sub # 0 /\ serving'[q].final =>
             /\ serving[q].user = serving'[q].user /\ serving[q].sub = serving'[q].sub
             /\ serving[q].final
    BY <1>1
  <2> QED
    BY <1>2, <2>1, <2>2, AnswersStays DEF CodingInv
<1>9. Rooms'
  <2>1. \A s \in Students \ open : InFlight(s)' \subseteq InFlight(s)
    BY <1>1 DEF InFlight
  <2> QED
    BY <2>1, RoomsStays DEF CodingInv
<1>11. JobAccounted'
  <2>1. \A q \in Requests : serving'[q].job = serving[q].job
    BY <1>1
  <2> QED
    BY <1>2, <2>1, JobAccountedStays DEF CodingInv
<1> QED
  BY <1>3, <1>4, <1>5, <1>6, <1>7, <1>8, <1>9, <1>11 DEF CodingInv

\* A request moves, and no row changes.
LEMMA RequestMoves ==
  ASSUME CodingInv, NEW r \in Requests, NEW v \in ServingRow, Moves(r, v),
         env' = env, UNCHANGED rows, open' = open, room' = room,
         v.pc # "match",
         torn \subseteq torn', overlapped \subseteq overlapped',
         Knows(v)', Counts(v)',
         \A w \in {serving[q] : q \in Requests \ {r}} : Apart(v, w)' /\ Apart(w, v)',
         serving[r].pc # "update",
         v.pc \in {"count", "save"} =>
             \/ v.user \in open
             \/ serving[r].pc \in {"count", "save"} /\ v.user = serving[r].user,
         \/ v.user = serving[r].user /\ v.sub = serving[r].sub /\ v.final = serving[r].final
         \/ v.sub = 0 /\ serving[r].sub = 0
         \/ serving[r].sub = 0 /\ v.user \notin Students,
         v.job = serving[r].job
  PROVE  CodingInv'
<1>1. \A q \in Requests : At(q, "match")' => serving'[q] = serving[q]
  BY MovesOne DEF At, CodingInv
<1>2. SubsStay /\ plag' = plag /\ match' = match
  BY DEF rows, SubsStay
<1>3. Compared' /\ match' \subseteq MatchRow /\ plag' \in PlagRow
  BY <1>1, <1>2, ComparedStays DEF CodingInv, CodingRows
<1> QED
  BY <1>3, RequestCompares DEF rows

\* Nobody moves, and everybody knows what they knew.
LEMMA SameKnown ==
  ASSUME CodingInv, env' = env, serving' = serving, evals' = evals, torn' = torn,
         overlapped' = overlapped, JobsStay, SubsStay
  PROVE  /\ \A q \in Requests : Knows(serving[q])' /\ Counts(serving[q])'
         /\ \A q, s \in Requests : q # s => Apart(serving[q], serving[s])'
<1>1. ASSUME NEW q \in Requests PROVE Knows(serving[q])' /\ Counts(serving[q])'
  <2>1. PICK w : w = serving[q]
    OBVIOUS
  <2>2. w \in ServingRow /\ Knows(w) /\ Counts(w)
    BY <2>1 DEF CodingInv, CodingRows
  <2>3. Knows(w)' /\ Counts(w)'
    BY <2>2, KnowsStays, CountsStays DEF CodingInv
  <2> QED
    BY <2>1, <2>3 DEF Knows, Counts, Written, Used, Of
<1>2. \A q, s \in Requests : q # s => Apart(serving[q], serving[s])'
  BY DEF CodingInv, Apart
<1> QED
  BY <1>1, <1>2

\* Rows change, and no request moves.
LEMMA RowsMove ==
  ASSUME CodingInv, env' = env, serving' = serving, evals' = evals, answer' = answer,
         plag' = plag, open' = open, torn' = torn, overlapped' = overlapped,
         JobsStay, SubsAlike, \A i \in Subs : ~Used(i) => sub'[i] = sub[i],
         sub' \in [Subs -> SubRow], runner' \in [JobIds -> RunnerRow],
         match' \subseteq MatchRow, room' \in [Students -> Int],
         \A j \in JobIds : runner'[j].status = "RUNNING" =>
             runner[j].status = "RUNNING" /\ runner'[j].sub = runner[j].sub,
         \A i \in Subs : sub'[i].latest = sub[i].latest,
         Shows', Compared', Rooms'
  PROVE  CodingInv'
<1>1. SubsStay
  BY DEF SubsAlike, SubsStay
<1>2. CodingRows'
  BY DEF CodingInv, CodingRows
<1>3. SubsInOrder'
  BY SubsInOrderStays DEF CodingInv
<1>4. /\ \A q \in Requests : Knows(serving[q])' /\ Counts(serving[q])'
      /\ \A q, s \in Requests : q # s => Apart(serving[q], serving[s])'
  BY <1>1, SameKnown
<1>6. Numbered' /\ HiddenOnlyFinal'
  BY <1>1, NumberedStays, HiddenStays DEF CodingInv
<1>7. Answers'
  <2>1. \A q \in Requests : serving'[q] = serving[q]
    OBVIOUS
  <2> QED
    BY <2>1, AnswersStays DEF CodingInv
<1>8. JobAccounted'
  BY JobAccountedStays DEF CodingInv
<1> QED
  BY <1>2, <1>3, <1>4, <1>6, <1>7, <1>8 DEF CodingInv

-----------------------------------------------------------------------------
(* Requests that begin, are counted or read. *)

LEMMA BeginMoves ==
  ASSUME NEW r \in Requests, NEW u \in Users, NEW step, Begin(r, u, step)
  PROVE  serving[r].pc = "idle" /\ Moves(r, [step EXCEPT !.user = u])
  BY DEF Begin, Moves

LEMMA CodingRunOrSubmit ==
  ASSUME CodingInv, NEW r \in Requests, NEW u \in Users, u \in open, NEW src \in Sources,
         NEW final \in BOOLEAN, RunOrSubmit(r, u, src, final)
  PROVE  CodingInv'
<1> DEFINE v == [NoReq EXCEPT !.pc = "count", !.source = src, !.final = final, !.user = u]
<1>1. v \in ServingRow /\ v.pc = "count" /\ v.user = u /\ v.sub = 0 /\ v.job = 0
      /\ v.source = src /\ v.final = final
  BY DEF NoReq, ServingRow, Steps
<1>2. /\ serving[r].pc = "idle" /\ Moves(r, v) /\ env' = env /\ UNCHANGED rows
      /\ open' = open /\ room' = room /\ torn' = torn
  BY BeginMoves DEF RunOrSubmit, idleRows
<1>3. overlapped' = overlapped \cup
         {s \in {u} : final /\ \E q \in Requests : serving[q].user = u /\ serving[q].final}
  BY DEF RunOrSubmit
<1>4. u \in Students /\ u # None /\ serving[r] = NoReq
  BY <1>2, Numbers DEF CodingInv, CodingRows, Knows
<1> HIDE DEF v
<1>5. Knows(v)' /\ Counts(v)'
  BY <1>1, <1>4 DEF Knows, Counts, Judge
<1>6. \A w \in {serving[q] : q \in Requests \ {r}} : Apart(v, w)' /\ Apart(w, v)'
  <2> SUFFICES ASSUME NEW q \in Requests \ {r}, NEW w, w = serving[q]
               PROVE  Apart(v, w)' /\ Apart(w, v)'
    OBVIOUS
  <2>1. w \in ServingRow /\ Knows(w)
    BY DEF CodingInv, CodingRows
  <2>2. final /\ w.user = u /\ w.final => u \in overlapped'
    BY <1>3
  <2> QED
    BY <1>1, <2>1, <2>2 DEF Apart
<1>7. overlapped \subseteq overlapped'
  BY <1>3
<1>8. v.sub = 0 /\ serving[r].sub = 0 /\ v.job = serving[r].job /\ v.pc # "match"
  BY <1>1, <1>4 DEF NoReq
<1> QED
  BY <1>1, <1>2, <1>5, <1>6, <1>7, <1>8, RequestMoves

LEMMA NothingKnown ==
  /\ NoReq \in ServingRow
  /\ NoReq.pc = "idle" /\ NoReq.user = None /\ NoReq.sub = 0 /\ NoReq.job = 0
  /\ NoReq.final = FALSE
  /\ Knows(NoReq)' /\ Counts(NoReq)'
<1>1. NoReq \in ServingRow
  BY DEF NoReq, ServingRow, Steps
<1>2. Knows(NoReq)' /\ Counts(NoReq)'
  BY Numbers DEF Knows, Counts, NoReq, Judge
<1> QED
  BY <1>1, <1>2 DEF NoReq

\* A request that has ended is apart from every other.
LEMMA NobodyNear ==
  ASSUME CodingInv, NEW r \in Requests
  PROVE  \A w \in {serving[q] : q \in Requests \ {r}} : Apart(NoReq, w)' /\ Apart(w, NoReq)'
  BY Numbers DEF Apart, NoReq

LEMMA CodingCount ==
  ASSUME CodingInv, NEW r \in Requests, Count(r)
  PROVE  CodingInv'
<1>1. /\ serving[r].pc = "count" /\ env' = env /\ UNCHANGED rows /\ open' = open
      /\ room' = room /\ torn' = torn /\ overlapped' = overlapped
      /\ \/ Moves(r, NoReq)
         \/ Moves(r, [serving[r] EXCEPT !.pc = "save"])
  BY DEF Count, At, Finish, Continue, Moves
<1>2. serving[r] \in ServingRow /\ Knows(serving[r]) /\ serving[r].sub = 0 /\ serving[r].job = 0
  BY <1>1 DEF CodingInv, CodingRows, Knows, Judge
<1>3. CASE Moves(r, NoReq)
  BY <1>1, <1>2, <1>3, NothingKnown, NobodyNear, RequestMoves
<1>4. CASE Moves(r, [serving[r] EXCEPT !.pc = "save"])
  <2>1. PICK v : v = [serving[r] EXCEPT !.pc = "save"]
    OBVIOUS
  <2>2. /\ v \in ServingRow /\ v.pc = "save" /\ v.user = serving[r].user /\ v.sub = 0
        /\ v.job = 0 /\ v.final = serving[r].final /\ v.source = serving[r].source
    BY <1>2, <2>1 DEF ServingRow, Steps
  <2>3. Knows(v)' /\ Counts(v)'
    BY <1>1, <1>2, <2>2, Numbers DEF Knows, Counts, Judge
  <2>4. \A w \in {serving[q] : q \in Requests \ {r}} : Apart(v, w)' /\ Apart(w, v)'
    <3> SUFFICES ASSUME NEW q \in Requests \ {r}, NEW w, w = serving[q]
                 PROVE  Apart(v, w)' /\ Apart(w, v)'
      OBVIOUS
    <3>1. Apart(serving[r], w) /\ Apart(w, serving[r])
      BY DEF CodingInv
    <3> QED
      BY <1>1, <1>2, <2>2, <3>1 DEF Apart
  <2> QED
    BY <1>1, <1>2, <1>4, <2>1, <2>2, <2>3, <2>4, RequestMoves
<1> QED
  BY <1>1, <1>3, <1>4

LEMMA CodingReadVersion ==
  ASSUME CodingInv, NEW r \in Requests, ReadVersion(r)
  PROVE  CodingInv'
<1>1. PICK v : v = [serving[r] EXCEPT !.pc = "evaluation",
                                      !.version = Cardinality(Of(serving[r].sub)) + 1]
  OBVIOUS
<1>2. /\ serving[r].pc = "version" /\ env' = env /\ UNCHANGED rows /\ open' = open
      /\ room' = room /\ torn' = torn /\ overlapped' = overlapped /\ Moves(r, v)
  BY <1>1 DEF ReadVersion, At, Continue, Moves, idleRows, Of
<1>3. serving[r] \in ServingRow /\ Knows(serving[r])
  BY DEF CodingInv, CodingRows
<1>4. Cardinality(Of(serving[r].sub)) \in Nat
  BY FS_Subset, FS_CardinalityType DEF CodingInv, CodingRows, Of
<1>10. PICK n \in Nat : n = Cardinality(Of(serving[r].sub)) + 1
  BY <1>4
<1>11. v = [serving[r] EXCEPT !.pc = "evaluation", !.version = n]
  BY <1>1, <1>10
<1>12. v \in ServingRow
  BY <1>3, <1>11 DEF ServingRow, Steps
<1>5. /\ v \in ServingRow /\ v.pc = "evaluation" /\ v.user = serving[r].user
      /\ v.sub = serving[r].sub /\ v.job = serving[r].job /\ v.final = serving[r].final
      /\ v.source = serving[r].source /\ v.cases = serving[r].cases
      /\ v.version = Cardinality(Of(v.sub)) + 1
  BY <1>3, <1>10, <1>11, <1>12 DEF ServingRow
<1>6. Knows(v)
  BY <1>2, <1>3, <1>5 DEF Knows, Judge
<1>7. Counts(v)'
  <2>1. Of(v.sub)' = Of(v.sub)
    BY <1>2 DEF Of, rows
  <2> QED
    BY <1>4, <1>5, <2>1 DEF Counts
<1>8. Knows(v)'
  <2>1. JobsStay /\ SubsStay
    BY <1>2 DEF rows, JobsStay, SubsStay
  <2> QED
    BY <1>2, <1>5, <1>6, <2>1, KnowsStays DEF CodingInv
<1>9. \A w \in {serving[q] : q \in Requests \ {r}} : Apart(v, w)' /\ Apart(w, v)'
  <2> SUFFICES ASSUME NEW q \in Requests \ {r}, NEW w, w = serving[q]
               PROVE  Apart(v, w)' /\ Apart(w, v)'
    OBVIOUS
  <2>1. Apart(serving[r], w) /\ Apart(w, serving[r])
    BY DEF CodingInv
  <2> QED
    BY <1>2, <1>5, <2>1 DEF Apart
<1> QED
  BY <1>2, <1>3, <1>5, <1>7, <1>8, <1>9, RequestMoves

LEMMA CodingRejudge ==
  ASSUME CodingInv, NEW r \in Requests, NEW u \in Users, NEW i \in Subs, Rejudge(r, u, i)
  PROVE  CodingInv'
<1>1. PICK v : v = [NoReq EXCEPT !.pc = "judge", !.sub = i, !.final = TRUE, !.user = u,
                                 !.source = sub[i].source, !.cases = TestCases]
  OBVIOUS
<1>9. Moves(r, v)
  BY <1>1 DEF Rejudge, Begin, Moves, NoReq
<1>2. /\ serving[r].pc = "idle" /\ env' = env /\ UNCHANGED rows /\ open' = open
      /\ room' = room /\ overlapped' = overlapped /\ Moves(r, v) /\ RunnerUsable
      /\ sub[i] # NoSub /\ u \notin Students
      /\ torn' = IF Judging(i) = {} THEN torn ELSE torn \cup {i}
  BY <1>9, BeginMoves, StudentOnly DEF Rejudge, ScopedSubmission, idleRows
<1>3. Used(i) /\ sub[i] \in SubRow /\ sub[i].source \in Sources
  BY <1>2 DEF CodingInv, CodingRows, SubsInOrder
<1>10. TestCases \in SUBSET TestCases /\ "judge" \in Steps /\ i \in Nat
  BY Numbers DEF Steps
<1>11. v = [pc |-> "judge", user |-> u, sub |-> i, job |-> 0, final |-> TRUE,
            source |-> sub[i].source, cases |-> TestCases, version |-> 0, pairs |-> {}]
  BY <1>1 DEF NoReq
<1>12. v \in ServingRow
  BY <1>3, <1>10, <1>11 DEF ServingRow
<1>4. /\ v \in ServingRow /\ v.pc = "judge" /\ v.user = u /\ v.sub = i /\ v.final = TRUE
      /\ v.source = sub[i].source /\ v.job = 0
  BY <1>11, <1>12
<1>5. serving[r] = NoReq
  BY <1>2 DEF CodingInv, Knows
<1>6. Knows(v)' /\ Counts(v)'
  <2>1. Used(i)' /\ sub'[i] = sub[i] /\ RunnerUsable'
    BY <1>2, <1>3 DEF rows, Used, RunnerUsable
  <2>2. Knows(v)'
    BY <1>2, <1>4, <2>1, Numbers DEF Knows, Judge
  <2> QED
    BY <1>4, <2>2 DEF Counts
<1>7. \A w \in {serving[q] : q \in Requests \ {r}} : Apart(v, w)' /\ Apart(w, v)'
  <2> SUFFICES ASSUME NEW q \in Requests \ {r}, NEW w, w = serving[q]
               PROVE  Apart(v, w)' /\ Apart(w, v)'
    OBVIOUS
  <2>1. w \in ServingRow /\ Knows(w)
    BY DEF CodingInv, CodingRows
  <2>2. w.sub = i /\ w.pc # "answer" => i \in torn'
    BY <1>2 DEF Judging, At
  <2> QED
    BY <1>2, <1>4, <2>1, <2>2 DEF Apart, Knows
<1>8. torn \subseteq torn'
  BY <1>2
<1> QED
  BY <1>2, <1>4, <1>5, <1>6, <1>7, <1>8, <1>9, NothingKnown, RequestMoves

-----------------------------------------------------------------------------
(* Staff, and what happens around the requests. *)

LEMMA RowsStay ==
  /\ UNCHANGED sub => SubsAlike /\ ScoresAlike /\ SubsStay
  /\ UNCHANGED runner => JobsStay
  BY DEF SubsAlike, ScoresAlike, SubsStay, JobsStay

LEMMA SameShows ==
  ASSUME CodingInv, SubsAlike, ScoresAlike, evals' = evals, torn' = torn, serving' = serving
  PROVE  Shows'
<1>1. \A q \in Requests : At(q, "update") => serving'[q] = serving[q]
  OBVIOUS
<1> QED
  BY <1>1, ShowsStays DEF CodingInv

LEMMA SameCompared ==
  ASSUME CodingInv, SubsAlike, plag' = plag, match' = match, serving' = serving
  PROVE  Compared'
<1>1. SubsStay /\ \A q \in Requests : At(q, "match")' => serving'[q] = serving[q]
  BY DEF SubsAlike, SubsStay
<1> QED
  BY <1>1, ComparedStays DEF CodingInv

LEMMA SameRooms ==
  ASSUME CodingInv, room' = room, open' = open, serving' = serving
  PROVE  Rooms'
<1>1. \A s \in Students \ open : InFlight(s)' \subseteq InFlight(s)
  BY DEF InFlight
<1> QED
  BY <1>1, RoomsStays DEF CodingInv

\* The window of a rate key and the runner's own jobs concern nobody else.
LEMMA CodingAside ==
  ASSUME CodingInv, env' = env, serving' = serving, evals' = evals, answer' = answer,
         plag' = plag, open' = open, room' = room, torn' = torn, overlapped' = overlapped,
         sub' = sub, runner' = runner, match' = match
  PROVE  CodingInv'
<1>1. SubsAlike /\ ScoresAlike /\ JobsStay
  BY RowsStay
<1>2. Shows' /\ Compared' /\ Rooms'
  BY <1>1, SameShows, SameCompared, SameRooms
<1>3. /\ sub' \in [Subs -> SubRow] /\ runner' \in [JobIds -> RunnerRow]
      /\ match' \subseteq MatchRow /\ room' \in [Students -> Int]
  BY DEF CodingInv, CodingRows
<1> QED
  BY <1>1, <1>2, <1>3, RowsMove

\* Staff change what a row shows for review.
LEMMA RowsReviewed ==
  ASSUME CodingInv, NEW i \in Subs, Used(i), NEW x \in SubRow, sub' = [sub EXCEPT ![i] = x],
         x.owner = sub[i].owner, x.source = sub[i].source, x.final = sub[i].final,
         x.latest = sub[i].latest, x.tests = sub[i].tests,
         \/ x.score = sub[i].score /\ x.override = sub[i].override
         \/ x.score = x.override,
         env' = env, serving' = serving, evals' = evals, answer' = answer,
         plag' = plag, open' = open, room' = room, torn' = torn, overlapped' = overlapped,
         runner' = runner, match' = match
  PROVE  CodingInv'
<1>1. sub \in [Subs -> SubRow]
  BY DEF CodingInv, CodingRows
<1>2. SubsAlike /\ sub' \in [Subs -> SubRow] /\ \A k \in Subs : ~Used(k) => sub'[k] = sub[k]
  BY <1>1 DEF SubsAlike
<1>3. Shows'
  <2> SUFFICES ASSUME NEW k \in Subs, k \notin torn, \A r \in Judging(k)' : ~At(r, "update")',
                      NEW e \in Of(k), e.version = Cardinality(Of(k))
               PROVE  Fits(k, e)'
    <3>1. \A k \in Subs : Of(k)' = Of(k)
      BY DEF Of
    <3> QED
      BY <3>1 DEF Shows
  <2>1. \A r \in Judging(k) : ~At(r, "update")
    BY DEF Judging, At
  <2>2. Fits(k, e)
    BY <2>1 DEF Shows, CodingInv
  <2>3. sub'[k] = IF k = i THEN x ELSE sub[k]
    BY <1>1
  <2> QED
    BY <2>2, <2>3 DEF Fits
<1>4. Compared' /\ Rooms' /\ JobsStay
  BY <1>2, SameCompared, SameRooms, RowsStay
<1>5. /\ runner' \in [JobIds -> RunnerRow]
      /\ match' \subseteq MatchRow /\ room' \in [Students -> Int]
  BY DEF CodingInv, CodingRows
<1> QED
  BY <1>2, <1>3, <1>4, <1>5, RowsMove

LEMMA ScopedUsed ==
  ASSUME CodingInv, NEW u, NEW i \in Subs, ScopedSubmission(u, i)
  PROVE  Used(i) /\ sub[i] \in SubRow
  BY DEF ScopedSubmission, CodingInv, SubsInOrder, CodingRows

LEMMA CodingSetReviewStatus ==
  ASSUME CodingInv, NEW u \in Users, NEW i \in Subs, NEW shown \in {"HELD", "RELEASED"},
         SetReviewStatus(u, i, shown)
  PROVE  CodingInv'
<1>1. PICK x : x = [sub[i] EXCEPT !.review = shown, !.by = u]
  OBVIOUS
<1>2. Used(i) /\ sub[i] \in SubRow
  BY ScopedUsed DEF SetReviewStatus
<1>3. sub' = [sub EXCEPT ![i] = x]
  BY <1>1 DEF SetReviewStatus
<1>4. x \in SubRow
  BY <1>1, <1>2 DEF SubRow
<1>5. x.owner = sub[i].owner /\ x.source = sub[i].source /\ x.final = sub[i].final
      /\ x.latest = sub[i].latest /\ x.tests = sub[i].tests
      /\ x.score = sub[i].score /\ x.override = sub[i].override
  BY <1>1, <1>2 DEF SubRow
<1> QED
  BY <1>2, <1>3, <1>4, <1>5, RowsReviewed DEF SetReviewStatus, Quick, idleRows

LEMMA CodingOverrideScore ==
  ASSUME CodingInv, NEW u \in Users, NEW i \in Subs, NEW score \in Overrides,
         OverrideScore(u, i, score)
  PROVE  CodingInv'
<1>1. PICK c : c = Capped(score)
  OBVIOUS
<1>2. c \in 0..Marks /\ c \in Int
  BY <1>1, CodingAssumption DEF Capped
<1>3. PICK x : x = [sub[i] EXCEPT !.score = c, !.review = "OVERRIDDEN", !.by = u, !.override = c]
  OBVIOUS
<1>4. Used(i) /\ sub[i] \in SubRow
  BY ScopedUsed DEF OverrideScore
<1>5. sub' = [sub EXCEPT ![i] = x]
  BY <1>1, <1>3 DEF OverrideScore
<1>6. x \in SubRow
  BY <1>2, <1>3, <1>4 DEF SubRow
<1>7. x.owner = sub[i].owner /\ x.source = sub[i].source /\ x.final = sub[i].final
      /\ x.latest = sub[i].latest /\ x.tests = sub[i].tests /\ x.score = x.override
  BY <1>3, <1>4 DEF SubRow
<1> QED
  BY <1>4, <1>5, <1>6, <1>7, RowsReviewed DEF OverrideScore, Quick, idleRows

\* A job row changes without becoming RUNNING.
LEMMA JobChanged ==
  ASSUME CodingInv, NEW j \in JobIds, NEW x \in RunnerRow,
         x.status \in {"COMPLETED", "CANCELLED"}, runner' = [runner EXCEPT ![j] = x],
         runner[j].status # "NONE" => x.sub = runner[j].sub,
         env' = env, serving' = serving, evals' = evals, answer' = answer,
         plag' = plag, open' = open, room' = room, torn' = torn, overlapped' = overlapped,
         sub' = sub, match' = match
  PROVE  CodingInv'
<1>1. runner \in [JobIds -> RunnerRow]
  BY DEF CodingInv, CodingRows
<1>2. \A k \in JobIds : runner'[k] = IF k = j THEN x ELSE runner[k]
  BY <1>1
<1>3. JobsStay /\ runner' \in [JobIds -> RunnerRow]
  BY <1>1, <1>2 DEF JobsStay
<1>4. SubsAlike /\ ScoresAlike
  BY RowsStay
<1>5. Shows' /\ Compared' /\ Rooms'
  BY <1>4, SameShows, SameCompared, SameRooms
<1>6. /\ sub' \in [Subs -> SubRow] /\ match' \subseteq MatchRow /\ room' \in [Students -> Int]
  BY DEF CodingInv, CodingRows
<1>7. \A k \in JobIds : runner'[k].status = "RUNNING" =>
             runner[k].status = "RUNNING" /\ runner'[k].sub = runner[k].sub
  BY <1>2
<1> QED
  BY <1>3, <1>4, <1>5, <1>6, <1>7, RowsMove

LEMMA CodingCancelJob ==
  ASSUME CodingInv, NEW u \in Users, NEW j \in JobIds, CancelJob(u, j)
  PROVE  CodingInv'
<1>1. PICK x : x = [runner[j] EXCEPT !.status = "CANCELLED", !.by = u]
  OBVIOUS
<1>2. runner[j] \in RunnerRow
  BY DEF CodingInv, CodingRows
<1>3. x \in RunnerRow /\ x.status = "CANCELLED" /\ x.sub = runner[j].sub
  BY <1>1, <1>2 DEF RunnerRow
<1>4. runner' = [runner EXCEPT ![j] = x]
  BY <1>1 DEF CancelJob
<1> QED
  BY <1>3, <1>4, JobChanged DEF CancelJob, Quick, idleRows

LEMMA FreshJob ==
  ASSUME CodingInv, NEW j \in Fresh(runner, NoJob, JobIds)
  PROVE  j \in JobIds /\ runner[j] = NoJob /\ runner[j].status = "NONE"
  BY DEF Fresh, NoJob

LEMMA CodingRejudgeAssessment ==
  ASSUME CodingInv, NEW u \in Users, RejudgeAssessment(u)
  PROVE  CodingInv'
<1>1. PICK c : c = IF UserRole[u] = "SUPER_ADMIN" THEN None ELSE UserCollege[u]
  OBVIOUS
<1>2. PICK j \in Fresh(runner, NoJob, JobIds) :
          runner' = [runner EXCEPT ![j] = [NoJob EXCEPT !.status = "COMPLETED", !.college = c]]
  BY <1>1 DEF RejudgeAssessment
<1>3. PICK x : x = [NoJob EXCEPT !.status = "COMPLETED", !.college = c]
  OBVIOUS
<1>4. c \in Colleges \cup {None}
  BY <1>1, CodingAssumption
<1>5. x \in RunnerRow /\ x.status = "COMPLETED"
  BY <1>3, <1>4 DEF RunnerRow, NoJob
<1>6. j \in JobIds /\ runner[j].status = "NONE" /\ runner' = [runner EXCEPT ![j] = x]
  BY <1>2, <1>3, FreshJob
<1> QED
  BY <1>5, <1>6, JobChanged DEF RejudgeAssessment, Quick, idleRows

LEMMA CodingReviewMatch ==
  ASSUME CodingInv, NEW u \in Users, NEW p \in match,
         NEW decision \in {"RELEASED", "INVALIDATED", "HELD"},
         ReviewPlagiarismMatch(u, p, decision)
  PROVE  CodingInv'
<1>1. PICK m : m = MatchStatus(decision)
  OBVIOUS
<1>2. m \in {"CLEARED", "CONFIRMED", "SUSPICIOUS"}
  BY <1>1 DEF MatchStatus
<1>3. PICK x : x = [p EXCEPT !.status = m, !.by = u]
  OBVIOUS
<1>4. p \in MatchRow
  BY DEF CodingInv, CodingRows
<1>5. x \in MatchRow /\ x.a = p.a /\ x.b = p.b
  BY <1>2, <1>3, <1>4 DEF MatchRow
<1>6. match' = (match \ {p}) \cup {x}
  BY <1>1, <1>3 DEF ReviewPlagiarismMatch
<1>7. /\ env' = env /\ serving' = serving /\ evals' = evals /\ answer' = answer
      /\ plag' = plag /\ open' = open /\ room' = room /\ torn' = torn
      /\ overlapped' = overlapped /\ sub' = sub /\ runner' = runner
  BY DEF ReviewPlagiarismMatch, Quick, idleRows
<1>8. Compared'
  <2>1. Compared /\ match # {}
    BY DEF CodingInv
  <2>2. Recorded' = Recorded
    BY <1>5, <1>6 DEF Recorded
  <2>3. \A d, q \in match' : d.a = q.a /\ d.b = q.b => d = q
    BY <1>5, <1>6, <2>1 DEF Compared
  <2>4. Matching(plag.compared)' = Matching(plag.compared)
    BY <1>7, <2>1, MatchingStays DEF Compared
  <2>5. \A i \in Subs : Used(i)' <=> Used(i)
    BY <1>7 DEF Used
  <2>6. \A r \in Requests : At(r, "match")' <=> At(r, "match")
    BY <1>7 DEF At
  <2> QED
    BY <1>7, <2>1, <2>2, <2>3, <2>4, <2>5, <2>6 DEF Compared
<1>9. SubsAlike /\ ScoresAlike /\ JobsStay
  BY <1>7, RowsStay
<1>10. Shows' /\ Rooms'
  BY <1>7, <1>9, SameShows, SameRooms
<1>11. /\ sub' \in [Subs -> SubRow] /\ runner' \in [JobIds -> RunnerRow]
       /\ match' \subseteq MatchRow /\ room' \in [Students -> Int]
  BY <1>5, <1>6, <1>7 DEF CodingInv, CodingRows
<1> QED
  BY <1>7, <1>8, <1>9, <1>10, <1>11, RowsMove

LEMMA CodingCloseAttempt ==
  ASSUME CodingInv, NEW s \in Students, CloseAttempt(s)
  PROVE  CodingInv'
<1>1. /\ open' = open \ {s} /\ room' = [room EXCEPT ![s] = Cardinality(InFlight(s))]
      /\ UNCHANGED <<env, rows, serving, overlapped, torn>>
  BY DEF CloseAttempt
<1>2. \A t \in Students : InFlight(t)' = InFlight(t) /\ Cardinality(InFlight(t)) \in Nat
  BY <1>1, CardinalNat DEF InFlight
<1>3. room \in [Students -> Int] /\ \A t \in Students \ open : room[t] >= Cardinality(InFlight(t))
  BY DEF CodingInv, CodingRows, Rooms
<1>4. room' \in [Students -> Int]
      /\ \A t \in Students \ open' : room'[t] >= Cardinality(InFlight(t))
  BY <1>1, <1>2, <1>3
<1>5. Rooms'
  BY <1>2, <1>4 DEF Rooms
<1>6. CodingInv
  OBVIOUS
<1>7. CodingRows'
  BY <1>1, <1>4 DEF CodingInv, CodingRows, rows
<1>8. /\ \A q \in Requests : Knows(serving[q])' /\ Counts(serving[q])'
      /\ \A q, t \in Requests : q # t => Apart(serving[q], serving[t])'
  BY <1>1, RowsStay, SameKnown DEF rows
<1>9. Numbered' /\ HiddenOnlyFinal' /\ JobAccounted' /\ SubsInOrder'
  BY <1>1 DEF CodingInv, Numbered, Versions, HiddenOnlyFinal, JobAccounted, SubsInOrder, Used,
              rows
<1>10. SubsAlike /\ ScoresAlike
  BY <1>1, RowsStay DEF rows
<1>11. Shows' /\ Compared'
  BY <1>1, <1>10, SameShows, SameCompared DEF rows
<1>12. Answers'
  <2>1. \A q \in Requests : serving'[q] = serving[q]
    BY <1>1
  <2> QED
    BY <1>1, <1>10, <2>1, AnswersStays DEF CodingInv, rows
<1> QED
  BY <1>5, <1>7, <1>8, <1>9, <1>11, <1>12 DEF CodingInv

-----------------------------------------------------------------------------
(* A submission and its judging. *)

LEMMA CodingSaveSubmission ==
  ASSUME CodingInv, NEW r \in Requests, SaveSubmission(r)
  PROVE  CodingInv'
<1>1. /\ serving[r].pc = "save" /\ env' = env /\ open' = open /\ evals' = evals
      /\ runner' = runner /\ answer' = answer /\ match' = match /\ plag' = plag
      /\ torn' = torn /\ overlapped' = overlapped
  BY DEF SaveSubmission, At
<1>2. serving[r] \in ServingRow /\ Knows(serving[r])
  BY DEF CodingInv, CodingRows
<1>3. PICK u, src, final : u = serving[r].user /\ src = serving[r].source /\ final = serving[r].final
  OBVIOUS
<1>4. /\ u \in Students /\ src \in Sources /\ final \in BOOLEAN
      /\ serving[r].sub = 0 /\ serving[r].job = 0
  BY <1>1, <1>2, <1>3 DEF Knows, Judge, ServingRow
<1>5. PICK i \in Fresh(sub, NoSub, Subs) :
          /\ sub' = [sub EXCEPT ![i] = [NoSub EXCEPT !.owner = serving[r].user,
                        !.source = serving[r].source, !.final = serving[r].final, !.status = "QUEUED"]]
          /\ IF RunnerUsable
             THEN Continue(r, [serving[r] EXCEPT !.pc = "judge", !.sub = i,
                                             !.cases = CasesOf(serving[r].final)])
             ELSE Finish(r)
  BY DEF SaveSubmission
<1>6. PICK x : x = [NoSub EXCEPT !.owner = u, !.source = src, !.final = final, !.status = "QUEUED"]
  OBVIOUS
<1>32. x = [owner |-> u, source |-> src, final |-> final, status |-> "QUEUED",
            score |-> 0, tests |-> 0, latest |-> 0, review |-> "NOT_REQUIRED",
            by |-> None, override |-> -1]
  BY <1>6 DEF NoSub
<1>33. u \in Users /\ "QUEUED" \in SubStatuses /\ 0 \in 0..Marks /\ -1 \in Int
  BY <1>4, Numbers DEF SubStatuses
<1>7. /\ x \in SubRow /\ x.owner = u /\ x.source = src /\ x.final = final /\ x.latest = 0
      /\ u # None
  BY <1>4, <1>32, <1>33, Numbers DEF SubRow
<1>8. i \in Subs /\ ~Used(i) /\ \A k \in Subs : Used(k) => k < i
  BY FreshSub DEF CodingInv
<1>9. \A k \in Subs : k < i => Used(k)
  BY <1>8 DEF Fresh, CodingInv, SubsInOrder
<1>10. /\ sub' \in [Subs -> SubRow] /\ sub'[i] = x
       /\ \A k \in Subs : k # i => sub'[k] = sub[k]
  BY <1>3, <1>5, <1>6, <1>7, <1>8 DEF CodingInv, CodingRows
<1>11. /\ Used(i)' /\ \A k \in Subs : Used(k) => k # i /\ sub'[k] = sub[k] /\ Used(k)'
       /\ \A k \in Subs : ~Used(k) /\ k # i => ~Used(k)' /\ sub'[k] = sub[k]
  BY <1>7, <1>8, <1>10 DEF Used
<1>12. SubsStay /\ JobsStay
  BY <1>1, <1>11 DEF SubsStay, JobsStay
<1>13. PICK v : v = IF RunnerUsable
                    THEN [serving[r] EXCEPT !.pc = "judge", !.sub = i, !.cases = CasesOf(final)]
                    ELSE NoReq
  OBVIOUS
<1>14. Moves(r, v)
  BY <1>3, <1>5, <1>13 DEF Continue, Finish, Moves
<1>34. CasesOf(final) \in SUBSET TestCases /\ "judge" \in Steps /\ i \in Nat
  BY <1>8, CasesIn, Numbers DEF Steps
<1>35. RunnerUsable => v \in ServingRow
  BY <1>2, <1>13, <1>34 DEF ServingRow
<1>15. RunnerUsable => /\ v \in ServingRow /\ v.pc = "judge" /\ v.user = u /\ v.sub = i
                       /\ v.job = 0 /\ v.final = final /\ v.source = src
                       /\ v.cases = CasesOf(final)
  BY <1>2, <1>3, <1>4, <1>13, <1>35 DEF ServingRow
<1>16. ~RunnerUsable => v = NoReq
  BY <1>13
<1>17. v \in ServingRow
  BY <1>15, <1>16, NothingKnown
<1>18. /\ serving' \in [Requests -> ServingRow] /\ serving'[r] = v
       /\ \A q \in Requests : q # r => serving'[q] = serving[q]
  BY <1>14, <1>17, MovesOne DEF CodingInv
<1>19. Knows(v)' /\ Counts(v)'
  <2>1. CASE RunnerUsable
    <3>1. RunnerUsable'
      BY <1>1, <2>1 DEF RunnerUsable
    <3>2. Knows(v)'
      BY <1>4, <1>7, <1>8, <1>10, <1>11, <1>15, <2>1, <3>1, Numbers DEF Knows, Judge
    <3> QED
      BY <1>15, <2>1, <3>2 DEF Counts
  <2> QED
    BY <1>16, <2>1, NothingKnown
<1>20. ASSUME NEW q \in Requests \ {r}, NEW w, w = serving[q]
       PROVE  /\ Apart(v, w)' /\ Apart(w, v)' /\ w.sub # i
              /\ w.user = u /\ w.final /\ final => u \in overlapped
  <2>1. w \in ServingRow /\ Knows(w) /\ Apart(serving[r], w) /\ Apart(w, serving[r])
    BY <1>20 DEF CodingInv, CodingRows
  <2>2. w.sub # i
    BY <1>8, <2>1, Numbers DEF Knows
  <2>3. w.user = u /\ w.final /\ final => u \in overlapped
    BY <1>3, <1>4, <2>1 DEF Apart
  <2>4. CASE RunnerUsable
    BY <1>1, <1>4, <1>15, <2>1, <2>2, <2>3, <2>4 DEF Apart
  <2>5. CASE ~RunnerUsable
    <3>1. v.user = None /\ v.sub = 0 /\ v.job = 0 /\ v.final = FALSE /\ v.pc = "idle"
      BY <1>16, <2>5, NothingKnown
    <3>2. v.user \notin Students
      BY <3>1, Numbers
    <3> QED
      BY <1>4, <2>1, <2>2, <2>3, <3>1, <3>2 DEF Apart
  <2> QED
    BY <2>2, <2>3, <2>4, <2>5
<1>21. /\ \A q \in Requests : Knows(serving[q])' /\ Counts(serving[q])'
       /\ \A q, s \in Requests : q # s => Apart(serving[q], serving[s])'
  <2>1. \A w \in {serving[q] : q \in Requests \ {r}} :
             Apart(v, w)' /\ Apart(w, v)' /\ Counts(w)'
    BY <1>1, <1>20, OthersCount
  <2> QED
    BY <1>1, <1>12, <1>14, <1>17, <1>19, <2>1, OthersKnow
<1>22. room' = IF u \in open THEN room ELSE [room EXCEPT ![u] = @ - 1]
  BY <1>3 DEF SaveSubmission
<1>23. room \in [Students -> Int] /\ room' \in [Students -> Int]
  BY <1>4, <1>22 DEF CodingInv, CodingRows
<1>24. CodingRows'
  BY <1>1, <1>10, <1>18, <1>23 DEF CodingInv, CodingRows
<1>25. SubsInOrder'
  <2>1. \A e \in evals : e.sub \in Subs /\ Used(e.sub)'
    BY <1>11 DEF CodingInv, CodingRows, SubsInOrder, EvalRow
  <2>2. \A k \in Subs : Used(k)' => sub'[k].owner \in Students /\ sub'[k].source \in Sources
    BY <1>4, <1>7, <1>10, <1>11 DEF CodingInv, SubsInOrder
  <2>3. \A k \in Subs : ~Used(k)' => sub'[k] = NoSub
    BY <1>11 DEF CodingInv, SubsInOrder
  <2>4. \A k, n \in Subs : Used(k)' /\ n < k => Used(n)'
    BY <1>9, <1>11 DEF CodingInv, SubsInOrder
  <2> QED
    BY <1>1, <2>1, <2>2, <2>3, <2>4 DEF SubsInOrder
<1>26. Numbered' /\ HiddenOnlyFinal'
  BY <1>1, <1>12, NumberedStays, HiddenStays DEF CodingInv
<1>27. Shows'
  <2> SUFFICES ASSUME NEW k \in Subs, k \notin torn, \A q \in Judging(k)' : ~At(q, "update")',
                      NEW e \in Of(k), e.version = Cardinality(Of(k))
               PROVE  Fits(k, e)'
    <3>1. \A n \in Subs : Of(n)' = Of(n)
      BY <1>1 DEF Of
    <3> QED
      BY <1>1, <3>1 DEF Shows
  <2>1. Used(k)
    BY DEF Of, CodingInv, SubsInOrder
  <2>2. \A q \in Judging(k) : ~At(q, "update")
    BY <1>1, <1>18 DEF Judging, At
  <2>3. Fits(k, e)
    BY <2>2 DEF Shows, CodingInv
  <2> QED
    BY <1>11, <2>1, <2>3 DEF Fits
<1>28. Answers'
  <2>1. Answers /\ answer \in [Students -> {0} \cup Subs]
    BY DEF CodingInv, CodingRows
  <2>2. RunnerUsable' <=> RunnerUsable
    BY <1>1 DEF RunnerUsable
  <2>3. ASSUME NEW s \in Students, answer[s] # 0
        PROVE  Used(answer[s])' /\ sub'[answer[s]].owner = s /\ sub'[answer[s]].final
    <3>1. PICK k \in Subs : k = answer[s]
      BY <2>1, <2>3
    <3>2. Used(k) /\ sub[k].owner = s /\ sub[k].final
      BY <2>1, <2>3, <3>1 DEF Answers
    <3>3. sub'[k] = sub[k]
      BY <1>11, <3>2
    <3> QED
      BY <1>1, <3>1, <3>2, <3>3 DEF Used
  <2>4. ASSUME RunnerUsable, NEW s \in Students \ overlapped, NEW k \in Ended(s)'
        PROVE  k <= answer[s]
    <3>1. /\ k \in Subs /\ sub'[k].owner = s /\ sub'[k].final /\ k \notin torn
          /\ ~\E q \in Requests : serving'[q].user = s /\ serving'[q].sub = k
      BY <1>1, <2>4 DEF Ended
    <3>2. k # i
      BY <1>7, <1>10, <1>15, <1>18, <2>4, <3>1
    <3>3. \A q \in Requests : serving[q].user = s => serving[q].sub # k
      BY <1>4, <1>18, <3>1, Numbers
    <3>4. k \in Ended(s)
      BY <1>10, <3>1, <3>2, <3>3 DEF Ended
    <3> QED
      BY <2>1, <2>4, <3>4 DEF Answers
  <2>5. ~RunnerUsable => \A k \in Subs : sub'[k].latest = 0
    BY <1>7, <1>10, <2>1 DEF Answers
  <2>6. ASSUME NEW q \in Requests, serving'[q].user \in Students \ overlapped,
               serving'[q].sub # 0, serving'[q].final,
               NEW k \in Subs, sub'[k].owner = serving'[q].user, sub'[k].final
        PROVE  k <= serving'[q].sub
    <3>1. CASE q = r
      <4>1. serving'[q].sub = i
        BY <1>15, <1>16, <1>18, <2>6, <3>1, NothingKnown
      <4>2. k = i \/ Used(k)
        BY <1>11, <2>6, Numbers DEF Used
      <4>3. k = i \/ k < i
        BY <1>8, <4>2
      <4> QED
        BY <1>8, <4>1, <4>3, Numbers
    <3>2. CASE q # r
      <4>1. serving'[q] = serving[q]
        BY <1>18, <3>2
      <4>2. k # i
        BY <1>7, <1>10, <1>20, <2>6, <3>2, <4>1
      <4> QED
        BY <1>10, <2>1, <2>6, <4>1, <4>2 DEF Answers
    <3> QED
      BY <3>1, <3>2
  <2> QED
    BY <1>1, <2>2, <2>3, <2>4, <2>5, <2>6 DEF Answers
<1>29. Rooms'
  <2> SUFFICES ASSUME NEW s \in Students \ open PROVE room'[s] >= Cardinality(InFlight(s)')
    BY <1>1 DEF Rooms
  <2>1. room[s] >= Cardinality(InFlight(s))
    BY DEF CodingInv, Rooms
  <2>2. InFlight(s) \in SUBSET Requests /\ InFlight(s)' \in SUBSET Requests
    BY DEF InFlight
  <2>3. /\ IsFiniteSet(InFlight(s)) /\ Cardinality(InFlight(s)) \in Nat
        /\ Cardinality(InFlight(s)') \in Nat
    BY <2>2, CardinalNat
  <2>4. v.pc \notin {"count", "save"}
    BY <1>15, <1>16, NothingKnown
  <2>5. InFlight(s)' = InFlight(s) \ {r}
    BY <1>18, <2>4 DEF InFlight
  <2>6. CASE s = u
    <3>1. r \in InFlight(s)
      BY <1>1, <1>3, <2>6 DEF InFlight
    <3>2. Cardinality(InFlight(s)') = Cardinality(InFlight(s)) - 1
      BY <2>3, <2>5, <3>1, FS_RemoveElement
    <3>3. room'[s] = room[s] - 1
      BY <1>4, <1>22, <1>23, <2>6
    <3> QED
      BY <1>23, <2>1, <2>3, <3>2, <3>3
  <2>7. CASE s # u
    <3>1. r \notin InFlight(s)
      BY <1>3, <2>7 DEF InFlight
    <3>2. room'[s] = room[s]
      BY <1>22, <1>23, <2>7
    <3> QED
      BY <2>1, <2>5, <3>1, <3>2
  <2> QED
    BY <2>6, <2>7
<1>30. Compared'
  <2>1. v.pc # "match"
    BY <1>15, <1>16, NothingKnown
  <2>2. \A q \in Requests : At(q, "match")' => serving'[q] = serving[q]
    BY <1>18, <2>1 DEF At
  <2> QED
    BY <1>1, <1>12, <2>2, ComparedStays DEF CodingInv
<1>31. JobAccounted'
  <2>1. \A q \in Requests : serving[q].job \in JobIds => serving'[q].job = serving[q].job
    BY <1>4, <1>18, Numbers
  <2> QED
    BY <1>1, <2>1, JobAccountedStays DEF CodingInv
<1> QED
  BY <1>21, <1>24, <1>25, <1>26, <1>27, <1>28, <1>29, <1>30, <1>31 DEF CodingInv

LEMMA CodingStartJob ==
  ASSUME CodingInv, NEW r \in Requests, StartJob(r)
  PROVE  CodingInv'
<1>1. /\ serving[r].pc = "judge" /\ env' = env /\ open' = open /\ room' = room
      /\ sub' = sub /\ evals' = evals
      /\ answer' = answer /\ match' = match /\ plag' = plag
      /\ torn' = torn /\ overlapped' = overlapped
  BY DEF StartJob, At, idleRows
<1>2. serving[r] \in ServingRow /\ Knows(serving[r])
  BY DEF CodingInv, CodingRows
<1>3. PICK i, u : i = serving[r].sub /\ u = serving[r].user
  OBVIOUS
<1>4. i \in Subs /\ u \in Users /\ Used(i) /\ serving[r].job = 0
  BY <1>1, <1>2, <1>3 DEF Knows, Judge
<1>5. PICK c : c = UserCollege[sub[i].owner]
  OBVIOUS
<1>6. c \in Colleges \cup {None}
  BY <1>4, <1>5, Numbers, CodingAssumption DEF CodingInv, SubsInOrder
<1>7. PICK x : x = [NoJob EXCEPT !.sub = i, !.college = c, !.status = "RUNNING"]
  OBVIOUS
<1>8. x \in RunnerRow /\ x.sub = i /\ x.status = "RUNNING"
  BY <1>4, <1>6, <1>7 DEF RunnerRow, NoJob
<1>9. PICK j \in Fresh(runner, NoJob, JobIds) :
          /\ runner' = [runner EXCEPT ![j] = x]
          /\ Moves(r, [serving[r] EXCEPT !.pc = "version", !.job = j])
  BY <1>3, <1>5, <1>7 DEF StartJob, Continue, Moves
<1>10. j \in JobIds /\ runner[j].status = "NONE" /\ j # 0 /\ j \in Nat
  BY FreshJob, Numbers
<1>11. runner \in [JobIds -> RunnerRow]
  BY DEF CodingInv, CodingRows
<1>12. /\ runner' \in [JobIds -> RunnerRow] /\ runner'[j] = x
       /\ \A k \in JobIds : k # j => runner'[k] = runner[k]
  BY <1>8, <1>9, <1>10, <1>11
<1>13. PICK v : v = [serving[r] EXCEPT !.pc = "version", !.job = j]
  OBVIOUS
<1>14. v \in ServingRow
  BY <1>2, <1>10, <1>13 DEF ServingRow, Steps
<1>15. /\ v.pc = "version" /\ v.job = j /\ v.user = serving[r].user
       /\ v.sub = serving[r].sub /\ v.final = serving[r].final
       /\ v.source = serving[r].source /\ v.cases = serving[r].cases
  BY <1>2, <1>13 DEF ServingRow
<1>16. Moves(r, v)
  BY <1>9, <1>13
<1>17. /\ serving' \in [Requests -> ServingRow] /\ serving'[r] = v
       /\ \A q \in Requests : q # r => serving'[q] = serving[q]
  BY <1>14, <1>16, MovesOne DEF CodingInv
<1>18. JobsStay
  BY <1>10, <1>12 DEF JobsStay
<1>19. SubsAlike /\ ScoresAlike /\ SubsStay /\ \A k \in Subs : sub'[k].latest = sub[k].latest
  BY <1>1, RowsStay
<1>20. Knows(v)' /\ Counts(v)'
  <2>1. Used(i)' /\ (RunnerUsable' <=> RunnerUsable)
    BY <1>1, <1>4 DEF Used, RunnerUsable
  <2>2. Knows(v)'
    BY <1>1, <1>2, <1>3, <1>4, <1>8, <1>10, <1>12, <1>15, <2>1, Numbers DEF Knows, Judge
  <2> QED
    BY <1>15, <2>2 DEF Counts
<1>21. \A w \in {serving[q] : q \in Requests \ {r}} :
           Apart(v, w)' /\ Apart(w, v)' /\ Counts(w)'
  <2> SUFFICES ASSUME NEW q \in Requests \ {r}, NEW w, w = serving[q]
               PROVE  Apart(v, w)' /\ Apart(w, v)'
    BY <1>1, OthersCount
  <2>1. w \in ServingRow /\ Knows(w) /\ Apart(serving[r], w) /\ Apart(w, serving[r])
    BY DEF CodingInv, CodingRows
  <2>2. w.job # j
    BY <1>10, <2>1 DEF Knows
  <2> QED
    BY <1>1, <1>15, <2>1, <2>2 DEF Apart
<1>22. /\ \A q \in Requests : Knows(serving[q])' /\ Counts(serving[q])'
       /\ \A q, s \in Requests : q # s => Apart(serving[q], serving[s])'
  BY <1>1, <1>14, <1>16, <1>18, <1>19, <1>20, <1>21, OthersKnow
<1>23. CodingRows'
  BY <1>1, <1>12, <1>17 DEF CodingInv, CodingRows
<1>24. SubsInOrder' /\ Numbered' /\ HiddenOnlyFinal'
  BY <1>1, <1>19, SubsInOrderStays, NumberedStays, HiddenStays DEF CodingInv
<1>25. Shows'
  <2>1. \A q \in Requests : At(q, "update") => serving'[q] = serving[q]
    BY <1>1, <1>17 DEF At
  <2> QED
    BY <1>1, <1>19, <2>1, ShowsStays DEF CodingInv
<1>26. Answers'
  <2>1. \A q \in Requests : serving'[q].user = serving[q].user /\ serving'[q].sub = serving[q].sub
                            /\ serving'[q].final = serving[q].final
    BY <1>15, <1>17
  <2> QED
    BY <1>1, <1>19, <2>1, AnswersStays DEF CodingInv
<1>27. Rooms'
  <2>1. \A s \in Students \ open : InFlight(s)' \subseteq InFlight(s)
    BY <1>15, <1>17 DEF InFlight
  <2> QED
    BY <1>1, <2>1, RoomsStays DEF CodingInv
<1>28. Compared'
  <2>1. \A q \in Requests : At(q, "match")' => serving'[q] = serving[q]
    BY <1>15, <1>17 DEF At
  <2> QED
    BY <1>1, <1>19, <2>1, ComparedStays DEF CodingInv
<1>29. JobAccounted'
  <2> SUFFICES ASSUME NEW k \in JobIds, runner'[k].status = "RUNNING"
               PROVE  runner'[k].sub \in torn \/ \E q \in Requests : serving'[q].job = k
    BY <1>1 DEF JobAccounted
  <2>1. CASE k = j
    BY <1>15, <1>17, <2>1
  <2>2. CASE k # j
    <3>1. runner'[k] = runner[k]
      BY <1>12, <2>2
    <3>2. runner[k].sub \in torn \/ \E q \in Requests : serving[q].job = k
      BY <3>1 DEF CodingInv, JobAccounted
    <3> QED
      BY <1>4, <1>17, <3>1, <3>2, Numbers
  <2> QED
    BY <2>1, <2>2
<1> QED
  BY <1>22, <1>23, <1>24, <1>25, <1>26, <1>27, <1>28, <1>29 DEF CodingInv

LEMMA CodingUpdateSubmission ==
  ASSUME CodingInv, NEW r \in Requests, UpdateSubmission(r)
  PROVE  CodingInv'
<1>1. /\ serving[r].pc = "update" /\ env' = env /\ open' = open /\ room' = room
      /\ runner' = runner /\ evals' = evals
      /\ answer' = answer /\ match' = match /\ plag' = plag
      /\ torn' = torn /\ overlapped' = overlapped
  BY DEF UpdateSubmission, At, idleRows
<1>2. serving[r] \in ServingRow /\ Knows(serving[r]) /\ Counts(serving[r])
  BY DEF CodingInv, CodingRows
<1>3. PICK i, u, src, cases, job : /\ i = serving[r].sub /\ u = serving[r].user
                                   /\ src = serving[r].source /\ cases = serving[r].cases
                                   /\ job = serving[r].job
  OBVIOUS
<1>4. /\ i \in Subs /\ u \in Users /\ Used(i) /\ job \in JobIds /\ src = sub[i].source
      /\ cases \in SUBSET TestCases /\ RunnerUsable
  BY <1>1, <1>2, <1>3 DEF Knows, Judge, ServingRow
<1>5. PICK score, shown, tests : /\ score = Earned(src, cases) /\ shown = FinalStatus(src, cases)
                                  /\ tests = Cardinality(cases)
  OBVIOUS
<1>6. score \in 0..Marks /\ shown \in SubStatuses /\ tests \in Nat
  <2>1. src \in Sources
    BY <1>4 DEF CodingInv, SubsInOrder
  <2> QED
    BY <1>4, <1>5, <2>1, EarnedIn, CardinalNat DEF FinalStatus, SubStatuses
<1>7. PICK x : x = [sub[i] EXCEPT !.status = shown, !.score = score, !.tests = tests, !.latest = job]
  OBVIOUS
<1>8. sub \in [Subs -> SubRow] /\ sub[i] \in SubRow
  BY <1>4 DEF CodingInv, CodingRows
<1>9. x \in SubRow
  BY <1>4, <1>6, <1>7, <1>8 DEF SubRow
<1>10. /\ x.owner = sub[i].owner /\ x.source = sub[i].source /\ x.final = sub[i].final
       /\ x.latest = job /\ x.score = score /\ x.tests = tests
  BY <1>7, <1>8 DEF SubRow
<1>11. sub' = [sub EXCEPT ![i] = x]
  BY <1>3, <1>5, <1>7 DEF UpdateSubmission
<1>12. /\ sub' \in [Subs -> SubRow] /\ sub'[i] = x
       /\ \A k \in Subs : k # i => sub'[k] = sub[k]
  BY <1>4, <1>8, <1>9, <1>11
<1>13. SubsAlike /\ SubsStay /\ JobsStay /\ \A k \in Subs : ~Used(k) => sub'[k] = sub[k]
  BY <1>1, <1>4, <1>10, <1>12 DEF SubsAlike, SubsStay, JobsStay
<1>14. PICK v : v = [serving[r] EXCEPT !.pc = "complete"]
  OBVIOUS
<1>15. Moves(r, v) /\ v \in ServingRow
  BY <1>2, <1>14 DEF UpdateSubmission, Continue, Moves, ServingRow, Steps
<1>16. /\ v.pc = "complete" /\ v.job = serving[r].job /\ v.user = serving[r].user
       /\ v.sub = serving[r].sub /\ v.final = serving[r].final
       /\ v.source = serving[r].source /\ v.cases = serving[r].cases
  BY <1>2, <1>14 DEF ServingRow
<1>17. /\ serving' \in [Requests -> ServingRow] /\ serving'[r] = v
       /\ \A q \in Requests : q # r => serving'[q] = serving[q]
  BY <1>15, MovesOne DEF CodingInv
<1>18. Knows(v)' /\ Counts(v)'
  <2>1. Knows(v)
    BY <1>1, <1>2, <1>16 DEF Knows, Judge
  <2> QED
    BY <1>1, <1>13, <1>15, <1>16, <2>1, KnowsStays DEF CodingInv, Counts
<1>19. \A w \in {serving[q] : q \in Requests \ {r}} :
           Apart(v, w)' /\ Apart(w, v)' /\ Counts(w)'
  <2> SUFFICES ASSUME NEW q \in Requests \ {r}, NEW w, w = serving[q]
               PROVE  Apart(v, w)' /\ Apart(w, v)'
    BY <1>1, OthersCount
  <2>1. Apart(serving[r], w) /\ Apart(w, serving[r])
    BY DEF CodingInv
  <2> QED
    BY <1>1, <1>16, <2>1 DEF Apart
<1>20. /\ \A q \in Requests : Knows(serving[q])' /\ Counts(serving[q])'
       /\ \A q, s \in Requests : q # s => Apart(serving[q], serving[s])'
  BY <1>1, <1>13, <1>15, <1>18, <1>19, OthersKnow
<1>21. CodingRows'
  BY <1>1, <1>12, <1>17 DEF CodingInv, CodingRows
<1>22. SubsInOrder' /\ Numbered' /\ HiddenOnlyFinal'
  BY <1>1, <1>13, SubsInOrderStays, NumberedStays, HiddenStays DEF CodingInv
<1>23. Shows'
  <2> SUFFICES ASSUME NEW k \in Subs, k \notin torn, \A q \in Judging(k)' : ~At(q, "update")',
                      NEW e \in Of(k), e.version = Cardinality(Of(k))
               PROVE  Fits(k, e)'
    <3>1. \A n \in Subs : Of(n)' = Of(n)
      BY <1>1 DEF Of
    <3> QED
      BY <1>1, <3>1 DEF Shows
  <2>1. CASE k = i
    <3>1. PICK d \in evals : Written(serving[r], d)
      BY <1>1, <1>2 DEF Counts
    <3>2. d.sub = i /\ d.version = Cardinality(Of(i))
      BY <1>1, <1>2, <1>3, <2>1, <3>1 DEF Counts, Written
    <3>3. e \in evals /\ e.sub = i
      BY <2>1 DEF Of
    <3>4. e = d
      BY <2>1, <3>2, <3>3 DEF CodingInv, Numbered
    <3> QED
      BY <1>3, <1>5, <1>10, <1>12, <2>1, <3>1, <3>4 DEF Fits, Written
  <2>2. CASE k # i
    <3>1. \A q \in Judging(k) : ~At(q, "update")
      BY <1>3, <1>17, <2>2 DEF Judging, At
    <3>2. Fits(k, e)
      BY <3>1 DEF Shows, CodingInv
    <3> QED
      BY <1>12, <2>2, <3>2 DEF Fits
  <2> QED
    BY <2>1, <2>2
<1>24. Answers'
  <2>1. \A q \in Requests : serving'[q].user = serving[q].user /\ serving'[q].sub = serving[q].sub
                            /\ serving'[q].final = serving[q].final
    BY <1>16, <1>17
  <2> QED
    BY <1>1, <1>4, <1>13, <2>1, AnswersStays DEF CodingInv
<1>25. Rooms'
  <2>1. \A s \in Students \ open : InFlight(s)' \subseteq InFlight(s)
    BY <1>16, <1>17 DEF InFlight
  <2> QED
    BY <1>1, <2>1, RoomsStays DEF CodingInv
<1>26. Compared'
  <2>1. \A q \in Requests : At(q, "match")' => serving'[q] = serving[q]
    BY <1>16, <1>17 DEF At
  <2> QED
    BY <1>1, <1>13, <2>1, ComparedStays DEF CodingInv
<1>27. JobAccounted'
  <2>1. \A q \in Requests : serving'[q].job = serving[q].job
    BY <1>16, <1>17
  <2> QED
    BY <1>1, <2>1, JobAccountedStays DEF CodingInv
<1> QED
  BY <1>20, <1>21, <1>22, <1>23, <1>24, <1>25, <1>26, <1>27 DEF CodingInv

LEMMA CodingCompleteJob ==
  ASSUME CodingInv, NEW r \in Requests, CompleteJob(r)
  PROVE  CodingInv'
<1>1. /\ serving[r].pc = "complete" /\ env' = env /\ open' = open /\ room' = room
      /\ sub' = sub /\ evals' = evals
      /\ answer' = answer /\ match' = match /\ plag' = plag
      /\ torn' = torn /\ overlapped' = overlapped
  BY DEF CompleteJob, At, idleRows
<1>2. serving[r] \in ServingRow /\ Knows(serving[r])
  BY DEF CodingInv, CodingRows
<1>3. PICK i, u, j : i = serving[r].sub /\ u = serving[r].user /\ j = serving[r].job
  OBVIOUS
<1>4. /\ i \in Subs /\ u \in Users /\ Used(i) /\ j \in JobIds /\ runner[j].sub = i
  BY <1>1, <1>2, <1>3 DEF Knows, Judge
<1>5. PICK x : x = [runner[j] EXCEPT !.status = "COMPLETED"]
  OBVIOUS
<1>6. runner \in [JobIds -> RunnerRow] /\ runner[j] \in RunnerRow
  BY <1>4 DEF CodingInv, CodingRows
<1>7. x \in RunnerRow /\ x.status = "COMPLETED" /\ x.sub = i
  BY <1>4, <1>5, <1>6 DEF RunnerRow
<1>8. runner' = [runner EXCEPT ![j] = x]
  BY <1>3, <1>5 DEF CompleteJob
<1>9. /\ runner' \in [JobIds -> RunnerRow] /\ runner'[j] = x
      /\ \A k \in JobIds : k # j => runner'[k] = runner[k]
  BY <1>4, <1>6, <1>7, <1>8
<1>10. JobsStay
  BY <1>4, <1>7, <1>9 DEF JobsStay
<1>11. SubsAlike /\ ScoresAlike /\ SubsStay /\ \A k \in Subs : sub'[k].latest = sub[k].latest
  BY <1>1, RowsStay
<1>12. u \in Students <=> UserRole[u] = "STUDENT"
  BY <1>4, StudentOnly
<1>13. PICK v : v = IF serving[r].final /\ u \in Students
                    THEN [serving[r] EXCEPT !.pc = "answer"] ELSE NoReq
  OBVIOUS
<1>14. Moves(r, v)
  BY <1>3, <1>12, <1>13 DEF CompleteJob, Continue, Finish, Moves
<1>15. serving[r].final /\ u \in Students =>
          /\ v \in ServingRow /\ v.pc = "answer" /\ v.job = j /\ v.user = u
          /\ v.sub = i /\ v.final = serving[r].final
          /\ v.source = serving[r].source /\ v.cases = serving[r].cases
  BY <1>2, <1>3, <1>13 DEF ServingRow, Steps
<1>16. ~(serving[r].final /\ u \in Students) => v = NoReq
  BY <1>13
<1>17. v \in ServingRow /\ v.pc \in {"answer", "idle"}
  BY <1>15, <1>16, NothingKnown
<1>18. /\ serving' \in [Requests -> ServingRow] /\ serving'[r] = v
       /\ \A q \in Requests : q # r => serving'[q] = serving[q]
  BY <1>14, <1>17, MovesOne DEF CodingInv
<1>19. Knows(v)' /\ Counts(v)'
  <2>1. CASE serving[r].final /\ u \in Students
    <3>1. Used(i)' /\ (RunnerUsable' <=> RunnerUsable)
      BY <1>1, <1>4 DEF Used, RunnerUsable
    <3>2. Knows(v)'
      BY <1>1, <1>2, <1>3, <1>4, <1>7, <1>9, <1>15, <2>1, <3>1, Numbers, ZenonT(60) DEF Knows, Judge
    <3> QED
      BY <1>15, <2>1, <3>2 DEF Counts
  <2> QED
    BY <1>16, <2>1, NothingKnown
<1>20. \A w \in {serving[q] : q \in Requests \ {r}} :
           Apart(v, w)' /\ Apart(w, v)' /\ Counts(w)'
  <2>1. CASE serving[r].final /\ u \in Students
    <3> SUFFICES ASSUME NEW q \in Requests \ {r}, NEW w, w = serving[q]
                 PROVE  Apart(v, w)' /\ Apart(w, v)'
      BY <1>1, OthersCount
    <3>1. Apart(serving[r], w) /\ Apart(w, serving[r])
      BY DEF CodingInv
    <3> QED
      BY <1>1, <1>3, <1>15, <2>1, <3>1 DEF Apart
  <2>2. CASE ~(serving[r].final /\ u \in Students)
    BY <1>1, <1>16, <2>2, NobodyNear, OthersCount
  <2> QED
    BY <2>1, <2>2
<1>21. /\ \A q \in Requests : Knows(serving[q])' /\ Counts(serving[q])'
       /\ \A q, s \in Requests : q # s => Apart(serving[q], serving[s])'
  BY <1>1, <1>10, <1>11, <1>14, <1>17, <1>19, <1>20, OthersKnow
<1>22. CodingRows'
  BY <1>1, <1>9, <1>18 DEF CodingInv, CodingRows
<1>23. SubsInOrder' /\ Numbered' /\ HiddenOnlyFinal'
  BY <1>1, <1>11, SubsInOrderStays, NumberedStays, HiddenStays DEF CodingInv
<1>24. Shows'
  <2>1. \A q \in Requests : At(q, "update") => serving'[q] = serving[q]
    BY <1>1, <1>18 DEF At
  <2> QED
    BY <1>1, <1>11, <2>1, ShowsStays DEF CodingInv
<1>25. Answers'
  <2>1. \A q \in Requests : serving[q].sub # 0 /\ serving[q].user \in Students =>
             \/ serving'[q].user = serving[q].user /\ serving'[q].sub = serving[q].sub
             \/ serving[q].sub \in torn' \/ ~sub[serving[q].sub].final
    <3> SUFFICES ASSUME u \in Students, ~serving[r].final PROVE ~sub[i].final
      BY <1>3, <1>15, <1>18
    <3> QED
      BY <1>1, <1>2, <1>3 DEF Knows, Judge
  <2>2. \A q \in Requests : serving'[q].user \in Students \ overlapped'
               /\ serving'[q].sub # 0 /\ serving'[q].final =>
             /\ serving[q].user = serving'[q].user /\ serving[q].sub = serving'[q].sub
             /\ serving[q].final
    <3>1. v.sub # 0 => v.user = serving[r].user /\ v.sub = serving[r].sub /\ serving[r].final
      BY <1>3, <1>15, <1>16, NothingKnown
    <3> QED
      BY <1>18, <3>1
  <2> QED
    BY <1>1, <1>11, <2>1, <2>2, AnswersStays DEF CodingInv
<1>26. Rooms'
  <2>1. \A s \in Students \ open : InFlight(s)' \subseteq InFlight(s)
    BY <1>17, <1>18 DEF InFlight
  <2> QED
    BY <1>1, <2>1, RoomsStays DEF CodingInv
<1>27. Compared'
  <2>1. \A q \in Requests : At(q, "match")' => serving'[q] = serving[q]
    BY <1>17, <1>18 DEF At
  <2> QED
    BY <1>1, <1>11, <2>1, ComparedStays DEF CodingInv
<1>28. JobAccounted'
  <2>1. \A q \in Requests : serving[q].job \in JobIds =>
             \/ serving'[q].job = serving[q].job
             \/ runner'[serving[q].job].status # "RUNNING"
    BY <1>3, <1>7, <1>9, <1>18
  <2>2. \A k \in JobIds : runner'[k].status = "RUNNING" =>
             runner[k].status = "RUNNING" /\ runner'[k].sub = runner[k].sub
    BY <1>7, <1>9
  <2> QED
    BY <1>1, <2>1, <2>2, JobAccountedStays DEF CodingInv
<1> QED
  BY <1>21, <1>22, <1>23, <1>24, <1>25, <1>26, <1>27, <1>28 DEF CodingInv

LEMMA CodingUpsertAnswer ==
  ASSUME CodingInv, NEW r \in Requests, UpsertAnswer(r)
  PROVE  CodingInv'
<1>1. /\ serving[r].pc = "answer" /\ env' = env /\ open' = open /\ room' = room
      /\ sub' = sub /\ evals' = evals /\ runner' = runner
      /\ match' = match /\ plag' = plag
      /\ torn' = torn /\ overlapped' = overlapped
      /\ answer' = [answer EXCEPT ![serving[r].user] = serving[r].sub]
      /\ Moves(r, NoReq)
  BY DEF UpsertAnswer, At, idleRows, Finish, Continue, Moves
<1>2. serving[r] \in ServingRow /\ Knows(serving[r])
  BY DEF CodingInv, CodingRows
<1>3. PICK i, u, j : i = serving[r].sub /\ u = serving[r].user /\ j = serving[r].job
  OBVIOUS
<1>4. /\ i \in Subs /\ u \in Students /\ Used(i) /\ j \in JobIds /\ runner[j].status # "RUNNING"
      /\ sub[i].owner = u /\ sub[i].final /\ serving[r].final /\ i # 0 /\ RunnerUsable
  BY <1>1, <1>2, <1>3, Numbers DEF Knows, Judge
<1>5. /\ serving' \in [Requests -> ServingRow] /\ serving'[r] = NoReq
      /\ \A q \in Requests : q # r => serving'[q] = serving[q]
  BY <1>1, NothingKnown, MovesOne DEF CodingInv
<1>6. SubsAlike /\ ScoresAlike /\ SubsStay /\ JobsStay
  BY <1>1, RowsStay
<1>7. answer \in [Students -> {0} \cup Subs] /\ answer' \in [Students -> {0} \cup Subs]
      /\ answer'[u] = i /\ \A s \in Students : s # u => answer'[s] = answer[s]
  BY <1>1, <1>3, <1>4 DEF CodingInv, CodingRows
<1>8. /\ \A q \in Requests : Knows(serving[q])' /\ Counts(serving[q])'
      /\ \A q, s \in Requests : q # s => Apart(serving[q], serving[s])'
  <2>1. \A w \in {serving[q] : q \in Requests \ {r}} :
           Apart(NoReq, w)' /\ Apart(w, NoReq)' /\ Counts(w)'
    BY <1>1, NobodyNear, OthersCount
  <2> QED
    BY <1>1, <1>6, <2>1, NothingKnown, OthersKnow
<1>9. CodingRows'
  BY <1>1, <1>5, <1>7 DEF CodingInv, CodingRows
<1>10. SubsInOrder' /\ Numbered' /\ HiddenOnlyFinal'
  BY <1>1, <1>6, SubsInOrderStays, NumberedStays, HiddenStays DEF CodingInv
<1>11. Shows'
  <2>1. \A q \in Requests : At(q, "update") => serving'[q] = serving[q]
    BY <1>1, <1>5 DEF At
  <2> QED
    BY <1>1, <1>6, <2>1, ShowsStays DEF CodingInv
<1>12. Answers'
  <2>1. Answers
    BY DEF CodingInv
  <2>2. RunnerUsable' <=> RunnerUsable
    BY <1>1 DEF RunnerUsable
  <2>3. ASSUME NEW s \in Students, answer'[s] # 0
        PROVE  Used(answer[s])' /\ sub'[answer'[s]].owner = s /\ sub'[answer'[s]].final
    <3>1. PICK k \in Subs : k = answer'[s]
      BY <1>7, <2>3
    <3>2. Used(k) /\ sub[k].owner = s /\ sub[k].final
      BY <1>4, <1>7, <2>1, <2>3, <3>1 DEF Answers
    <3> QED
      BY <1>1, <3>1, <3>2 DEF Used
  <2>4. ASSUME NEW s \in Students \ overlapped, NEW k \in Ended(s)'
        PROVE  k <= answer'[s]
    <3>1. /\ k \in Subs /\ sub[k].owner = s /\ sub[k].final /\ k \notin torn
          /\ ~\E q \in Requests : serving'[q].user = s /\ serving'[q].sub = k
      BY <1>1, <2>4 DEF Ended
    <3>2. CASE s = u
      <4>1. k <= i
        BY <1>3, <1>4, <2>1, <3>1, <3>2 DEF Answers
      <4> QED
        BY <1>7, <3>2, <4>1
    <3>3. CASE s # u
      <4>1. \A q \in Requests : serving[q].user = s => serving[q].sub # k
        BY <1>3, <1>5, <3>1, <3>3
      <4>2. k \in Ended(s)
        BY <3>1, <4>1 DEF Ended
      <4> QED
        BY <1>4, <1>7, <2>1, <3>3, <4>2 DEF Answers
    <3> QED
      BY <3>2, <3>3
  <2>5. ASSUME NEW q \in Requests, serving'[q].user \in Students \ overlapped,
               serving'[q].sub # 0, serving'[q].final,
               NEW k \in Subs, sub'[k].owner = serving'[q].user, sub'[k].final
        PROVE  k <= serving'[q].sub
    <3>1. serving'[q] = serving[q]
      BY <1>5, <2>5, NothingKnown
    <3> QED
      BY <1>1, <2>1, <2>5, <3>1 DEF Answers
  <2> QED
    BY <1>1, <1>4, <2>2, <2>3, <2>4, <2>5 DEF Answers
<1>13. Rooms'
  <2>1. \A s \in Students \ open : InFlight(s)' \subseteq InFlight(s)
    BY <1>5, NothingKnown DEF InFlight
  <2> QED
    BY <1>1, <2>1, RoomsStays DEF CodingInv
<1>14. Compared'
  <2>1. \A q \in Requests : At(q, "match")' => serving'[q] = serving[q]
    BY <1>5, NothingKnown DEF At
  <2> QED
    BY <1>1, <1>6, <2>1, ComparedStays DEF CodingInv
<1>15. JobAccounted'
  <2>1. \A q \in Requests : serving[q].job \in JobIds =>
             \/ serving'[q].job = serving[q].job
             \/ runner'[serving[q].job].status # "RUNNING"
    BY <1>1, <1>3, <1>4, <1>5
  <2> QED
    BY <1>1, <2>1, JobAccountedStays DEF CodingInv
<1> QED
  BY <1>8, <1>9, <1>10, <1>11, <1>12, <1>13, <1>14, <1>15 DEF CodingInv

LEMMA CodingCreateEvaluation ==
  ASSUME CodingInv, NEW r \in Requests, CreateEvaluation(r)
  PROVE  CodingInv'
<1>1. /\ serving[r].pc = "evaluation" /\ env' = env /\ open' = open /\ room' = room
      /\ sub' = sub /\ runner' = runner
      /\ answer' = answer /\ match' = match /\ plag' = plag /\ overlapped' = overlapped
  BY DEF CreateEvaluation, At, idleRows
<1>2. serving[r] \in ServingRow /\ Knows(serving[r]) /\ Counts(serving[r])
  BY DEF CodingInv, CodingRows
<1>3. PICK i, u, j, n, src, cases :
          /\ i = serving[r].sub /\ u = serving[r].user /\ j = serving[r].job
          /\ n = serving[r].version /\ src = serving[r].source /\ cases = serving[r].cases
  OBVIOUS
<1>4. /\ i \in Subs /\ u \in Users /\ Used(i) /\ j \in JobIds /\ runner[j].sub = i /\ i # 0
      /\ cases \in SUBSET TestCases /\ n \in 1..(Cardinality(Of(i)) + 1) /\ src = sub[i].source
      /\ u \in Students => cases = CasesOf(sub[i].final)
      /\ u \in Students <=> UserRole[u] = "STUDENT"
  <2>1. i \in Subs /\ u \in Users /\ j \in JobIds
    BY <1>1, <1>2, <1>3 DEF Knows, Judge
  <2> QED
    BY <1>1, <1>2, <1>3, <2>1, StudentOnly, Numbers DEF Knows, Judge, ServingRow, Counts
<1>5. SubsAlike /\ ScoresAlike /\ SubsStay /\ JobsStay
      /\ \A k \in Subs : sub'[k].latest = sub[k].latest
  BY <1>1, RowsStay
<1>6. Compared /\ Answers /\ Rooms /\ Numbered
  BY DEF CodingInv
<1>7. CASE Collides(i, n)
  <2>1. torn' = torn \cup {i} /\ evals' = evals /\ Moves(r, NoReq)
    BY <1>3, <1>7 DEF CreateEvaluation, Finish, Continue, Moves
  <2>2. /\ serving' \in [Requests -> ServingRow] /\ serving'[r] = NoReq
        /\ \A q \in Requests : q # r => serving'[q] = serving[q]
    BY <2>1, NothingKnown, MovesOne DEF CodingInv
  <2>3. /\ \A q \in Requests : Knows(serving[q])' /\ Counts(serving[q])'
        /\ \A q, s \in Requests : q # s => Apart(serving[q], serving[s])'
    <3>1. \A w \in {serving[q] : q \in Requests \ {r}} :
             Apart(NoReq, w)' /\ Apart(w, NoReq)' /\ Counts(w)'
      BY <2>1, NobodyNear, OthersCount
    <3> QED
      BY <1>1, <1>5, <2>1, <3>1, NothingKnown, OthersKnow
  <2>4. CodingRows'
    BY <1>1, <2>1, <2>2 DEF CodingInv, CodingRows
  <2>5. SubsInOrder' /\ Numbered' /\ HiddenOnlyFinal'
    BY <1>1, <1>5, <2>1, SubsInOrderStays, NumberedStays, HiddenStays DEF CodingInv
  <2>6. Shows'
    <3>1. \A q \in Requests : At(q, "update") => serving'[q] = serving[q]
      BY <1>1, <2>2 DEF At
    <3> QED
      BY <1>1, <1>5, <2>1, <3>1, ShowsStays DEF CodingInv
  <2>7. Answers'
    <3>1. \A q \in Requests : serving[q].sub # 0 /\ serving[q].user \in Students =>
             \/ serving'[q].user = serving[q].user /\ serving'[q].sub = serving[q].sub
             \/ serving[q].sub \in torn'
      BY <1>3, <2>1, <2>2
    <3>2. \A q \in Requests : serving'[q].sub # 0 =>
             /\ serving[q].user = serving'[q].user /\ serving[q].sub = serving'[q].sub
             /\ serving[q].final = serving'[q].final
      BY <2>2, NothingKnown
    <3>3. \A q \in Requests : serving'[q].user \in Students \ overlapped'
               /\ serving'[q].sub # 0 /\ serving'[q].final =>
             /\ serving[q].user = serving'[q].user /\ serving[q].sub = serving'[q].sub
             /\ serving[q].final
      BY <3>2
    <3> QED
      BY <1>1, <1>5, <2>1, <3>1, <3>3, AnswersStays DEF CodingInv
  <2>8. Rooms'
    <3>1. \A s \in Students \ open : InFlight(s)' \subseteq InFlight(s)
      BY <2>2, NothingKnown DEF InFlight
    <3> QED
      BY <1>1, <3>1, RoomsStays DEF CodingInv
  <2>9. Compared'
    <3>1. \A q \in Requests : At(q, "match")' => serving'[q] = serving[q]
      BY <2>2, NothingKnown DEF At
    <3> QED
      BY <1>1, <1>5, <3>1, ComparedStays DEF CodingInv
  <2>10. JobAccounted'
    <3>1. \A q \in Requests : serving[q].job \in JobIds =>
             \/ serving'[q].job = serving[q].job
             \/ runner[serving[q].job].sub \in torn'
      BY <1>3, <1>4, <2>1, <2>2
    <3> QED
      BY <1>1, <2>1, <3>1, JobAccountedStays DEF CodingInv
  <2> QED
    BY <2>3, <2>4, <2>5, <2>6, <2>7, <2>8, <2>9, <2>10 DEF CodingInv
<1>8. CASE ~Collides(i, n)
  <2>1. PICK score, staff : score = Earned(src, cases) /\ staff = (UserRole[u] # "STUDENT")
    OBVIOUS
  <2>2. PICK e : e = [sub |-> i, version |-> n, job |-> j, score |-> score,
                      cases |-> cases, staff |-> staff]
    OBVIOUS
  <2>3. score \in 0..Marks /\ staff \in BOOLEAN /\ n \in Nat
    BY <1>4, <2>1, EarnedIn
  <2>4. e \in EvalRow /\ e.sub = i /\ e.version = n /\ e.job = j /\ e.score = score
        /\ e.cases = cases /\ e.staff = staff
    BY <1>4, <2>2, <2>3 DEF EvalRow
  <2>5. PICK v : v = [serving[r] EXCEPT !.pc = "update"]
    OBVIOUS
  <2>6. /\ torn' = torn /\ evals' = evals \cup {e} /\ Moves(r, v)
    BY <1>3, <1>8, <2>1, <2>2, <2>5 DEF CreateEvaluation, Continue, Moves
  <2>7. v \in ServingRow
    BY <1>2, <2>5 DEF ServingRow, Steps
  <2>8. /\ v.pc = "update" /\ v.job = j /\ v.user = u /\ v.sub = i /\ v.version = n
        /\ v.final = serving[r].final /\ v.source = src /\ v.cases = cases
    BY <1>2, <1>3, <2>5 DEF ServingRow
  <2>9. /\ serving' \in [Requests -> ServingRow] /\ serving'[r] = v
        /\ \A q \in Requests : q # r => serving'[q] = serving[q]
    BY <2>6, <2>7, MovesOne DEF CodingInv
  <2>10. /\ IsFiniteSet(Of(i)) /\ Cardinality(Of(i)) \in Nat /\ \A d \in Of(i) : d.version # n
         /\ {d.version : d \in Of(i)} = 1..Cardinality(Of(i))
    <3>1. IsFiniteSet(Of(i))
      BY FS_Subset DEF CodingInv, CodingRows, Of
    <3> QED
      BY <1>4, <1>6, <1>8, <3>1, FS_CardinalityType DEF Of, Collides, Numbered, Versions
  <2>11. n = Cardinality(Of(i)) + 1
    <3>1. n \notin 1..Cardinality(Of(i))
      BY <2>10
    <3> QED
      BY <1>4, <2>10, <3>1
  <2>12. Of(i)' = Of(i) \cup {e} /\ e \notin Of(i) /\ \A k \in Subs : k # i => Of(k)' = Of(k)
    BY <2>4, <2>6, <2>10 DEF Of
  <2>13. Cardinality(Of(i)') = Cardinality(Of(i)) + 1
    BY <2>10, <2>12, FS_AddElement, SMTT(30)
  <2>14. Knows(v)'
    <3>1. Knows(v)
      BY <1>1, <1>2, <1>3, <2>8 DEF Knows, Judge
    <3> QED
      BY <1>1, <1>5, <2>7, <3>1, KnowsStays DEF CodingInv
  <2>15. Counts(v)'
    <3>1. Written(v, e)
      BY <2>1, <2>4, <2>8 DEF Written
    <3>2. \E d \in evals' : Written(v, d)'
      BY <2>6, <3>1 DEF Written
    <3> QED
      BY <2>8, <2>11, <2>13, <3>2 DEF Counts
  <2>16. \A w \in {serving[q] : q \in Requests \ {r}} :
             Apart(v, w)' /\ Apart(w, v)' /\ Counts(w)'
    <3> SUFFICES ASSUME NEW q \in Requests \ {r}, NEW w, w = serving[q]
                 PROVE  Apart(v, w)' /\ Apart(w, v)' /\ Counts(w)'
      OBVIOUS
    <3>1. /\ Apart(serving[r], w) /\ Apart(w, serving[r]) /\ Counts(w) /\ Knows(w)
      BY DEF CodingInv
    <3>2. w \in ServingRow
      BY DEF CodingInv, CodingRows
    <3>3. Apart(v, w)' /\ Apart(w, v)'
      BY <1>1, <1>3, <2>6, <2>8, <3>1 DEF Apart
    <3>4. CASE w.sub = i
      <4>1. w.pc = "evaluation" => w.version \in 1..(Cardinality(Of(w.sub)') + 1)
        BY <2>10, <2>13, <3>1, <3>4 DEF Counts
      <4>2. w.pc = "update" => /\ \E d \in evals' : Written(w, d)'
                               /\ w.sub \in torn
        <5>1. w.pc = "update" => w.sub \in torn
          BY <1>1, <1>3, <1>4, <3>1, <3>4 DEF Apart
        <5>2. ASSUME w.pc = "update" PROVE \E d \in evals' : Written(w, d)'
          <6>1. PICK d \in evals : Written(w, d)
            BY <3>1, <5>2 DEF Counts
          <6> QED
            BY <2>6, <6>1 DEF Written
        <5> QED
          BY <5>1, <5>2
      <4> QED
        BY <2>6, <3>3, <4>1, <4>2 DEF Counts
    <3>5. CASE w.sub # i /\ w.pc \in {"evaluation", "update"}
      <4>1. w.sub \in Subs
        BY <3>1, <3>5 DEF Knows, Judge
      <4>2. Of(w.sub)' = Of(w.sub)
        BY <2>12, <3>5, <4>1
      <4>3. ASSUME w.pc = "update" PROVE \E d \in evals' : Written(w, d)'
        <5>1. PICK d \in evals : Written(w, d)
          BY <3>1, <4>3 DEF Counts
        <5> QED
          BY <2>6, <5>1 DEF Written
      <4> QED
        BY <2>6, <3>1, <3>3, <4>2, <4>3 DEF Counts
    <3>6. CASE w.pc \notin {"evaluation", "update"}
      BY <3>3, <3>6 DEF Counts
    <3> QED
      BY <3>3, <3>4, <3>5, <3>6
  <2>17. /\ \A q \in Requests : Knows(serving[q])' /\ Counts(serving[q])'
         /\ \A q, s \in Requests : q # s => Apart(serving[q], serving[s])'
    BY <1>1, <1>5, <2>6, <2>7, <2>14, <2>15, <2>16, OthersKnow
  <2>18. CodingRows'
    <3>1. IsFiniteSet(evals') /\ evals' \subseteq EvalRow
      BY <2>4, <2>6, FS_AddElement DEF CodingInv, CodingRows
    <3> QED
      BY <1>1, <2>9, <3>1 DEF CodingInv, CodingRows
  <2>19. SubsInOrder'
    <3>1. \A d \in evals' : Used(d.sub)
      BY <1>4, <2>4, <2>6 DEF CodingInv, SubsInOrder
    <3> QED
      BY <1>1, <3>1 DEF CodingInv, SubsInOrder, Used
  <2>20. Numbered'
    <3>1. ASSUME NEW k \in Subs PROVE {d.version : d \in Of(k)'} = 1..Cardinality(Of(k)')
      <4>1. CASE k = i
        <5>1. {d.version : d \in Of(i)'} = (1..Cardinality(Of(i))) \cup {n}
          BY <2>4, <2>10, <2>12
        <5> QED
          BY <2>10, <2>11, <2>13, <4>1, <5>1
      <4>2. CASE k # i
        BY <1>6, <2>12, <4>2 DEF Numbered, Versions, Of
      <4> QED
        BY <4>1, <4>2
    <3>2. Versions'
      BY <3>1 DEF Versions, Of
    <3>3. \A d, f \in evals' : d.sub = f.sub /\ d.version = f.version => d = f
      <4>1. \A d \in evals : d.sub = i => d.version # n
        BY <2>10 DEF Of
      <4>2. \A d, f \in evals : d.sub = f.sub /\ d.version = f.version => d = f
        BY <1>6 DEF Numbered
      <4> QED
        BY <2>4, <2>6, <4>1, <4>2
    <3> QED
      BY <3>2, <3>3 DEF Numbered
  <2>21. HiddenOnlyFinal'
    <3>1. sub[i].final \/ staff \/ \A t \in cases : t.public
      BY <1>4, <2>1 DEF CasesOf, PublicCases
    <3>2. \A d \in evals' : sub[d.sub].final \/ d.staff \/ \A t \in d.cases : t.public
      BY <2>4, <2>6, <3>1 DEF CodingInv, HiddenOnlyFinal
    <3> QED
      BY <1>1, <3>2 DEF HiddenOnlyFinal
  <2>22. Shows'
    <3> SUFFICES ASSUME NEW k \in Subs, k \notin torn, \A q \in Judging(k)' : ~At(q, "update")',
                        NEW d \in Of(k)', d.version = Cardinality(Of(k)')
                 PROVE  Fits(k, d)
      BY <1>1, <2>6 DEF Shows, Fits
    <3>1. k # i
      BY <2>8, <2>9 DEF Judging, At
    <3>2. Of(k)' = Of(k)
      BY <2>12, <3>1
    <3>3. \A q \in Judging(k) : ~At(q, "update")
      BY <1>1, <2>9 DEF Judging, At
    <3> QED
      BY <3>2, <3>3 DEF CodingInv, Shows
  <2>23. Answers'
    <3>1. \A q \in Requests : serving'[q].user = serving[q].user /\ serving'[q].sub = serving[q].sub
                              /\ serving'[q].final = serving[q].final
      BY <1>3, <2>8, <2>9
    <3> QED
      BY <1>1, <1>5, <2>6, <3>1, AnswersStays DEF CodingInv
  <2>24. Rooms'
    <3>1. \A s \in Students \ open : InFlight(s)' \subseteq InFlight(s)
      BY <2>8, <2>9 DEF InFlight
    <3> QED
      BY <1>1, <3>1, RoomsStays DEF CodingInv
  <2>25. Compared'
    <3>1. \A q \in Requests : At(q, "match")' => serving'[q] = serving[q]
      BY <2>8, <2>9 DEF At
    <3> QED
      BY <1>1, <1>5, <3>1, ComparedStays DEF CodingInv
  <2>26. JobAccounted'
    <3>1. \A q \in Requests : serving'[q].job = serving[q].job
      BY <1>3, <2>8, <2>9
    <3> QED
      BY <1>1, <2>6, <3>1, JobAccountedStays DEF CodingInv
  <2> QED
    BY <2>17, <2>18, <2>19, <2>20, <2>21, <2>22, <2>23, <2>24, <2>25, <2>26 DEF CodingInv
<1> QED
  BY <1>7, <1>8

-----------------------------------------------------------------------------
(* Comparisons and crashes. *)

LEMMA PairsFinite ==
  ASSUME NEW P \in SUBSET (Subs \X Subs)
  PROVE  IsFiniteSet(P) /\ Cardinality(P) \in Nat
<1>1. IsFiniteSet(Subs)
  <2>1. 1 \in Int /\ MaxSubs \in Int /\ Subs = 1..MaxSubs
    BY Numbers DEF Subs
  <2> QED
    BY <2>1, FS_Interval
<1>2. IsFiniteSet(Subs \X Subs)
  BY <1>1, FS_Product
<1> QED
  BY <1>2, FS_Subset, FS_CardinalityType

LEMMA CodingCreatePlagiarismJob ==
  ASSUME CodingInv, NEW r \in Requests, NEW u \in Users, CreatePlagiarismJob(r, u)
  PROVE  CodingInv'
<1>1. PICK is : is = {i \in Subs : sub[i] # NoSub /\ UserCollege[sub[i].owner] = UserCollege[u]}
  OBVIOUS
<1>2. PICK pairs : pairs = Matching(is)
  OBVIOUS
<1>3. is \subseteq Subs /\ pairs \subseteq Subs \X Subs /\ \A i \in is : Used(i)
  <2>1. is \subseteq Subs
    BY <1>1
  <2>2. \A i \in is : Used(i)
    BY <1>1 DEF CodingInv, SubsInOrder
  <2> QED
    BY <1>2, <2>1, <2>2 DEF Matching
<1>4. PICK v : v = [NoReq EXCEPT !.pc = "match", !.pairs = pairs, !.user = u]
  OBVIOUS
<1>5. Moves(r, v)
  BY <1>1, <1>2, <1>4 DEF CreatePlagiarismJob, Begin, Moves, NoReq
<1>6. /\ serving[r].pc = "idle" /\ plag = NoPlag
      /\ plag' = [college |-> UserCollege[u], status |-> "RUNNING", compared |-> is,
                  matches |-> Cardinality(pairs)]
      /\ env' = env /\ open' = open /\ room' = room /\ sub' = sub /\ evals' = evals
      /\ runner' = runner /\ answer' = answer /\ match' = match
      /\ torn' = torn /\ overlapped' = overlapped
  BY <1>1, <1>2 DEF CreatePlagiarismJob, Begin, idleRows
<1>7. v = [pc |-> "match", user |-> u, sub |-> 0, job |-> 0, final |-> FALSE,
           source |-> None, cases |-> {}, version |-> 0, pairs |-> pairs]
  BY <1>4 DEF NoReq
<1>8. "match" \in Steps /\ {} \in SUBSET TestCases /\ pairs \in SUBSET (Subs \X Subs)
  BY <1>3 DEF Steps
<1>9. v \in ServingRow
  BY <1>7, <1>8 DEF ServingRow
<1>10. /\ v.pc = "match" /\ v.user = u /\ v.sub = 0 /\ v.job = 0 /\ v.final = FALSE
       /\ v.pairs = pairs
  BY <1>7
<1>11. serving[r] = NoReq
  BY <1>6 DEF CodingInv, Knows
<1>12. Knows(v)' /\ Counts(v)'
  BY <1>10, Numbers DEF Knows, Counts, Judge
<1>13. match = {} /\ \A q \in Requests : serving[q].pc # "match"
  BY <1>6 DEF CodingInv, Compared, At
<1>14. \A w \in {serving[q] : q \in Requests \ {r}} : Apart(v, w)' /\ Apart(w, v)'
  <2> SUFFICES ASSUME NEW q \in Requests \ {r}, NEW w, w = serving[q]
               PROVE  Apart(v, w)' /\ Apart(w, v)'
    OBVIOUS
  <2>1. w \in ServingRow /\ Knows(w) /\ w.pc # "match"
    BY <1>13 DEF CodingInv, CodingRows
  <2> QED
    BY <1>10, <2>1 DEF Apart
<1>15. /\ serving'[r] = v /\ \A q \in Requests : q # r => serving'[q] = serving[q]
  BY <1>5, <1>9, MovesOne DEF CodingInv
<1>16. Compared'
  <2>1. Recorded' = {} /\ match' = {}
    BY <1>6, <1>13 DEF Recorded
  <2>2. Matching(is)' = pairs
    BY <1>2, <1>6 DEF Matching
  <2>3. \A i \in is : Used(i)'
    BY <1>3, <1>6 DEF Used
  <2>4. plag'.status = "RUNNING" /\ plag'.compared = is /\ plag'.matches = Cardinality(pairs)
    BY <1>6
  <2>5. plag' # NoPlag
    BY <2>4 DEF NoPlag
  <2>6. \A q \in Requests : serving'[q].pc = "match" => serving'[q].pairs = pairs
    BY <1>10, <1>13, <1>15
  <2> QED
    BY <1>3, <2>1, <2>2, <2>3, <2>4, <2>5, <2>6 DEF Compared, At
<1>17. match' \subseteq MatchRow /\ plag' \in PlagRow
  <2>1. IsFiniteSet(pairs) /\ Cardinality(pairs) \in Nat
    BY <1>3, PairsFinite
  <2>2. UserCollege[u] \in Colleges \cup {None}
    BY CodingAssumption
  <2> QED
    BY <1>3, <1>6, <1>13, <2>1, <2>2 DEF PlagRow
<1> QED
  BY <1>5, <1>6, <1>9, <1>10, <1>11, <1>12, <1>14, <1>16, <1>17, NothingKnown, RequestCompares

LEMMA CodingRecordMatch ==
  ASSUME CodingInv, NEW r \in Requests, RecordMatch(r)
  PROVE  CodingInv'
<1>1. /\ serving[r].pc = "match"
      /\ env' = env /\ open' = open /\ room' = room /\ sub' = sub /\ evals' = evals
      /\ runner' = runner /\ answer' = answer
      /\ torn' = torn /\ overlapped' = overlapped
  BY DEF RecordMatch, At, idleRows
<1>2. serving[r] \in ServingRow /\ Knows(serving[r]) /\ serving[r].sub = 0 /\ serving[r].job = 0
      /\ serving[r].final = FALSE
  BY <1>1 DEF CodingInv, CodingRows, Knows, Judge, ServingRow
<1>3. /\ Compared /\ plag.status = "RUNNING" /\ plag # NoPlag
      /\ serving[r].pairs = Matching(plag.compared) \ Recorded
      /\ \A q \in Requests : q # r => serving[q].pc # "match"
  BY <1>1 DEF CodingInv, Compared, At, Apart, NoPlag
<1>4. PICK C, M : C = plag.compared /\ M = Matching(C)
  OBVIOUS
<1>5. /\ Matching(C)' = M /\ M \subseteq Subs \X Subs
      /\ C \subseteq Subs /\ \A i \in C : Used(i) /\ Used(i)'
  BY <1>1, <1>3, <1>4 DEF Compared, Matching, Used
<1>6. plag \in PlagRow /\ match \subseteq MatchRow
  BY DEF CodingInv, CodingRows
<1>7. \A i \in Subs : Used(i)' <=> Used(i)
  BY <1>1 DEF Used
<1>8. CASE serving[r].pairs = {}
  <2>1. plag' = [plag EXCEPT !.status = "COMPLETED"] /\ match' = match /\ Moves(r, NoReq)
    BY <1>8 DEF RecordMatch, Finish, Continue, Moves
  <2>2. /\ plag' \in PlagRow /\ plag'.status = "COMPLETED" /\ plag'.compared = C
        /\ plag'.matches = plag.matches
    BY <1>4, <1>6, <2>1 DEF PlagRow
  <2>3. /\ serving'[r] = NoReq /\ \A q \in Requests : q # r => serving'[q] = serving[q]
    BY <2>1, NothingKnown, MovesOne DEF CodingInv
  <2>4. Compared'
    <3>1. Recorded' = Recorded /\ Recorded = M
      BY <1>3, <1>4, <1>8, <2>1 DEF Recorded, Compared
    <3>2. plag' # NoPlag
      BY <2>2 DEF NoPlag
    <3>3. \A q \in Requests : serving'[q].pc # "match"
      BY <1>3, <2>3, NothingKnown
    <3> QED
      BY <1>3, <1>4, <1>5, <2>1, <2>2, <3>1, <3>2, <3>3 DEF Compared, At
  <2>5. \A w \in {serving[q] : q \in Requests \ {r}} : Apart(NoReq, w)' /\ Apart(w, NoReq)'
    BY NobodyNear
  <2> QED
    BY <1>1, <1>2, <1>6, <2>1, <2>2, <2>4, <2>5, NothingKnown, RequestCompares
<1>9. CASE serving[r].pairs # {}
  <2>1. PICK p : p = CHOOSE q \in serving[r].pairs : TRUE
    OBVIOUS
  <2>2. p \in serving[r].pairs
    BY <1>9, <2>1
  <2>3. PICK a \in Subs, b \in Subs : p = <<a, b>>
    BY <1>3, <1>4, <1>5, <2>2
  <2>4. PICK x : x = [a |-> a, b |-> b, status |-> "UNREVIEWED", by |-> None]
    OBVIOUS
  <2>5. PICK left : left = serving[r].pairs \ {p}
    OBVIOUS
  <2>6. PICK v : v = [serving[r] EXCEPT !.pairs = left]
    OBVIOUS
  <2>7. match' = match \cup {x} /\ plag' = plag /\ Moves(r, v)
    <3>1. /\ match' = match \cup {[a |-> p[1], b |-> p[2], status |-> "UNREVIEWED",
                                      by |-> None]}
          /\ Continue(r, [serving[r] EXCEPT !.pairs = @ \ {p}]) /\ plag' = plag
      BY <1>9, <2>1 DEF RecordMatch
    <3>2. p[1] = a /\ p[2] = b
      BY <2>3
    <3>3. [serving[r] EXCEPT !.pairs = @ \ {p}] = v
      BY <1>2, <2>5, <2>6 DEF ServingRow
    <3> QED
      BY <2>4, <3>1, <3>2, <3>3 DEF Continue, Moves
  <2>8. x \in MatchRow /\ x.a = a /\ x.b = b
    BY <2>4 DEF MatchRow
  <2>9. left \in SUBSET (Subs \X Subs)
    BY <1>2, <2>5 DEF ServingRow
  <2>10. v \in ServingRow
    BY <1>2, <2>6, <2>9 DEF ServingRow
  <2>11. /\ v.pc = "match" /\ v.user = serving[r].user /\ v.sub = 0 /\ v.job = 0
         /\ v.final = FALSE /\ v.pairs = left
    BY <1>1, <1>2, <2>6 DEF ServingRow
  <2>12. /\ serving'[r] = v /\ \A q \in Requests : q # r => serving'[q] = serving[q]
    BY <2>7, <2>10, MovesOne DEF CodingInv
  <2>13. Knows(v)' /\ Counts(v)'
    <3>1. v.user # None
      BY <1>1, <1>2, <2>11 DEF Knows
    <3> QED
      BY <2>11, <3>1, Numbers DEF Knows, Counts, Judge
  <2>14. \A w \in {serving[q] : q \in Requests \ {r}} : Apart(v, w)' /\ Apart(w, v)'
    <3> SUFFICES ASSUME NEW q \in Requests \ {r}, NEW w, w = serving[q]
                 PROVE  Apart(v, w)' /\ Apart(w, v)'
      OBVIOUS
    <3>1. w \in ServingRow /\ Knows(w) /\ w.pc # "match"
      BY <1>3 DEF CodingInv, CodingRows
    <3> QED
      BY <2>11, <3>1 DEF Apart
  <2>15. Recorded' = Recorded \cup {<<a, b>>}
    BY <2>7, <2>8 DEF Recorded
  <2>16. <<a, b>> \notin Recorded /\ <<a, b>> \in M
    BY <1>3, <1>4, <2>2, <2>3
  <2>17. \A d, f \in match' : d.a = f.a /\ d.b = f.b => d = f
    <3>1. \A d \in match : ~(d.a = a /\ d.b = b)
      BY <2>16 DEF Recorded
    <3> QED
      BY <1>3, <2>7, <2>8, <3>1 DEF Compared
  <2>18. left = M \ Recorded'
    BY <1>3, <1>4, <2>3, <2>5, <2>15
  <2>19. Compared'
    <3>1. \A q \in Requests : serving'[q].pc = "match" => serving'[q].pairs = left
      BY <1>3, <2>11, <2>12
    <3>2. Matching(plag.compared)' = M /\ plag' = plag
      BY <1>4, <1>5, <2>7
    <3> QED
      BY <1>3, <1>4, <1>5, <2>7, <2>15, <2>16, <2>17, <2>18, <3>1, <3>2 DEF Compared, At
  <2>20. match' \subseteq MatchRow /\ plag' \in PlagRow
    BY <1>6, <2>7, <2>8
  <2> QED
    BY <1>1, <1>2, <2>7, <2>10, <2>11, <2>13, <2>14, <2>19, <2>20, RequestCompares
<1> QED
  BY <1>8, <1>9

LEMMA CodingCrash ==
  ASSUME CodingInv, Crash
  PROVE  CodingInv'
<1>1. /\ env' = env /\ open' = open /\ room' = room /\ sub' = sub /\ evals' = evals
      /\ runner' = runner /\ answer' = answer /\ match' = match /\ plag' = plag
      /\ overlapped' = overlapped /\ serving' = [r \in Requests |-> NoReq]
      /\ torn' = torn \cup {serving[r].sub : r \in {q \in Requests : serving[q].sub # 0}}
  BY DEF Crash, rows
<1>2. \A r \in Requests : serving'[r] = NoReq
  BY <1>1
<1>3. SubsAlike /\ ScoresAlike /\ SubsStay /\ JobsStay
  BY <1>1, RowsStay
<1>4. \A r \in Requests : serving[r].sub # 0 => serving[r].sub \in torn'
  BY <1>1
<1>5. CodingRows'
  BY <1>1, NothingKnown DEF CodingInv, CodingRows
<1>6. SubsInOrder' /\ Numbered' /\ HiddenOnlyFinal'
  BY <1>1, <1>3, SubsInOrderStays, NumberedStays, HiddenStays DEF CodingInv
<1>7. \A q \in Requests : Knows(serving[q])' /\ Counts(serving[q])'
  <2> SUFFICES ASSUME NEW q \in Requests, NEW w, w = serving'[q]
               PROVE  Knows(serving[q])' /\ Counts(serving[q])'
    OBVIOUS
  <2>1. Knows(w)' /\ Counts(w)'
    <3>1. w = NoReq
      BY <1>2
    <3>2. /\ w.pc = "idle" /\ w.user = None /\ w.sub = 0 /\ w.job = 0 /\ w.final = FALSE
      BY <3>1, NothingKnown
    <3> QED
      BY <3>1, <3>2, Numbers DEF Knows, Counts, Judge
  <2> QED
    BY <2>1 DEF Knows, Counts, Written, Used, Of
<1>8. \A q, s \in Requests : q # s => Apart(serving[q], serving[s])'
  BY <1>2, Numbers DEF Apart, NoReq
<1>9. Shows'
  <2> SUFFICES ASSUME NEW k \in Subs, k \notin torn',
                      NEW e \in Of(k), e.version = Cardinality(Of(k))
               PROVE  Fits(k, e)'
    <3>1. \A n \in Subs : Of(n)' = Of(n)
      BY <1>1 DEF Of
    <3> QED
      BY <1>1, <3>1 DEF Shows
  <2>1. Judging(k) = {} /\ k \notin torn
    BY <1>1, <1>4, Numbers DEF Judging
  <2>2. Fits(k, e)
    BY <2>1 DEF CodingInv, Shows
  <2> QED
    BY <1>1, <2>2 DEF Fits
<1>10. Answers'
  <2>1. \A q \in Requests : serving[q].sub # 0 /\ serving[q].user \in Students =>
             serving[q].sub \in torn'
    BY <1>4
  <2>2. \A q \in Requests : serving'[q].sub = 0
    BY <1>2, NothingKnown
  <2> QED
    BY <1>1, <1>3, <2>1, <2>2, AnswersStays DEF CodingInv
<1>11. Rooms'
  <2>1. \A s \in Students \ open : InFlight(s)' \subseteq InFlight(s)
    BY <1>2, NothingKnown DEF InFlight
  <2> QED
    BY <1>1, <2>1, RoomsStays DEF CodingInv
<1>12. Compared'
  <2>1. \A q \in Requests : At(q, "match")' => serving'[q] = serving[q]
    BY <1>2, NothingKnown DEF At
  <2> QED
    BY <1>1, <1>3, <2>1, ComparedStays DEF CodingInv
<1>13. JobAccounted'
  <2>1. \A q \in Requests : serving[q].job \in JobIds => runner[serving[q].job].sub \in torn'
    <3> SUFFICES ASSUME NEW q \in Requests, serving[q].job \in JobIds
                 PROVE  runner[serving[q].job].sub \in torn'
      OBVIOUS
    <3>1. runner[serving[q].job].sub = serving[q].sub /\ serving[q].sub # 0
      BY Numbers DEF CodingInv, Knows, Judge
    <3> QED
      BY <1>4, <3>1
  <2> QED
    BY <1>1, <2>1, JobAccountedStays DEF CodingInv
<1> QED
  BY <1>5, <1>6, <1>7, <1>8, <1>9, <1>10, <1>11, <1>12, <1>13 DEF CodingInv

-----------------------------------------------------------------------------
(* The theorem. *)

LEMMA CodingSteps == CodingInv /\ [CodingNext]_codingVars => CodingInv'
<1> SUFFICES ASSUME CodingInv, [CodingNext]_codingVars PROVE CodingInv'
  OBVIOUS
<1>1. CASE UNCHANGED codingVars
  BY <1>1, CodingAside DEF codingVars
<1>2. CASE JudgeNext
  BY <1>2, CodingCount, CodingSaveSubmission, CodingStartJob, CodingReadVersion,
     CodingCreateEvaluation, CodingUpdateSubmission, CodingCompleteJob, CodingUpsertAnswer,
     CodingRecordMatch DEF JudgeNext
<1>3. CASE Crash
  BY <1>3, CodingCrash
<1>4. ASSUME NEW k \in DOMAIN rate, WindowEnds(k) PROVE CodingInv'
  BY <1>4, CodingAside DEF WindowEnds, rows
<1>5. ASSUME NEW u \in Users, StudentNext(u) PROVE CodingInv'
  <2>1. ASSUME NEW r \in Requests, NEW src \in Sources, NEW final \in BOOLEAN,
               RunOrSubmit(r, u, src, final)
        PROVE  CodingInv'
    <3>1. u \in open
      BY <2>1 DEF RunOrSubmit, StudentCodingContext
    <3> QED
      BY <2>1, <3>1, CodingRunOrSubmit
  <2>2. CASE RunnerSubmit(u)
    BY <2>2, CodingAside DEF RunnerSubmit, Quick, idleRows
  <2> QED
    BY <1>5, <2>1, <2>2, CodingCancelJob, CodingCloseAttempt DEF StudentNext
<1>6. ASSUME NEW u \in Users, StaffNext(u) PROVE CodingInv'
  BY <1>6, CodingSetReviewStatus, CodingOverrideScore, CodingRejudgeAssessment,
     CodingCreatePlagiarismJob, CodingReviewMatch DEF StaffNext
<1>7. ASSUME NEW u \in Users, RejudgeNext(u) PROVE CodingInv'
  BY <1>7, CodingRejudge DEF RejudgeNext
<1> QED
  BY <1>1, <1>2, <1>3, <1>4, <1>5, <1>6, <1>7 DEF CodingNext, SystemNext

THEOREM CodingKeepsInvariant == CodingSpec => []CodingInv
  BY CodingStarts, CodingSteps, PTL DEF CodingSpec

\* Likeness does not depend on the order of the two sources.
LEMMA SimilarBoth ==
  ASSUME NEW x, NEW y PROVE Similar(x, y) <=> Similar(y, x)
<1>1. x.tokens \cap y.tokens = y.tokens \cap x.tokens
      /\ x.tokens \cup y.tokens = y.tokens \cup x.tokens
  OBVIOUS
<1> QED
  BY <1>1 DEF Similar

\* What the invariant says of a finished comparison.
LEMMA AllMatched ==
  ASSUME CodingInv PROVE MatchesAccounted
<1> SUFFICES ASSUME plag.status = "COMPLETED"
             PROVE  /\ Cardinality(match) = plag.matches
                    /\ {{p.a, p.b} : p \in match} = {{q[1], q[2]} : q \in
                         {q \in plag.compared \X plag.compared : q[1] # q[2]
                            /\ sub[q[1]].source.language = sub[q[2]].source.language
                            /\ Similar(sub[q[1]].source, sub[q[2]].source)}}
  BY DEF MatchesAccounted
<1>1. PICK C, M : C = plag.compared /\ M = Matching(C)
  OBVIOUS
<1>2. /\ C \subseteq Subs /\ plag # NoPlag /\ Recorded = M /\ plag.matches = Cardinality(M)
      /\ \A p, q \in match : p.a = q.a /\ p.b = q.b => p = q
  BY <1>1 DEF CodingInv, Compared
<1>3. M = {p \in C \X C : p[1] < p[2]
            /\ sub[p[1]].source.language = sub[p[2]].source.language
            /\ Similar(sub[p[1]].source, sub[p[2]].source)}
  BY <1>1 DEF Matching
<1>4. Cardinality(match) = Cardinality(M)
  <2>1. PICK f : f = [p \in match |-> <<p.a, p.b>>]
    OBVIOUS
  <2>2. f \in [match -> M] /\ \A t \in M : \E p \in match : f[p] = t
    BY <1>2, <2>1 DEF Recorded
  <2>3. f \in Injection(match, M) /\ f \in Surjection(match, M)
    BY <1>2, <2>1, <2>2, ZenonT(120) DEF Injection, Surjection, IsInjective
  <2>4. M \in SUBSET (Subs \X Subs)
    BY <1>2, <1>3
  <2>5. IsFiniteSet(M)
    BY <2>4, PairsFinite
  <2> QED
    BY <2>3, <2>5, FS_Injection
<1>5. {{p.a, p.b} : p \in match} = {{q[1], q[2]} : q \in M}
  <2>1. ASSUME NEW p \in match PROVE \E q \in M : {q[1], q[2]} = {p.a, p.b}
    <3>1. PICK q \in M : q = <<p.a, p.b>>
      BY <1>2 DEF Recorded
    <3>2. q[1] = p.a /\ q[2] = p.b
      BY <3>1
    <3> QED
      BY <3>2
  <2>2. ASSUME NEW q \in M PROVE \E p \in match : {p.a, p.b} = {q[1], q[2]}
    <3>1. PICK p \in match : q = <<p.a, p.b>>
      BY <1>2 DEF Recorded
    <3>2. q[1] = p.a /\ q[2] = p.b
      BY <3>1
    <3> QED
      BY <3>2
  <2>3. ASSUME NEW x \in {{p.a, p.b} : p \in match} PROVE x \in {{q[1], q[2]} : q \in M}
    BY <2>1, ZenonT(20)
  <2>4. ASSUME NEW x \in {{q[1], q[2]} : q \in M} PROVE x \in {{p.a, p.b} : p \in match}
    BY <2>2, ZenonT(20)
  <2> QED
    BY <2>3, <2>4, ZenonT(20)
<1>6. PICK B : B = {q \in C \X C : q[1] # q[2]
                     /\ sub[q[1]].source.language = sub[q[2]].source.language
                     /\ Similar(sub[q[1]].source, sub[q[2]].source)}
  OBVIOUS
<1>7. \A i \in C : i \in Nat
  BY <1>2, Numbers
<1>8. \A q \in M : q \in B
  BY <1>3, <1>6, <1>7
<1>9. ASSUME NEW q \in B PROVE \E p \in M : {p[1], p[2]} = {q[1], q[2]}
  <2>1. PICK i \in C, k \in C : q = <<i, k>>
    BY <1>6
  <2>2. /\ i # k /\ i \in Nat /\ k \in Nat /\ sub[i].source.language = sub[k].source.language
        /\ Similar(sub[i].source, sub[k].source) /\ Similar(sub[k].source, sub[i].source)
    BY <1>6, <1>7, <2>1, SimilarBoth
  <2>3. CASE i < k
    <3>1. q \in M
      BY <1>3, <2>1, <2>2, <2>3
    <3> QED
      BY <3>1
  <2>4. CASE k < i
    <3>1. <<k, i>> \in M
      BY <1>3, <2>2, <2>4
    <3> QED
      BY <2>1, <3>1
  <2> QED
    BY <2>2, <2>3, <2>4
<1>10. {{q[1], q[2]} : q \in M} = {{q[1], q[2]} : q \in B}
  BY <1>8, <1>9
<1> QED
  BY <1>1, <1>2, <1>4, <1>5, <1>6, <1>10

\* A submission shows its newest evaluation, and the answer is the newest.
LEMMA ShowsNewest ==
  ASSUME CodingInv PROVE ScoreSource
<1> SUFFICES ASSUME NEW i \in Subs, i \notin torn, Judging(i) = {}, NEW e \in Of(i),
                    \A d \in Of(i) : d.version <= e.version
             PROVE  Fits(i, e)
  BY DEF ScoreSource, Of, Fits
<1>1. /\ IsFiniteSet(Of(i)) /\ Cardinality(Of(i)) \in Nat
      /\ {d.version : d \in Of(i)} = 1..Cardinality(Of(i))
  <2>1. IsFiniteSet(Of(i))
    BY FS_Subset DEF CodingInv, CodingRows, Of
  <2> QED
    BY <2>1, FS_CardinalityType DEF CodingInv, Numbered, Versions, Of
<1>2. Cardinality(Of(i)) # 0
  BY <1>1, FS_EmptySet
<1>3. PICK d \in Of(i) : d.version = Cardinality(Of(i))
  BY <1>1, <1>2
<1>4. e.version = Cardinality(Of(i))
  BY <1>1, <1>3
<1> QED
  BY <1>4 DEF CodingInv, Shows

LEMMA NewestAnswer ==
  ASSUME CodingInv PROVE LatestCounts
<1> SUFFICES ASSUME NEW s \in Students \ overlapped, NEW done,
                    done = {i \in Subs : sub[i].owner = s /\ sub[i].final /\ sub[i].latest # 0
                              /\ i \notin torn
                              /\ ~\E r \in Requests : serving[r].user = s /\ serving[r].sub = i},
                    done # {}
             PROVE  answer[s] >= Max(done) /\ sub[answer[s]].owner = s /\ sub[answer[s]].final
  BY DEF LatestCounts
<1>1. done \subseteq Ended(s) /\ done \subseteq Subs
  BY DEF Ended
<1>2. IsFiniteSet(done) /\ done \subseteq Nat
  <2>1. 1 \in Int /\ MaxSubs \in Int /\ Subs = 1..MaxSubs
    BY Numbers
  <2>2. IsFiniteSet(Subs)
    BY <2>1, FS_Interval
  <2>3. done \subseteq Subs
    BY <1>1
  <2>4. Subs \subseteq Nat
    BY <2>1
  <2> QED
    BY <2>2, <2>3, <2>4, FS_Subset
<1>3. Max(done) \in done
  BY <1>2, MaxIs
<1>4. RunnerUsable
  BY <1>1, <1>3 DEF CodingInv, Answers
<1>5. Max(done) <= answer[s] /\ answer[s] \in {0} \cup Subs
  BY <1>1, <1>3, <1>4 DEF CodingInv, Answers, CodingRows
<1>6. answer[s] # 0
  BY <1>1, <1>3, <1>5, Numbers
<1> QED
  BY <1>5, <1>6, <1>1, <1>3, Numbers DEF CodingInv, Answers

LEMMA JudgingHolds == CodingInv => JudgingConsistent
<1> SUFFICES ASSUME CodingInv PROVE JudgingConsistent
  OBVIOUS
<1>1. CodingTypeOK
  <2>1. open \subseteq Students /\ DOMAIN room = Students
    BY DEF CodingInv, CodingRows
  <2>2. \A i \in Subs : /\ sub[i].owner \in Students \cup {None}
                        /\ sub[i].score \in 0..Marks
                        /\ sub[i].latest \in {0} \cup JobIds
    BY DEF CodingInv, CodingRows, SubsInOrder, Used, SubRow
  <2>3. \A j \in JobIds : runner[j].sub \in {0} \cup Subs
    BY DEF CodingInv, CodingRows, RunnerRow
  <2>4. \A e \in evals : e.sub \in Subs /\ e.version \in Nat /\ e.score \in 0..Marks
    BY DEF CodingInv, CodingRows, EvalRow
  <2>5. \A p \in match : {p.a, p.b} \subseteq Subs
    BY DEF CodingInv, CodingRows, MatchRow
  <2>6. \A r \in Requests : serving[r].user \in Users \cup {None}
    BY DEF CodingInv, CodingRows, ServingRow
  <2>7. \A s \in Students : answer[s] \in {0} \cup Subs
    BY DEF CodingInv, CodingRows
  <2> QED
    BY <2>1, <2>2, <2>3, <2>4, <2>5, <2>6, <2>7 DEF CodingTypeOK
<1>2. LateBounded
  <2> SUFFICES ASSUME NEW s \in Students \ open PROVE room[s] >= 0
    BY DEF LateBounded
  <2>1. room[s] \in Int /\ room[s] >= Cardinality(InFlight(s))
    BY DEF CodingInv, CodingRows, Rooms
  <2>2. InFlight(s) \in SUBSET Requests
    BY DEF InFlight
  <2>3. Cardinality(InFlight(s)) \in Nat
    BY <2>2, CardinalNat
  <2> QED
    BY <2>1, <2>3
<1>3. Versions /\ JobAccounted /\ HiddenOnlyFinal
  BY DEF CodingInv, Numbered
<1> QED
  BY <1>1, <1>2, <1>3, AllMatched, ShowsNewest, NewestAnswer DEF JudgingConsistent

\* However judgings overlap, and whenever the attempt closes or the process
\* restarts, submissions, evaluations, jobs, answers and comparisons agree
\* (CodingService).
THEOREM JudgingAgrees == CodingSpec => []JudgingConsistent
  BY CodingKeepsInvariant, JudgingHolds, PTL

-----------------------------------------------------------------------------
(* Configuration. *)

\* A rule that holds is among those that fail the environment, and only those.
LEMMA FailingHas ==
  ASSUME NEW R, NEW v, NEW b \in BOOLEAN, <<v, b>> \in R, b PROVE v \in Failing(R)
<1>1. <<v, b>>[1] = v /\ <<v, b>>[2]
  OBVIOUS
<1> QED
  BY <1>1 DEF Failing

LEMMA FailingIs ==
  ASSUME NEW R, NEW v \in Failing(R) PROVE \E r \in R : r[1] = v /\ r[2]
  BY DEF Failing

\* The second part of a rule that failed.
LEMMA PairSays ==
  ASSUME NEW r, NEW v, NEW b \in BOOLEAN, r = <<v, b>>, r[2] PROVE b
<1>1. r[2] = b
  OBVIOUS
<1> QED
  BY <1>1

\* A process that started had nothing to complain of.
LEMMA NoIssues ==
  ASSUME NEW e, Issues(e) = {}
  PROVE  Malformed(e) = {} /\ StrictIssues(e) = {} /\ ProductionIssues(e) = {}
  BY DEF Issues

\* No rule for production holds of an environment a process started with.
LEMMA NoRule ==
  ASSUME NEW e, Issues(e) = {}, Production(e), NEW v, NEW b \in BOOLEAN,
         <<v, b>> \in ProductionRules(e)
  PROVE  ~b
<1>1. b => v \in ProductionIssues(e)
  BY FailingHas DEF ProductionIssues
<1> QED
  BY <1>1, NoIssues

\* What a process that started as production does not have.
LEMMA StartedProduction ==
  ASSUME NEW e, Issues(e) = {}, Production(e)
  PROVE  /\ RunnerMode(e) # "MOCK" /\ Value(e, "AI_PROVIDER") # "mock"
         /\ Value(e, "BILLING_PROVIDER") # "MOCK" /\ Value(e, "EMAIL_PROVIDER") # "console"
         /\ Value(e, "STORAGE_PROVIDER") # "local"
<1>1. Value(e, "CODE_RUNNER_MODE") # "MOCK"
  <2>1. <<"CODE_RUNNER_MODE", Value(e, "CODE_RUNNER_MODE") = "MOCK">> \in ProductionRules(e)
    BY DEF ProductionRules
  <2>2. (Value(e, "CODE_RUNNER_MODE") = "MOCK") \in BOOLEAN
    OBVIOUS
  <2> QED
    BY <2>1, <2>2, NoRule
<1>2. Value(e, "AI_PROVIDER") # "mock"
  <2>1. <<"AI_PROVIDER", Value(e, "AI_PROVIDER") = "mock">> \in ProductionRules(e)
    BY DEF ProductionRules
  <2>2. (Value(e, "AI_PROVIDER") = "mock") \in BOOLEAN
    OBVIOUS
  <2> QED
    BY <2>1, <2>2, NoRule
<1>3. Value(e, "BILLING_PROVIDER") # "MOCK"
  <2>1. <<"BILLING_PROVIDER", Value(e, "BILLING_PROVIDER") = "MOCK">> \in ProductionRules(e)
    BY DEF ProductionRules
  <2>2. (Value(e, "BILLING_PROVIDER") = "MOCK") \in BOOLEAN
    OBVIOUS
  <2> QED
    BY <2>1, <2>2, NoRule
<1>4. Value(e, "EMAIL_PROVIDER") # "console"
  <2>1. <<"EMAIL_PROVIDER", Value(e, "EMAIL_PROVIDER") = "console">> \in ProductionRules(e)
    BY DEF ProductionRules
  <2>2. (Value(e, "EMAIL_PROVIDER") = "console") \in BOOLEAN
    OBVIOUS
  <2> QED
    BY <2>1, <2>2, NoRule
<1>5. Value(e, "STORAGE_PROVIDER") # "local"
  <2>1. <<"STORAGE_PROVIDER", Value(e, "STORAGE_PROVIDER") = "local">> \in ProductionRules(e)
    BY DEF ProductionRules
  <2>2. (Value(e, "STORAGE_PROVIDER") = "local") \in BOOLEAN
    OBVIOUS
  <2> QED
    BY <2>1, <2>2, NoRule
<1> QED
  BY <1>1, <1>2, <1>3, <1>4, <1>5 DEF RunnerMode

\* Readiness has nothing left to complain of but telemetry and backups.
LEMMA ReadyAgain ==
  ASSUME NEW e, Issues(e) = {} PROVE ReadinessFails(e) \subseteq {"monitoring", "backups"}
<1> SUFFICES ASSUME NEW v \in ReadinessFails(e), v \notin {"monitoring", "backups"} PROVE FALSE
  OBVIOUS
<1>1. Value(e, "APP_ENV") = "production"
  BY DEF ReadinessFails
<1>2. Production(e)
  BY <1>1 DEF Production
<1> DEFINE R == {
      <<"billing", Value(e, "BILLING_PROVIDER") = "MOCK">>,
      <<"email", Value(e, "EMAIL_PROVIDER") = "console">>,
      <<"storage", Value(e, "STORAGE_PROVIDER") = "local">>,
      <<"ai", Value(e, "AI_PROVIDER") = "mock">>,
      <<"codeRunner", Value(e, "CODE_RUNNER_MODE") = "MOCK">>,
      <<"monitoring", Lacks(e, "OTEL_EXPORTER_ENDPOINT") /\ Lacks(e, "OTEL_EXPORTER_OTLP_ENDPOINT")>>,
      <<"backups", Value(e, "BACKUP_PROVIDER") = "disabled">>}
<1>3. ReadinessFails(e) = Failing(R)
  BY <1>1 DEF ReadinessFails
<1>4. PICK r \in R : r[1] = v /\ r[2]
  <2> HIDE DEF R
  <2> QED
    BY <1>3, FailingIs
<1>5. r = <<"billing", Value(e, "BILLING_PROVIDER") = "MOCK">> => Value(e, "BILLING_PROVIDER") = "MOCK"
  <2> HIDE DEF R
  <2> QED
    BY <1>4, PairSays
<1>6. r = <<"email", Value(e, "EMAIL_PROVIDER") = "console">> => Value(e, "EMAIL_PROVIDER") = "console"
  <2> HIDE DEF R
  <2> QED
    BY <1>4, PairSays
<1>7. r = <<"storage", Value(e, "STORAGE_PROVIDER") = "local">> => Value(e, "STORAGE_PROVIDER") = "local"
  <2> HIDE DEF R
  <2> QED
    BY <1>4, PairSays
<1>8. r = <<"ai", Value(e, "AI_PROVIDER") = "mock">> => Value(e, "AI_PROVIDER") = "mock"
  <2> HIDE DEF R
  <2> QED
    BY <1>4, PairSays
<1>9. r = <<"codeRunner", Value(e, "CODE_RUNNER_MODE") = "MOCK">> => RunnerMode(e) = "MOCK"
  <2> HIDE DEF R
  <2> QED
    BY <1>4, PairSays DEF RunnerMode
<1>10. r[1] \notin {"monitoring", "backups"}
  BY <1>4
<1>11. r \in {
      <<"billing", Value(e, "BILLING_PROVIDER") = "MOCK">>,
      <<"email", Value(e, "EMAIL_PROVIDER") = "console">>,
      <<"storage", Value(e, "STORAGE_PROVIDER") = "local">>,
      <<"ai", Value(e, "AI_PROVIDER") = "mock">>,
      <<"codeRunner", Value(e, "CODE_RUNNER_MODE") = "MOCK">>}
  BY <1>10
<1> QED
  BY <1>2, <1>5, <1>6, <1>7, <1>8, <1>9, <1>11, StartedProduction

\* A mail's address is an origin that is answered.
LEMMA AddressServed ==
  ASSUME NEW e, Issues(e) = {}, Strict(e), ResetAddress(e) # " "
  PROVE  NormalizeOrigin(ResetAddress(e)) \in CorsOrigins(e)
<1>1. Malformed(e) = {} /\ StrictIssues(e) = {}
  BY NoIssues
<1>2. \A v \in {"FRONTEND_URL", "WEB_ORIGIN"} : Value(e, v) = Raw(e, v)
  BY DEF Value, Default
<1>3. ~(Lacks(e, "FRONTEND_URL") /\ Lacks(e, "WEB_ORIGIN"))
  <2> DEFINE b == Lacks(e, "FRONTEND_URL") /\ Lacks(e, "WEB_ORIGIN")
  <2>1. b \in BOOLEAN
    BY DEF Lacks
  <2>2. <<"FRONTEND_URL", b>> \in {<<"FRONTEND_URL", b>>}
    OBVIOUS
  <2>3. b => "FRONTEND_URL" \in Failing({<<"FRONTEND_URL", b>>})
    <3> HIDE DEF b
    <3> QED
      BY <2>1, <2>2, FailingHas
  <2>4. Failing({<<"FRONTEND_URL", b>>}) \subseteq StrictIssues(e)
    BY DEF StrictIssues
  <2> QED
    BY <1>1, <2>3, <2>4
<1>4. ResetAddress(e) \in {Raw(e, "WEB_ORIGIN"), Raw(e, "FRONTEND_URL")} /\ ResetAddress(e) # ""
  BY <1>2, <1>3 DEF ResetAddress, Lacks
<1>5. NormalizeOrigin(ResetAddress(e)) # ""
  BY <1>4 DEF NormalizeOrigin
<1> QED
  BY <1>4, <1>5 DEF CorsOrigins

\* The status that administrators see.
LEMMA StatusTrue ==
  ASSUME NEW e, Issues(e) = {}
  PROVE  \/ AiConfigured(e) <=> AiUsable(e)
         \/ /\ Keyed(e) /\ KeyOf(e) \in DOMAIN e
            /\ Lacks(e, KeyOf(e)) /\ ~Lacks(e, "AI_API_KEY")
<1>1. ~(Value(e, "NODE_ENV") = "production" /\ Value(e, "AI_PROVIDER") = "mock")
  BY StartedProduction DEF Production
<1>2. Value(e, "AI_API_KEY") = Raw(e, "AI_API_KEY")
  BY DEF Value, Default
<1>3. CASE Keyed(e)
  <2>1. KeyOf(e) \in {"OPENAI_API_KEY", "GOOGLE_GEMINI_API_KEY", "ANTHROPIC_API_KEY",
                      "AZURE_OPENAI_API_KEY"}
    BY <1>3 DEF Keyed, KeyOf, ProviderKey
  <2>2. Value(e, KeyOf(e)) = Raw(e, KeyOf(e))
    BY <2>1 DEF Value, Default
  <2> QED
    BY <1>1, <1>2, <1>3, <2>2 DEF AiConfigured, AiUsable, Lacks, Raw
<1>4. CASE ~Keyed(e)
  BY <1>1, <1>4 DEF AiConfigured, AiUsable
<1> QED
  BY <1>3, <1>4

\* What an environment that passes the release gate has.
LEMMA GateRule ==
  ASSUME NEW e, GateFails(e) = {}, NEW v, NEW b \in BOOLEAN, <<v, b>> \in GateRules(e)
  PROVE  ~b
<1>1. b => v \in GateFails(e)
  BY FailingHas DEF GateFails
<1> QED
  BY <1>1

LEMMA GatePassed ==
  ASSUME NEW e, GateFails(e) = {}
  PROVE  /\ \A v \in GateNames : Has(e, v)
         /\ Raw(e, "JWT_ACCESS_SECRET") # "dev-access-secret-change-me"
         /\ Raw(e, "JWT_REFRESH_SECRET") # "dev-refresh-secret-change-me"
         /\ Raw(e, "BILLING_PROVIDER") # "MOCK"
         /\ Raw(e, "EMAIL_PROVIDER") # "console"
         /\ Raw(e, "STORAGE_PROVIDER") # "local"
         /\ Raw(e, "AI_PROVIDER") # "mock"
         /\ Raw(e, "CODE_RUNNER_MODE") # "MOCK"
         /\ Raw(e, "COOKIE_SECURE") = "true"
         /\ ~(Raw(e, "BILLING_ENABLED") = "true" /\ ~Has(e, "BILLING_SECRET_KEY"))
         /\ ~(Raw(e, "PUSH_PROVIDER") \notin {"", "disabled"}
            /\ ~(Has(e, "PUSH_PUBLIC_KEY") /\ Has(e, "PUSH_PRIVATE_KEY")))
<1>1. \A v \in GateNames : Has(e, v)
  BY DEF GateFails
<1>2. Raw(e, "JWT_ACCESS_SECRET") # "dev-access-secret-change-me"
  <2> DEFINE b == Raw(e, "JWT_ACCESS_SECRET") = "dev-access-secret-change-me"
  <2>1. <<"JWT_ACCESS_SECRET", b>> \in GateRules(e)
    BY DEF GateRules
  <2>2. b \in BOOLEAN
    BY DEF Has
  <2>3. ~b
    <3> HIDE DEF b
    <3> QED
      BY <2>1, <2>2, GateRule
  <2> QED
    BY <2>3
<1>3. Raw(e, "JWT_REFRESH_SECRET") # "dev-refresh-secret-change-me"
  <2> DEFINE b == Raw(e, "JWT_REFRESH_SECRET") = "dev-refresh-secret-change-me"
  <2>1. <<"JWT_REFRESH_SECRET", b>> \in GateRules(e)
    BY DEF GateRules
  <2>2. b \in BOOLEAN
    BY DEF Has
  <2>3. ~b
    <3> HIDE DEF b
    <3> QED
      BY <2>1, <2>2, GateRule
  <2> QED
    BY <2>3
<1>4. Raw(e, "BILLING_PROVIDER") # "MOCK"
  <2> DEFINE b == Raw(e, "BILLING_PROVIDER") = "MOCK"
  <2>1. <<"BILLING_PROVIDER", b>> \in GateRules(e)
    BY DEF GateRules
  <2>2. b \in BOOLEAN
    BY DEF Has
  <2>3. ~b
    <3> HIDE DEF b
    <3> QED
      BY <2>1, <2>2, GateRule
  <2> QED
    BY <2>3
<1>5. Raw(e, "EMAIL_PROVIDER") # "console"
  <2> DEFINE b == Raw(e, "EMAIL_PROVIDER") = "console"
  <2>1. <<"EMAIL_PROVIDER", b>> \in GateRules(e)
    BY DEF GateRules
  <2>2. b \in BOOLEAN
    BY DEF Has
  <2>3. ~b
    <3> HIDE DEF b
    <3> QED
      BY <2>1, <2>2, GateRule
  <2> QED
    BY <2>3
<1>6. Raw(e, "STORAGE_PROVIDER") # "local"
  <2> DEFINE b == Raw(e, "STORAGE_PROVIDER") = "local"
  <2>1. <<"STORAGE_PROVIDER", b>> \in GateRules(e)
    BY DEF GateRules
  <2>2. b \in BOOLEAN
    BY DEF Has
  <2>3. ~b
    <3> HIDE DEF b
    <3> QED
      BY <2>1, <2>2, GateRule
  <2> QED
    BY <2>3
<1>7. Raw(e, "AI_PROVIDER") # "mock"
  <2> DEFINE b == Raw(e, "AI_PROVIDER") = "mock"
  <2>1. <<"AI_PROVIDER", b>> \in GateRules(e)
    BY DEF GateRules
  <2>2. b \in BOOLEAN
    BY DEF Has
  <2>3. ~b
    <3> HIDE DEF b
    <3> QED
      BY <2>1, <2>2, GateRule
  <2> QED
    BY <2>3
<1>8. Raw(e, "CODE_RUNNER_MODE") # "MOCK"
  <2> DEFINE b == Raw(e, "CODE_RUNNER_MODE") = "MOCK"
  <2>1. <<"CODE_RUNNER_MODE", b>> \in GateRules(e)
    BY DEF GateRules
  <2>2. b \in BOOLEAN
    BY DEF Has
  <2>3. ~b
    <3> HIDE DEF b
    <3> QED
      BY <2>1, <2>2, GateRule
  <2> QED
    BY <2>3
<1>9. Raw(e, "COOKIE_SECURE") = "true"
  <2> DEFINE b == ~(Raw(e, "COOKIE_SECURE") = "true")
  <2>1. <<"COOKIE_SECURE", b>> \in GateRules(e)
    BY DEF GateRules
  <2>2. b \in BOOLEAN
    BY DEF Has
  <2>3. ~b
    <3> HIDE DEF b
    <3> QED
      BY <2>1, <2>2, GateRule
  <2> QED
    BY <2>3
<1>10. ~(Raw(e, "BILLING_ENABLED") = "true" /\ ~Has(e, "BILLING_SECRET_KEY"))
  <2> DEFINE b == Raw(e, "BILLING_ENABLED") = "true" /\ ~Has(e, "BILLING_SECRET_KEY")
  <2>1. <<"BILLING_SECRET_KEY", b>> \in GateRules(e)
    BY DEF GateRules
  <2>2. b \in BOOLEAN
    BY DEF Has
  <2>3. ~b
    <3> HIDE DEF b
    <3> QED
      BY <2>1, <2>2, GateRule
  <2> QED
    BY <2>3
<1>11. ~(Raw(e, "PUSH_PROVIDER") \notin {"", "disabled"}
            /\ ~(Has(e, "PUSH_PUBLIC_KEY") /\ Has(e, "PUSH_PRIVATE_KEY")))
  <2> DEFINE b == Raw(e, "PUSH_PROVIDER") \notin {"", "disabled"}
            /\ ~(Has(e, "PUSH_PUBLIC_KEY") /\ Has(e, "PUSH_PRIVATE_KEY"))
  <2>1. <<"PUSH_PUBLIC_KEY", b>> \in GateRules(e)
    BY DEF GateRules
  <2>2. b \in BOOLEAN
    BY DEF Has
  <2>3. ~b
    <3> HIDE DEF b
    <3> QED
      BY <2>1, <2>2, GateRule
  <2> QED
    BY <2>3
<1> QED
  BY <1>1, <1>2, <1>3, <1>4, <1>5, <1>6, <1>7, <1>8, <1>9, <1>10, <1>11

\* A variable without a default has the value it is set to.
LEMMA NoDefault ==
  ASSUME NEW e
  PROVE  \A v \in GateNames \cup {"BILLING_SECRET_KEY", "PUSH_PUBLIC_KEY", "PUSH_PRIVATE_KEY"} :
             Has(e, v) /\ v # "BACKUP_PROVIDER" => ~Lacks(e, v)
  BY ZenonT(60) DEF GateNames, Has, Lacks, Value, Default

\* The value of a variable that differs from its default has been set.
LEMMA ValueSet ==
  ASSUME NEW e, NEW v \in DOMAIN Default, v # "CODE_RUNNER_MODE"
  PROVE  /\ v \in DOMAIN e => Value(e, v) = Raw(e, v)
         /\ v \notin DOMAIN e => Value(e, v) = Default[v] /\ Raw(e, v) = ""
  BY DEF Value, Raw

LEMMA GateShape ==
  ASSUME NEW e, GateFails(e) = {} PROVE Malformed(e) \subseteq GateBlind(e)
<1> SUFFICES ASSUME NEW v \in Malformed(e), v \notin GateBlind(e) PROVE FALSE
  OBVIOUS
<1>1. \A w \in GateNames : Has(e, w)
  BY GatePassed
<1>2. CASE v \in DOMAIN Admitted /\ Value(e, v) \notin Admitted[v]
  BY <1>2 DEF GateBlind
<1>3. CASE v \in {"API_URL", "FRONTEND_URL"} /\ Raw(e, v) \in {" ", "not a URL"}
  BY <1>1, <1>3 DEF GateBlind, GateNames, Has
<1>4. CASE v \in {"DATABASE_URL", "REDIS_URL"} /\ Lacks(e, v)
  BY <1>1, <1>4, NoDefault DEF GateNames
<1>5. CASE v \in {"JWT_ACCESS_SECRET", "JWT_REFRESH_SECRET"} /\ Raw(e, v) \in {"", "short"}
  BY <1>1, <1>5 DEF GateBlind, GateNames, Has
<1> QED
  BY <1>2, <1>3, <1>4, <1>5 DEF Malformed

LEMMA GateStrict ==
  ASSUME NEW e, GateFails(e) = {} PROVE StrictIssues(e) \subseteq GateBlind(e)
<1> SUFFICES ASSUME NEW v \in StrictIssues(e), v \notin GateBlind(e) PROVE FALSE
  OBVIOUS
<1>1. \A w \in {"API_URL", "DIRECT_DATABASE_URL", "TRUSTED_PROXIES", "APP_ENCRYPTION_KEY",
                "FRONTEND_URL"} : ~Lacks(e, w)
  BY GatePassed, NoDefault DEF GateNames
<1>2. v \notin {"API_URL", "DIRECT_DATABASE_URL", "INTERNAL_SERVICE_TOKEN", "TRUSTED_PROXIES",
               "APP_ENCRYPTION_KEY"} \/ ~Lacks(e, v)
  BY <1>1 DEF GateBlind
<1> DEFINE b == Lacks(e, "FRONTEND_URL") /\ Lacks(e, "WEB_ORIGIN")
<1>3. v \in Failing({<<"FRONTEND_URL", b>>})
  BY <1>2 DEF StrictIssues
<1>4. b
  <2>1. PICK r \in {<<"FRONTEND_URL", b>>} : r[1] = v /\ r[2]
    <3> HIDE DEF b
    <3> QED
      BY <1>3, FailingIs
  <2>2. b \in BOOLEAN
    BY DEF Lacks
  <2> HIDE DEF b
  <2> QED
    BY <2>1, <2>2, PairSays
<1> QED
  BY <1>1, <1>4

\* Which rule for production fails an environment.
LEMMA RuleFailed ==
  ASSUME NEW e, NEW v \in Failing(ProductionRules(e))
  PROVE  \/ v \in {"SWAGGER_ENABLED", "CODE_RUNNER_URL", "AZURE_OPENAI_ENDPOINT", "EMAIL_FROM"}
         \/ v = "JWT_ACCESS_SECRET" /\ Value(e, "JWT_ACCESS_SECRET") = "dev-access-secret-change-me"
         \/ v = "JWT_REFRESH_SECRET" /\ Value(e, "JWT_REFRESH_SECRET") = "dev-refresh-secret-change-me"
         \/ v = "COOKIE_SECURE" /\ Value(e, "COOKIE_SECURE") = "false"
         \/ v = "CORS_ORIGINS" /\ Lacks(e, "CORS_ORIGINS") /\ Lacks(e, "FRONTEND_URL")
         \/ v = "EMAIL_PROVIDER" /\ Value(e, "EMAIL_PROVIDER") = "console"
         \/ v = "STORAGE_PROVIDER" /\ Value(e, "STORAGE_PROVIDER") = "local"
         \/ v = "CODE_RUNNER_MODE" /\ Value(e, "CODE_RUNNER_MODE") = "MOCK"
         \/ v = "AI_PROVIDER" /\ Value(e, "AI_PROVIDER") = "mock"
         \/ v = "BILLING_PROVIDER" /\ Value(e, "BILLING_PROVIDER") = "MOCK"
         \/ v = "BILLING_SECRET_KEY" /\ Value(e, "BILLING_ENABLED") = "true"
            /\ Needs(e, {"BILLING_SECRET_KEY", "BILLING_WEBHOOK_SECRET"})
         \/ v = "PUSH_PUBLIC_KEY" /\ ~(Value(e, "PUSH_PROVIDER") = "disabled") /\ Needs(e, {"PUSH_PUBLIC_KEY", "PUSH_PRIVATE_KEY"})
<1>1. PICK r \in ProductionRules(e) : r[1] = v /\ r[2]
  BY FailingIs
<1>2. ASSUME r = <<"JWT_ACCESS_SECRET", Value(e, "JWT_ACCESS_SECRET") = "dev-access-secret-change-me">>
      PROVE  v = "JWT_ACCESS_SECRET" /\ Value(e, "JWT_ACCESS_SECRET") = "dev-access-secret-change-me"
  <2> DEFINE b == Value(e, "JWT_ACCESS_SECRET") = "dev-access-secret-change-me"
  <2>1. r[1] = "JWT_ACCESS_SECRET" /\ b \in BOOLEAN
    BY <1>2 DEF Lacks, Needs
  <2>2. r = <<"JWT_ACCESS_SECRET", b>>
    BY <1>2
  <2> HIDE DEF b
  <2>3. b
    BY <1>1, <2>1, <2>2, PairSays
  <2> QED
    BY <1>1, <2>1, <2>3 DEF b
<1>3. ASSUME r = <<"JWT_REFRESH_SECRET", Value(e, "JWT_REFRESH_SECRET") = "dev-refresh-secret-change-me">>
      PROVE  v = "JWT_REFRESH_SECRET" /\ Value(e, "JWT_REFRESH_SECRET") = "dev-refresh-secret-change-me"
  <2> DEFINE b == Value(e, "JWT_REFRESH_SECRET") = "dev-refresh-secret-change-me"
  <2>1. r[1] = "JWT_REFRESH_SECRET" /\ b \in BOOLEAN
    BY <1>3 DEF Lacks, Needs
  <2>2. r = <<"JWT_REFRESH_SECRET", b>>
    BY <1>3
  <2> HIDE DEF b
  <2>3. b
    BY <1>1, <2>1, <2>2, PairSays
  <2> QED
    BY <1>1, <2>1, <2>3 DEF b
<1>4. ASSUME r = <<"COOKIE_SECURE", Value(e, "COOKIE_SECURE") = "false">>
      PROVE  v = "COOKIE_SECURE" /\ Value(e, "COOKIE_SECURE") = "false"
  <2> DEFINE b == Value(e, "COOKIE_SECURE") = "false"
  <2>1. r[1] = "COOKIE_SECURE" /\ b \in BOOLEAN
    BY <1>4 DEF Lacks, Needs
  <2>2. r = <<"COOKIE_SECURE", b>>
    BY <1>4
  <2> HIDE DEF b
  <2>3. b
    BY <1>1, <2>1, <2>2, PairSays
  <2> QED
    BY <1>1, <2>1, <2>3 DEF b
<1>5. ASSUME r = <<"CORS_ORIGINS", Lacks(e, "CORS_ORIGINS") /\ Lacks(e, "FRONTEND_URL")>>
      PROVE  v = "CORS_ORIGINS" /\ Lacks(e, "CORS_ORIGINS") /\ Lacks(e, "FRONTEND_URL")
  <2> DEFINE b == Lacks(e, "CORS_ORIGINS") /\ Lacks(e, "FRONTEND_URL")
  <2>1. r[1] = "CORS_ORIGINS" /\ b \in BOOLEAN
    BY <1>5 DEF Lacks, Needs
  <2>2. r = <<"CORS_ORIGINS", b>>
    BY <1>5
  <2> HIDE DEF b
  <2>3. b
    BY <1>1, <2>1, <2>2, PairSays
  <2> QED
    BY <1>1, <2>1, <2>3 DEF b
<1>6. ASSUME r = <<"EMAIL_PROVIDER", Value(e, "EMAIL_PROVIDER") = "console">>
      PROVE  v = "EMAIL_PROVIDER" /\ Value(e, "EMAIL_PROVIDER") = "console"
  <2> DEFINE b == Value(e, "EMAIL_PROVIDER") = "console"
  <2>1. r[1] = "EMAIL_PROVIDER" /\ b \in BOOLEAN
    BY <1>6 DEF Lacks, Needs
  <2>2. r = <<"EMAIL_PROVIDER", b>>
    BY <1>6
  <2> HIDE DEF b
  <2>3. b
    BY <1>1, <2>1, <2>2, PairSays
  <2> QED
    BY <1>1, <2>1, <2>3 DEF b
<1>7. ASSUME r = <<"STORAGE_PROVIDER", Value(e, "STORAGE_PROVIDER") = "local">>
      PROVE  v = "STORAGE_PROVIDER" /\ Value(e, "STORAGE_PROVIDER") = "local"
  <2> DEFINE b == Value(e, "STORAGE_PROVIDER") = "local"
  <2>1. r[1] = "STORAGE_PROVIDER" /\ b \in BOOLEAN
    BY <1>7 DEF Lacks, Needs
  <2>2. r = <<"STORAGE_PROVIDER", b>>
    BY <1>7
  <2> HIDE DEF b
  <2>3. b
    BY <1>1, <2>1, <2>2, PairSays
  <2> QED
    BY <1>1, <2>1, <2>3 DEF b
<1>8. ASSUME r = <<"CODE_RUNNER_MODE", Value(e, "CODE_RUNNER_MODE") = "MOCK">>
      PROVE  v = "CODE_RUNNER_MODE" /\ Value(e, "CODE_RUNNER_MODE") = "MOCK"
  <2> DEFINE b == Value(e, "CODE_RUNNER_MODE") = "MOCK"
  <2>1. r[1] = "CODE_RUNNER_MODE" /\ b \in BOOLEAN
    BY <1>8 DEF Lacks, Needs
  <2>2. r = <<"CODE_RUNNER_MODE", b>>
    BY <1>8
  <2> HIDE DEF b
  <2>3. b
    BY <1>1, <2>1, <2>2, PairSays
  <2> QED
    BY <1>1, <2>1, <2>3 DEF b
<1>9. ASSUME r = <<"AI_PROVIDER", Value(e, "AI_PROVIDER") = "mock">>
      PROVE  v = "AI_PROVIDER" /\ Value(e, "AI_PROVIDER") = "mock"
  <2> DEFINE b == Value(e, "AI_PROVIDER") = "mock"
  <2>1. r[1] = "AI_PROVIDER" /\ b \in BOOLEAN
    BY <1>9 DEF Lacks, Needs
  <2>2. r = <<"AI_PROVIDER", b>>
    BY <1>9
  <2> HIDE DEF b
  <2>3. b
    BY <1>1, <2>1, <2>2, PairSays
  <2> QED
    BY <1>1, <2>1, <2>3 DEF b
<1>10. ASSUME r = <<"BILLING_PROVIDER", Value(e, "BILLING_PROVIDER") = "MOCK">>
      PROVE  v = "BILLING_PROVIDER" /\ Value(e, "BILLING_PROVIDER") = "MOCK"
  <2> DEFINE b == Value(e, "BILLING_PROVIDER") = "MOCK"
  <2>1. r[1] = "BILLING_PROVIDER" /\ b \in BOOLEAN
    BY <1>10 DEF Lacks, Needs
  <2>2. r = <<"BILLING_PROVIDER", b>>
    BY <1>10
  <2> HIDE DEF b
  <2>3. b
    BY <1>1, <2>1, <2>2, PairSays
  <2> QED
    BY <1>1, <2>1, <2>3 DEF b
<1>11. ASSUME r = <<"BILLING_SECRET_KEY", Value(e, "BILLING_ENABLED") = "true" /\ Value(e, "BILLING_PROVIDER") \in {"STRIPE", "RAZORPAY"} /\ Needs(e, {"BILLING_SECRET_KEY", "BILLING_WEBHOOK_SECRET"})>>
      PROVE  v = "BILLING_SECRET_KEY" /\ Value(e, "BILLING_ENABLED") = "true" /\ Value(e, "BILLING_PROVIDER") \in {"STRIPE", "RAZORPAY"} /\ Needs(e, {"BILLING_SECRET_KEY", "BILLING_WEBHOOK_SECRET"})
  <2> DEFINE b == Value(e, "BILLING_ENABLED") = "true" /\ Value(e, "BILLING_PROVIDER") \in {"STRIPE", "RAZORPAY"} /\ Needs(e, {"BILLING_SECRET_KEY", "BILLING_WEBHOOK_SECRET"})
  <2>1. r[1] = "BILLING_SECRET_KEY" /\ b \in BOOLEAN
    BY <1>11 DEF Lacks, Needs
  <2>2. r = <<"BILLING_SECRET_KEY", b>>
    BY <1>11
  <2> HIDE DEF b
  <2>3. b
    BY <1>1, <2>1, <2>2, PairSays
  <2> QED
    BY <1>1, <2>1, <2>3 DEF b
<1>12. ASSUME r = <<"PUSH_PUBLIC_KEY", ~(Value(e, "PUSH_PROVIDER") = "disabled") /\ Needs(e, {"PUSH_PUBLIC_KEY", "PUSH_PRIVATE_KEY"})>>
      PROVE  v = "PUSH_PUBLIC_KEY" /\ ~(Value(e, "PUSH_PROVIDER") = "disabled") /\ Needs(e, {"PUSH_PUBLIC_KEY", "PUSH_PRIVATE_KEY"})
  <2> DEFINE b == ~(Value(e, "PUSH_PROVIDER") = "disabled") /\ Needs(e, {"PUSH_PUBLIC_KEY", "PUSH_PRIVATE_KEY"})
  <2>1. r[1] = "PUSH_PUBLIC_KEY" /\ b \in BOOLEAN
    BY <1>12 DEF Lacks, Needs
  <2>2. r = <<"PUSH_PUBLIC_KEY", b>>
    BY <1>12
  <2> HIDE DEF b
  <2>3. b
    BY <1>1, <2>1, <2>2, PairSays
  <2> QED
    BY <1>1, <2>1, <2>3 DEF b
<1>13. r[1] \in {"SWAGGER_ENABLED", "CODE_RUNNER_URL", "AZURE_OPENAI_ENDPOINT", "EMAIL_FROM"}
      \/ r = <<"JWT_ACCESS_SECRET", Value(e, "JWT_ACCESS_SECRET") = "dev-access-secret-change-me">>
      \/ r = <<"JWT_REFRESH_SECRET", Value(e, "JWT_REFRESH_SECRET") = "dev-refresh-secret-change-me">>
      \/ r = <<"COOKIE_SECURE", Value(e, "COOKIE_SECURE") = "false">>
      \/ r = <<"CORS_ORIGINS", Lacks(e, "CORS_ORIGINS") /\ Lacks(e, "FRONTEND_URL")>>
      \/ r = <<"EMAIL_PROVIDER", Value(e, "EMAIL_PROVIDER") = "console">>
      \/ r = <<"STORAGE_PROVIDER", Value(e, "STORAGE_PROVIDER") = "local">>
      \/ r = <<"CODE_RUNNER_MODE", Value(e, "CODE_RUNNER_MODE") = "MOCK">>
      \/ r = <<"AI_PROVIDER", Value(e, "AI_PROVIDER") = "mock">>
      \/ r = <<"BILLING_PROVIDER", Value(e, "BILLING_PROVIDER") = "MOCK">>
      \/ r = <<"BILLING_SECRET_KEY", Value(e, "BILLING_ENABLED") = "true" /\ Value(e, "BILLING_PROVIDER") \in {"STRIPE", "RAZORPAY"} /\ Needs(e, {"BILLING_SECRET_KEY", "BILLING_WEBHOOK_SECRET"})>>
      \/ r = <<"PUSH_PUBLIC_KEY", ~(Value(e, "PUSH_PROVIDER") = "disabled") /\ Needs(e, {"PUSH_PUBLIC_KEY", "PUSH_PRIVATE_KEY"})>>
  BY DEF ProductionRules
<1> QED
  BY <1>1, <1>2, <1>3, <1>4, <1>5, <1>6, <1>7, <1>8, <1>9, <1>10, <1>11, <1>12, <1>13

LEMMA GateProduction ==
  ASSUME NEW e, GateFails(e) = {}, Malformed(e) = {}
  PROVE  ProductionIssues(e) \subseteq GateBlind(e)
<1> SUFFICES ASSUME NEW v \in ProductionIssues(e), v \notin GateBlind(e) PROVE FALSE
  OBVIOUS
<1>1. v \in Failing(ProductionRules(e))
  BY DEF ProductionIssues
<1>2. v \notin {"SWAGGER_ENABLED", "CODE_RUNNER_URL", "AZURE_OPENAI_ENDPOINT", "EMAIL_FROM"}
      /\ ~(v \in {"EMAIL_PROVIDER", "STORAGE_PROVIDER", "AI_PROVIDER"} /\ v \notin DOMAIN e)
      /\ ~(v = "CODE_RUNNER_MODE" /\ Raw(e, v) = "mock")
  BY DEF GateBlind
<1>3. \A w \in {"JWT_ACCESS_SECRET", "JWT_REFRESH_SECRET"} : Value(e, w) = Raw(e, w)
  BY DEF Value, Default
<1>4. /\ v \notin {"JWT_ACCESS_SECRET", "JWT_REFRESH_SECRET"}
         \/ Raw(e, v) \in {"dev-access-secret-change-me", "dev-refresh-secret-change-me"}
  BY <1>1, <1>2, <1>3, RuleFailed
<1>5. v # "JWT_ACCESS_SECRET"
  BY <1>1, <1>3, RuleFailed, GatePassed
<1>6. v # "JWT_REFRESH_SECRET"
  BY <1>1, <1>3, RuleFailed, GatePassed
<1>7. v # "COOKIE_SECURE"
  <2>1. Raw(e, "COOKIE_SECURE") = "true"
    BY GatePassed
  <2>2. Value(e, "COOKIE_SECURE") = "true"
    BY <2>1 DEF Value, Raw
  <2> QED
    BY <1>1, <2>2, RuleFailed
<1>8. v # "CORS_ORIGINS"
  <2>1. ~Lacks(e, "CORS_ORIGINS")
    BY GatePassed, NoDefault DEF GateNames
  <2> QED
    BY <1>1, <2>1, RuleFailed
<1>9. v \notin {"EMAIL_PROVIDER", "STORAGE_PROVIDER", "AI_PROVIDER"}
  <2>1. /\ Raw(e, "EMAIL_PROVIDER") # "console" /\ Raw(e, "STORAGE_PROVIDER") # "local"
        /\ Raw(e, "AI_PROVIDER") # "mock"
    BY GatePassed
  <2>2. v \in {"EMAIL_PROVIDER", "STORAGE_PROVIDER", "AI_PROVIDER"} => Value(e, v) = Raw(e, v)
    BY <1>2, ValueSet DEF Default
  <2> QED
    BY <1>1, <2>1, <2>2, RuleFailed
<1>10. v # "CODE_RUNNER_MODE"
  <2>1. Raw(e, "CODE_RUNNER_MODE") # "MOCK"
    BY GatePassed
  <2>2. ASSUME v = "CODE_RUNNER_MODE" PROVE FALSE
    <3>1. Value(e, "CODE_RUNNER_MODE") = "MOCK"
      BY <1>1, <2>2, RuleFailed
    <3>2. Raw(e, "CODE_RUNNER_MODE") # "mock"
      BY <1>2, <2>2
    <3>3. PICK x \in {Raw(e, "CODE_RUNNER_MODE"), "DISABLED"} : Upper(x) = "MOCK"
      BY <3>1 DEF Value, Default
    <3> QED
      BY <2>1, <3>2, <3>3 DEF Upper
  <2> QED
    BY <2>2
<1>11. v # "BILLING_PROVIDER"
  <2>1. Raw(e, "BILLING_PROVIDER") # "MOCK"
    BY GatePassed
  <2>2. Value(e, "BILLING_PROVIDER") # "MOCK"
    BY <2>1, ValueSet DEF Default
  <2> QED
    BY <1>1, <2>2, RuleFailed
<1>12. v # "BILLING_SECRET_KEY"
  <2>1. ASSUME v = "BILLING_SECRET_KEY" PROVE FALSE
    <3>1. /\ Value(e, "BILLING_ENABLED") = "true"
          /\ Needs(e, {"BILLING_SECRET_KEY", "BILLING_WEBHOOK_SECRET"})
      BY <1>1, <2>1, RuleFailed
    <3>2. Raw(e, "BILLING_ENABLED") = "true"
      BY <3>1, ValueSet DEF Default
    <3>3. Has(e, "BILLING_SECRET_KEY") /\ Has(e, "BILLING_WEBHOOK_SECRET")
      BY <3>2, GatePassed DEF GateNames
    <3>4. ~Lacks(e, "BILLING_SECRET_KEY") /\ ~Lacks(e, "BILLING_WEBHOOK_SECRET")
      BY <3>3, NoDefault DEF GateNames
    <3> QED
      BY <3>1, <3>4 DEF Needs
  <2> QED
    BY <2>1
<1>13. v # "PUSH_PUBLIC_KEY"
  <2>1. ASSUME v = "PUSH_PUBLIC_KEY" PROVE FALSE
    <3>1. /\ Value(e, "PUSH_PROVIDER") # "disabled"
          /\ Needs(e, {"PUSH_PUBLIC_KEY", "PUSH_PRIVATE_KEY"})
      BY <1>1, <2>1, RuleFailed
    <3>2. Value(e, "PUSH_PROVIDER") # ""
      <4>1. "PUSH_PROVIDER" \in DOMAIN Admitted /\ "" \notin Admitted["PUSH_PROVIDER"]
        BY DEF Admitted
      <4> QED
        BY <4>1 DEF Malformed
    <3>3. Raw(e, "PUSH_PROVIDER") \notin {"", "disabled"}
      BY <3>1, <3>2, ValueSet DEF Default
    <3>4. Has(e, "PUSH_PUBLIC_KEY") /\ Has(e, "PUSH_PRIVATE_KEY")
      BY <3>3, GatePassed
    <3>5. ~Lacks(e, "PUSH_PUBLIC_KEY") /\ ~Lacks(e, "PUSH_PRIVATE_KEY")
      BY <3>4, NoDefault
    <3> QED
      BY <3>1, <3>5 DEF Needs
  <2> QED
    BY <2>1
<1> QED
  BY <1>1, <1>2, <1>5, <1>6, <1>7, <1>8, <1>9, <1>10, <1>11, <1>12, <1>13, RuleFailed

LEMMA GateCovers ==
  ASSUME NEW e, GateFails(e) = {} PROVE Issues(e) \subseteq GateBlind(e)
<1>1. CASE Malformed(e) # {}
  BY <1>1, GateShape DEF Issues
<1>2. CASE Malformed(e) = {}
  BY <1>2, GateStrict, GateProduction DEF Issues
<1> QED
  BY <1>1, <1>2

\* What is there of a process that was refused: nothing it could have judged.
EnvironmentInv ==
    /\ up <=> Issues(env) = {}
    /\ ~up => /\ evals = {} /\ \A r \in Requests : serving[r].pc = "idle"
              /\ \A x \in DOMAIN exec : exec[x].status # "ACCEPTED"

LEMMA EnvironmentStarts == CodingInit => EnvironmentInv
<1> SUFFICES ASSUME CodingInit PROVE EnvironmentInv
  OBVIOUS
<1>1. up <=> Issues(env) = {}
  BY DEF CodingInit
<1>2. /\ evals = {} /\ \A r \in Requests : serving[r].pc = "idle"
      /\ \A x \in DOMAIN exec : exec[x].status # "ACCEPTED"
  BY DEF CodingInit, NoReq, NoExec
<1> QED
  BY <1>1, <1>2 DEF EnvironmentInv

LEMMA EnvironmentSteps == EnvironmentInv /\ [CodingNext]_codingVars => EnvironmentInv'
<1> SUFFICES ASSUME EnvironmentInv, [CodingNext]_codingVars PROVE EnvironmentInv'
  OBVIOUS
<1>1. CASE UNCHANGED codingVars
  BY <1>1 DEF codingVars, EnvironmentInv
<1>2. CASE JudgeNext
  <2>1. \E r \in Requests : serving[r].pc # "idle"
    BY <1>2, ZenonT(60) DEF JudgeNext, Count, SaveSubmission, StartJob, ReadVersion, CreateEvaluation,
       UpdateSubmission, CompleteJob, UpsertAnswer, RecordMatch, At
  <2>2. UNCHANGED <<env, up>>
    BY <1>2 DEF JudgeNext, Count, SaveSubmission, StartJob, ReadVersion, CreateEvaluation,
       UpdateSubmission, CompleteJob, UpsertAnswer, RecordMatch, idleRows
  <2> QED
    BY <2>1, <2>2, SMTT(30) DEF EnvironmentInv
<1>3. CASE Crash
  BY <1>3 DEF Crash, rows, EnvironmentInv, NoReq
<1>4. ASSUME NEW k \in DOMAIN rate, WindowEnds(k) PROVE EnvironmentInv'
  BY <1>4 DEF WindowEnds, rows, EnvironmentInv
<1>5. ASSUME NEW u \in Users, CloseAttempt(u) PROVE EnvironmentInv'
  BY <1>5 DEF CloseAttempt, rows, EnvironmentInv
<1>6. ASSUME NEW u \in Users, StudentNext(u), ~CloseAttempt(u) PROVE up /\ UNCHANGED <<env, up>>
  BY <1>6, ZenonT(60) DEF StudentNext, RunOrSubmit, CancelJob, RunnerSubmit, Begin, Quick, idleRows
<1>7. ASSUME NEW u \in Users, StaffNext(u) \/ RejudgeNext(u) PROVE up /\ UNCHANGED <<env, up>>
  BY <1>7 DEF StaffNext, RejudgeNext, SetReviewStatus, OverrideScore, RejudgeAssessment,
     CreatePlagiarismJob, ReviewPlagiarismMatch, Rejudge, Begin, Quick, idleRows
<1>8. ASSUME up, UNCHANGED <<env, up>> PROVE EnvironmentInv'
  BY <1>8 DEF EnvironmentInv
<1>9. ASSUME NEW u \in Users, StudentNext(u) PROVE EnvironmentInv'
  BY <1>5, <1>6, <1>8, <1>9
<1> QED
  BY <1>1, <1>2, <1>3, <1>4, <1>7, <1>8, <1>9 DEF CodingNext, SystemNext

LEMMA EnvironmentHolds == EnvironmentInv => EnvironmentsAgree
<1> SUFFICES ASSUME EnvironmentInv PROVE EnvironmentsAgree
  OBVIOUS
<1>1. up => Issues(env) = {}
  BY DEF EnvironmentInv
<1>2. MockOutsideProduction
  <2> SUFFICES ASSUME RunnerMode(env) = "MOCK",
                      evals # {} \/ \E x \in DOMAIN exec : exec[x].status = "ACCEPTED"
               PROVE  ~Production(env)
    BY DEF MockOutsideProduction, Production
  <2>1. up
    BY DEF EnvironmentInv
  <2> QED
    BY <1>1, <2>1, StartedProduction
<1>3. GateCoversStartup
  BY GateCovers DEF GateCoversStartup
<1>4. ReadyExplained
  BY <1>1, ReadyAgain DEF ReadyExplained
<1>5. ResetLinkServed
  BY <1>1, AddressServed DEF ResetLinkServed
<1>6. AiStatusTruthful
  BY <1>1, StatusTrue DEF AiStatusTruthful
<1> QED
  BY <1>2, <1>3, <1>4, <1>5, <1>6 DEF EnvironmentsAgree

\* The release gate, the startup validation, the readiness report and the AI
\* provider status agree about every environment, and what is mocked stays
\* outside of production (scripts/production-check.js, environment.ts,
\* SystemService, AiProviderFactory).
THEOREM EnvironmentsDoAgree == CodingSpec => []EnvironmentsAgree
  BY EnvironmentStarts, EnvironmentSteps, EnvironmentHolds, PTL DEF CodingSpec
=============================================================================
