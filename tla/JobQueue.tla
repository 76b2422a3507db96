------------------------------ MODULE JobQueue ------------------------------
(***************************************************************************)
(* Background jobs: the BullMQ queue (external), the BackgroundJobRecord     *)
(* rows that ExamQueueService and the worker write about it, the worker's    *)
(* handler and the operators' actions.  Each queue operation and each write  *)
(* of a row is a statement of its own, so a record can be behind its job.    *)
(* A job is its unique id; its work (ExamAttempt, Grading) is one step.      *)
(***************************************************************************)
EXTENDS Integers

CONSTANTS Ids, Calls,       \* jobs, and slots for API calls in flight
          Attempts,         \* the attempts option (5)
          MaxCalls, MaxFaults   \* bounds: calls; faults and restarts

ASSUME QueueAssumption ==
    /\ Attempts \in Nat \ {0} /\ MaxCalls \in Nat /\ MaxFaults \in Nat

VARIABLES queue,     \* where BullMQ holds the job
          tries,     \* attemptsMade
          paused,
          record,    \* BackgroundJobRecord.status
          handler,   \* where the worker's processor is
          call,      \* API calls between their two statements
          worked,    \* history: the job's work has been done
          behind,    \* history: the record may not tell the job's state
          calls, faults

queueVars == <<queue, tries, paused, record, handler, call, worked, behind, calls, faults>>

QueueStates == {"absent", "waiting", "delayed", "active", "completed", "failed"}
RecordStates == {"NONE", "WAITING", "DELAYED", "ACTIVE", "COMPLETED", "FAILED"}
HandlerSteps == {"idle", "start", "work", "done", "fail", "resolve", "reject"}
NoCall == [at |-> "idle"]
\* calm: nothing has happened to the job since the call's queue operation
CallRow == [at : {"added", "retried", "removed"}, job : Ids, calm : BOOLEAN,
            status : RecordStates]

\* The queue, the rows and the calls hold values of their types, and the worker
\* handles active jobs only.
JobQueueTypeOK ==
    /\ queue \in [Ids -> QueueStates] /\ tries \in [Ids -> 0..Attempts]
    /\ paused \in BOOLEAN /\ record \in [Ids -> RecordStates]
    /\ handler \in [Ids -> HandlerSteps] /\ call \in [Calls -> CallRow \cup {NoCall}]
    /\ worked \subseteq Ids /\ behind \subseteq Ids
    /\ calls \in 0..MaxCalls /\ faults \in 0..MaxFaults
    /\ \A j \in Ids : handler[j] # "idle" => queue[j] = "active"

-----------------------------------------------------------------------------
Pending(j) == {c \in Calls : call[c] # NoCall /\ call[c].job = j}

\* the calls, when something else happens to job j
Disturb(j) == [c \in Calls |-> IF c \in Pending(j) THEN [call[c] EXCEPT !.calm = FALSE] ELSE call[c]]

NewCall(c) == call[c] = NoCall /\ calls < MaxCalls /\ calls' = calls + 1
Fault == faults < MaxFaults /\ faults' = faults + 1
Put(j, state) == queue' = [queue EXCEPT ![j] = state]
Write(j, status) == record' = [record EXCEPT ![j] = status]

\* addJob, queue.add: an id the queue still holds is left alone
AddJob(c, j, delay) ==
    /\ NewCall(c)
    /\ IF queue[j] = "absent" THEN Put(j, IF delay THEN "delayed" ELSE "waiting")
                                   /\ tries' = [tries EXCEPT ![j] = 0]
                              ELSE UNCHANGED <<queue, tries>>
    /\ call' = [Disturb(j) EXCEPT ![c] = [at |-> "added", job |-> j,
           calm |-> queue[j] = "absent", status |-> IF delay THEN "DELAYED" ELSE "WAITING"]]
    /\ UNCHANGED <<paused, record, handler, worked, behind, faults>>

\* retryFailed, job.retry("failed")
RetryFailed(c, j) ==
    /\ NewCall(c) /\ queue[j] = "failed" /\ Put(j, "waiting")
    /\ call' = [Disturb(j) EXCEPT ![c] =
           [at |-> "retried", job |-> j, calm |-> TRUE, status |-> "WAITING"]]
    /\ UNCHANGED <<tries, paused, record, handler, worked, behind, faults>>

\* removeFailed, job.remove(), which refuses only a job that is being handled
RemoveFailed(c, j) ==
    /\ NewCall(c) /\ queue[j] \notin {"absent", "active"} /\ Put(j, "absent")
    /\ call' = [Disturb(j) EXCEPT ![c] =
           [at |-> "removed", job |-> j, calm |-> TRUE, status |-> "FAILED"]]
    /\ UNCHANGED <<tries, paused, record, handler, worked, behind, faults>>

\* the second statement: addJob upserts, the others update a row that exists
Upserts(c) == call[c].at = "added" \/ record[call[c].job] # "NONE"
RecordCall(c) ==
    /\ call[c] # NoCall
    /\ LET j == call[c].job IN
         /\ IF Upserts(c) THEN Write(j, call[c].status) ELSE UNCHANGED record
         /\ behind' = IF ~call[c].calm THEN behind \cup {j}
                      ELSE IF Upserts(c) THEN behind \ {j} ELSE behind
         /\ call' = [Disturb(j) EXCEPT ![c] = NoCall]
    /\ UNCHANGED <<queue, tries, paused, handler, worked, calls, faults>>

\* the API process restarts, or the database refuses the statement
CallLost(c) ==
    /\ call[c] # NoCall /\ Fault
    /\ behind' = behind \cup {call[c].job}
    /\ call' = [call EXCEPT ![c] = NoCall]
    /\ UNCHANGED <<queue, tries, paused, record, handler, worked, calls>>

Pause(p) ==
    /\ paused # p /\ calls < MaxCalls /\ calls' = calls + 1 /\ paused' = p
    /\ UNCHANGED <<queue, tries, record, handler, call, worked, behind, faults>>

-----------------------------------------------------------------------------
(* The queue and the worker. *)

\* the delay is over
Due(j) ==
    /\ queue[j] = "delayed" /\ Put(j, "waiting")
    /\ UNCHANGED <<tries, paused, record, handler, call, worked, behind, calls, faults>>

\* removeOnComplete drops all but the latest 500
Trimmed(j) ==
    /\ queue[j] = "completed" /\ Put(j, "absent") /\ call' = Disturb(j)
    /\ UNCHANGED <<tries, paused, record, handler, worked, behind, calls, faults>>

Take(j) ==
    /\ queue[j] = "waiting" /\ ~paused /\ Put(j, "active")
    /\ handler' = [handler EXCEPT ![j] = "start"] /\ call' = Disturb(j)
    /\ UNCHANGED <<tries, paused, record, worked, behind, calls, faults>>

Proceed(j, step) == handler' = [handler EXCEPT ![j] = step]

\* recordJob ACTIVE comes before the try: when it fails, nothing is recorded
RecordActive(j) ==
    /\ handler[j] = "start" /\ UNCHANGED <<queue, tries, paused, worked, calls>>
    /\ \/ Proceed(j, "work") /\ Write(j, "ACTIVE") /\ call' = Disturb(j) /\ UNCHANGED <<behind, faults>>
       \/ Fault /\ Proceed(j, "reject") /\ behind' = behind \cup {j} /\ UNCHANGED <<record, call>>

\* autoSubmitAttempt or calculateResult
Work(j) ==
    /\ handler[j] = "work"
    /\ \/ Proceed(j, "done") /\ worked' = worked \cup {j}
       \/ Proceed(j, "fail") /\ UNCHANGED worked
    /\ UNCHANGED <<queue, tries, paused, record, call, behind, calls, faults>>

\* recordJob COMPLETED is inside the try: when it fails, the job has failed
RecordCompleted(j) ==
    /\ handler[j] = "done" /\ UNCHANGED <<queue, tries, paused, worked, calls>>
    /\ \/ /\ Proceed(j, "resolve") /\ Write(j, "COMPLETED") /\ call' = Disturb(j)
          /\ behind' = behind \ {j} /\ UNCHANGED faults
       \/ Fault /\ Proceed(j, "fail") /\ UNCHANGED <<record, call, behind>>

\* the catch: FAILED is recorded and the error thrown on
RecordFailed(j) ==
    /\ handler[j] = "fail" /\ Proceed(j, "reject") /\ UNCHANGED <<queue, tries, paused, worked, calls>>
    /\ \/ Write(j, "FAILED") /\ call' = Disturb(j) /\ behind' = behind \ {j} /\ UNCHANGED faults
       \/ Fault /\ behind' = behind \cup {j} /\ UNCHANGED <<record, call>>

Resolve(j) ==
    /\ handler[j] = "resolve" /\ Proceed(j, "idle") /\ Put(j, "completed") /\ call' = Disturb(j)
    /\ UNCHANGED <<tries, paused, record, worked, behind, calls, faults>>

\* Mutant: the catch does not throw the error on.
MutReject(j) ==
    /\ handler[j] = "reject" /\ Proceed(j, "idle") /\ Put(j, "completed") /\ call' = Disturb(j)
    /\ UNCHANGED <<tries, paused, record, worked, behind, calls, faults>>

\* backoff, until the attempts are used up; a job that was retried has none left
Reject(j) ==
    /\ handler[j] = "reject" /\ Proceed(j, "idle") /\ call' = Disturb(j)
    /\ IF tries[j] + 1 < Attempts
       THEN Put(j, "delayed") /\ tries' = [tries EXCEPT ![j] = @ + 1]
       ELSE Put(j, "failed") /\ tries' = [tries EXCEPT ![j] = Attempts]
    /\ UNCHANGED <<paused, record, worked, behind, calls, faults>>

\* the worker dies in the middle of a job: BullMQ finds it stalled and puts it
\* back, or fails it when that has happened before
WorkerDies(j) ==
    /\ handler[j] # "idle" /\ Fault /\ Proceed(j, "idle")
    /\ behind' = behind \cup {j} /\ call' = Disturb(j)
    /\ \E state \in {"waiting", "failed"} : Put(j, state)
    /\ UNCHANGED <<tries, paused, record, worked, calls>>

-----------------------------------------------------------------------------
QueueInit ==
    /\ queue = [j \in Ids |-> "absent"] /\ tries = [j \in Ids |-> 0]
    /\ paused = FALSE /\ record = [j \in Ids |-> "NONE"]
    /\ handler = [j \in Ids |-> "idle"] /\ call = [c \in Calls |-> NoCall]
    /\ worked = {} /\ behind = {} /\ calls = 0 /\ faults = 0

CallNext(c) ==
    \/ \E j \in Ids : \/ \E delay \in BOOLEAN : AddJob(c, j, delay)
                         \/ RetryFailed(c, j) \/ RemoveFailed(c, j)
    \/ RecordCall(c) \/ CallLost(c)
WorkerNext(j) ==
    \/ Due(j) \/ Trimmed(j) \/ Take(j) \/ RecordActive(j) \/ Work(j) \/ RecordCompleted(j)
    \/ RecordFailed(j) \/ Resolve(j) \/ Reject(j) \/ WorkerDies(j)
QueueNext ==
    \/ \E c \in Calls : CallNext(c)
    \/ \E j \in Ids : WorkerNext(j)
    \/ \E p \in BOOLEAN : Pause(p)

QueueSpec == QueueInit /\ [][QueueNext]_queueVars

-----------------------------------------------------------------------------
\* A record says COMPLETED only of a job whose work was done, whatever calls,
\* retries, removals, restarts and failed statements come between.
CompletedMeansDone == \A j \in Ids :
    record[j] = "COMPLETED" \/ queue[j] = "completed" => j \in worked

\* A job that nobody is working on is where its record says, unless a call
\* wrote the record after the job had gone on, or a fault cut a write off, and
\* no handler or call has written it since.
Told == [absent |-> {"NONE", "COMPLETED", "FAILED"}, waiting |-> {"WAITING", "DELAYED", "FAILED"},
         delayed |-> {"DELAYED", "FAILED"}, completed |-> {"COMPLETED"}, failed |-> {"FAILED"}]
RecordTruthful == \A j \in Ids \ behind :
    Pending(j) = {} /\ queue[j] # "active" => record[j] \in Told[queue[j]]

\* The BullMQ job and its database row tell the same story once no call is under
\* way, and neither calls an unfinished job completed.
QueueConsistent ==
    /\ JobQueueTypeOK
    /\ CompletedMeansDone
    /\ RecordTruthful
=============================================================================
