------------------------- MODULE ProctoringSession -------------------------
(***************************************************************************)
(* The proctoring session of one exam attempt (ProctoringService).         *)
(* recordEvent and applyPolicyAction run as a chain of separate statements *)
(* with no enclosing transaction: other requests interleave between any    *)
(* two of them, and a request may die after any of them.  The client (or   *)
(* the HTTP layer) repeats an event under its idempotency key.             *)
(*                                                                         *)
(* A batch is a sequence of recordEvent calls, so one request carries one  *)
(* event here.  Event types are grouped by what the code tells apart:      *)
(*   "exit"      examExitViolationEvents (tab hidden, fullscreen exit...)  *)
(*   "critical"  criticalEvents (second session, identity, screen share)   *)
(*   "signal"    any other type (copy, paste, camera disabled...)          *)
(*   "manual"    MANUAL_FLAG                                               *)
(*   "recovery"  examRecoveryEvents                                        *)
(* Types whose weight is always 0 (consent, note, warning, evidence,       *)
(* AUTO_SUBMIT_TRIGGERED) insert a row nothing here reads.  Session status *)
(* is "LIVE" for READY, ACTIVE and DISCONNECTED, "CLOSED" for              *)
(* CONSENT_PENDING, CHECK_PENDING, ENDED and CANCELLED.                    *)
(***************************************************************************)
EXTENDS Integers, FiniteSets

CONSTANTS
  Requests,      \* HTTP requests in service at the same time
  Keys,          \* idempotency keys of events
  Risky,         \* the kinds to which the policy gives a weight > 0
  Heavy,         \* the kinds to which the policy gives a weight >= 20
  Limit,         \* allowedExamExitViolations of the policy snapshot
  FlagThreshold, \* flagThreshold of the policy snapshot
  AutoSubmitOnCritical, \* autoSubmitOnCriticalViolation
  BlockSecond,   \* multipleSessionPolicy = BLOCK_SECOND_SESSION
  Decisions,     \* the review statuses that reviewers send to decide
  MaxDeaths      \* bound on the requests that die half-way

Kinds == {"exit", "critical", "signal", "manual", "recovery"}
Correlated == {"exit", "critical"}

ActiveReview == {"PENDING", "IN_REVIEW", "NEEDS_FOLLOW_UP"}
Outcomes == {"CLEARED", "POLICY_VIOLATION", "INVALIDATED"}
ReviewStatus == ActiveReview \cup Outcomes \cup {"NOT_REQUIRED"}

ASSUME PolicyAssumption ==
  /\ Risky \subseteq Kinds /\ Heavy \subseteq Risky
  /\ Limit \in Nat /\ FlagThreshold \in Nat /\ MaxDeaths \in Nat
  /\ Decisions \subseteq ReviewStatus
  /\ AutoSubmitOnCritical \in BOOLEAN /\ BlockSecond \in BOOLEAN
ASSUME FiniteAssumption == IsFiniteSet(Requests) /\ IsFiniteSet(Keys)

VARIABLES
  attempt,        \* "open", or "closed" once its status is terminal
  status,         \* ProctoringSession.status ("NONE": no row yet)
  reviewStatus,   \* ProctoringSession.reviewStatus
  warningCount, flagCount,
  events,         \* key -> "none", "counted" or "uncounted" (ProctoringEvent)
  criticals,      \* the keys of the stored critical events
  recentExit,     \* a counted exit event is younger than violationCorrelationMs
  recentRecovery, \* so is a recovery event
  review,         \* ProctoringReview.status ("NONE": no row)
  req,            \* the requests in service
  died,           \* history: <<key, stage>> of the requests that died
  decided         \* history: the review statuses a human has chosen

session == <<status, reviewStatus, warningCount, flagCount>>
log == <<events, criticals, recentExit, recentRecovery>>
vars == <<attempt, session, log, review, req, died, decided>>

Idle == [stage |-> "idle"]

(* What a request keeps in memory between its statements.                  *)
Stages == {"flagged", "checked", "inserted", "read", "updated", "reviewed"}
Event(stage, k, kind, counts) ==
  [stage |-> stage, key |-> k, kind |-> kind, counts |-> counts]

Init ==
  /\ attempt = "open" /\ status = "NONE" /\ reviewStatus = "NOT_REQUIRED"
  /\ warningCount = 0 /\ flagCount = 0
  /\ events = [k \in Keys |-> "none"]
  /\ criticals = {} /\ recentExit = FALSE /\ recentRecovery = FALSE
  /\ review = "NONE"
  /\ req = [c \in Requests |-> Idle]
  /\ died = {} /\ decided = {}

-----------------------------------------------------------------------------
(* The session row.                                                        *)

\* upsertSession: an update keeps reviewStatus, a new row starts PENDING.
UpsertSession(s) ==
  /\ status' = s
  /\ reviewStatus' = IF status = "NONE" THEN "PENDING" ELSE reviewStatus
  /\ UNCHANGED <<warningCount, flagCount>>

\* ensureSession: creates the row with CONSENT_PENDING if there is none.
EnsureSession == UpsertSession(IF status = "NONE" THEN "CLOSED" ELSE status)

\* consent and systemCheck put the session to CHECK_PENDING, CANCELLED or READY.
Prepare(s) ==
  /\ s \in {"LIVE", "CLOSED"}
  /\ UpsertSession(s)
  /\ UNCHANGED <<attempt, log, review, req, died, decided>>

\* start, when it does not block a second session.
Start ==
  /\ attempt = "open"
  /\ ~(BlockSecond /\ status = "LIVE")
  /\ UpsertSession("LIVE")
  /\ UNCHANGED <<attempt, log, review, req, died, decided>>

\* heartbeat writes ACTIVE or DISCONNECTED over any status.
Heartbeat ==
  /\ UpsertSession("LIVE")
  /\ UNCHANGED <<attempt, log, review, req, died, decided>>

\* endStudent and end.
EndSession ==
  /\ UpsertSession("CLOSED")
  /\ UNCHANGED <<attempt, log, review, req, died, decided>>

-----------------------------------------------------------------------------
(* recordEvent and applyPolicyAction, one statement at a time.             *)

ShouldCountViolation(kind) ==
  /\ kind \in Risky
  /\ kind \in Correlated => recentRecovery \/ ~recentExit

\* events: the attempt is open; shouldCountViolation reads the recent events.
ReceiveEvent(c, k, kind) ==
  /\ req[c] = Idle /\ attempt = "open"
  /\ EnsureSession
  /\ req' = [req EXCEPT ![c] =
               Event("checked", k, kind, ShouldCountViolation(kind))]
  /\ UNCHANGED <<attempt, log, review, died, decided>>

\* Keys the server makes from the clock are not in use.
Fresh(k) ==
  /\ events[k] = "none"
  /\ \A c \in Requests : req[c].stage \in Stages => req[c].key # k
  /\ \A s \in Stages : <<k, s>> \notin died

\* start on a live session records SECOND_SESSION_ATTEMPT under a fresh key.
SecondSession(c, k) ==
  /\ req[c] = Idle /\ attempt = "open" /\ BlockSecond /\ status = "LIVE"
  /\ Fresh(k)
  /\ req' = [req EXCEPT ![c] =
               Event("checked", k, "critical", ShouldCountViolation("critical"))]
  /\ UNCHANGED <<attempt, session, log, review, died, decided>>

\* flag: the session row first; the review and the event are later statements.
Flag(c, k) ==
  /\ req[c] = Idle /\ status # "NONE" /\ Fresh(k)
  /\ status' = "FLAGGED" /\ flagCount' = flagCount + 1
  /\ reviewStatus' = "PENDING"
  /\ req' = [req EXCEPT ![c] = Event("flagged", k, "manual", FALSE)]
  /\ UNCHANGED <<attempt, warningCount, log, review, died, decided>>

\* flag: ensureReview, then recordEvent(MANUAL_FLAG) begins.
FlagReview(c) ==
  /\ req[c].stage = "flagged"
  /\ review' = "PENDING"
  /\ req' = [req EXCEPT ![c] = Event("checked", req[c].key, "manual",
                                      ShouldCountViolation("manual"))]
  /\ UNCHANGED <<attempt, session, log, died, decided>>

\* Mutant: the event is stored again when its key is already there.
MutInsertEvent(c) ==
  LET r == req[c] IN
  /\ r.stage = "checked"
  /\ events' = [events EXCEPT ![r.key] =
                  IF r.counts THEN "counted" ELSE "uncounted"]
  /\ req' = [req EXCEPT ![c] = Event("inserted", r.key, r.kind, r.counts)]
  /\ UNCHANGED <<attempt, session, criticals, recentExit, recentRecovery,
                 review, died, decided>>

\* proctoringEvent.create; the unique key makes a repeated event end here.
InsertEvent(c) ==
  LET r == req[c] IN
  /\ r.stage = "checked"
  /\ IF events[r.key] # "none"
     THEN /\ req' = [req EXCEPT ![c] = Idle]
          /\ UNCHANGED log
     ELSE /\ events' = [events EXCEPT ![r.key] =
                          IF r.counts THEN "counted" ELSE "uncounted"]
          /\ criticals' = IF r.kind = "critical"
                           THEN criticals \cup {r.key} ELSE criticals
          /\ recentExit' = (recentExit \/ (r.counts /\ r.kind = "exit"))
          /\ recentRecovery' = (recentRecovery \/ r.kind = "recovery")
          /\ req' = [req EXCEPT ![c] =
                       IF r.counts \/ r.kind = "critical"
                       THEN Event("inserted", r.key, r.kind, r.counts)
                       ELSE Idle]
  /\ UNCHANGED <<attempt, session, review, died, decided>>

Flags(r) == (r.counts /\ r.kind \in Heavy) \/ r.kind = "critical"

\* Mutant: a review is opened from flagThreshold on only.
MutReadSession(c) ==
  LET r == req[c] IN
  /\ r.stage = "inserted"
  /\ req' = [req EXCEPT ![c] =
       [stage |-> "read", key |-> r.key, kind |-> r.kind, counts |-> r.counts,
        status |-> status, reviewStatus |-> reviewStatus,
        opens |-> FlagThreshold <= flagCount + 1]]
  /\ UNCHANGED <<attempt, session, log, review, died, decided>>

\* applyPolicyAction reads the session; it will write status and
\* reviewStatus back, and flagCount decides whether a review is opened.
ReadSession(c) ==
  LET r == req[c] IN
  /\ r.stage = "inserted"
  /\ req' = [req EXCEPT ![c] =
       [stage |-> "read", key |-> r.key, kind |-> r.kind, counts |-> r.counts,
        status |-> status, reviewStatus |-> reviewStatus,
        opens |-> Flags(r) \/ FlagThreshold <= flagCount + 1]]
  /\ UNCHANGED <<attempt, session, log, review, died, decided>>

\* Mutant: the limit is compared with the count before the increment.
MutUpdateSession(c) ==
  LET r == req[c] IN
  /\ r.stage = "read"
  /\ warningCount' = warningCount + (IF r.counts THEN 1 ELSE 0)
  /\ flagCount' = flagCount + (IF Flags(r) THEN 1 ELSE 0)
  /\ status' = IF Flags(r) THEN "FLAGGED" ELSE r.status
  /\ reviewStatus' = IF Flags(r) THEN "PENDING" ELSE r.reviewStatus
  /\ req' = [req EXCEPT ![c] =
       [stage |-> "updated", key |-> r.key, kind |-> r.kind,
        counts |-> r.counts, opens |-> r.opens, over |-> warningCount > Limit]]
  /\ UNCHANGED <<attempt, log, review, died, decided>>

\* The update increments in the database and returns the new warningCount.
UpdateSession(c) ==
  LET r == req[c] IN
  /\ r.stage = "read"
  /\ warningCount' = warningCount + (IF r.counts THEN 1 ELSE 0)
  /\ flagCount' = flagCount + (IF Flags(r) THEN 1 ELSE 0)
  /\ status' = IF Flags(r) THEN "FLAGGED" ELSE r.status
  /\ reviewStatus' = IF Flags(r) THEN "PENDING" ELSE r.reviewStatus
  /\ req' = [req EXCEPT ![c] =
       [stage |-> "updated", key |-> r.key, kind |-> r.kind,
        counts |-> r.counts, opens |-> r.opens, over |-> warningCount' > Limit]]
  /\ UNCHANGED <<attempt, log, review, died, decided>>

\* ensureReview sets the review to PENDING, whatever it was.
EnsureReview(c) ==
  LET r == req[c] IN
  /\ r.stage = "updated"
  /\ review' = IF r.opens THEN "PENDING" ELSE review
  /\ req' = [req EXCEPT ![c] =
       [stage |-> "reviewed", key |-> r.key, kind |-> r.kind,
        counts |-> r.counts, over |-> r.over]]
  /\ UNCHANGED <<attempt, session, log, died, decided>>

ShouldAutoSubmit(r) ==
  r.over \/ (AutoSubmitOnCritical /\ r.kind = "critical")

\* Mutant: the automatic submission also passes judgement.
MutAutoSubmit(c) ==
  /\ req[c].stage = "reviewed"
  /\ attempt' = IF ShouldAutoSubmit(req[c]) THEN "closed" ELSE attempt
  /\ reviewStatus' = IF ShouldAutoSubmit(req[c]) THEN "POLICY_VIOLATION"
                                                 ELSE reviewStatus
  /\ req' = [req EXCEPT ![c] = Idle]
  /\ UNCHANGED <<status, warningCount, flagCount, log, review, died, decided>>

\* autoSubmitAttemptForProctoring: one transaction, a no-op once terminal.
AutoSubmit(c) ==
  /\ req[c].stage = "reviewed"
  /\ attempt' = IF ShouldAutoSubmit(req[c]) THEN "closed" ELSE attempt
  /\ req' = [req EXCEPT ![c] = Idle]
  /\ UNCHANGED <<session, log, review, died, decided>>

\* The process dies, or a statement fails with anything but a unique error.
Die(c) ==
  LET r == req[c] IN
  /\ r # Idle
  /\ IF r.stage = "ruled"
     THEN UNCHANGED died
     ELSE /\ Cardinality(died) < MaxDeaths
          /\ died' = died \cup {<<r.key, r.stage>>}
  /\ req' = [req EXCEPT ![c] = Idle]
  /\ UNCHANGED <<attempt, session, log, review, decided>>

-----------------------------------------------------------------------------
(* Proctors, the student's own submission and the clock.                   *)

\* clear.
Clear ==
  /\ status # "NONE"
  /\ status' = "LIVE" /\ reviewStatus' = "CLEARED"
  /\ decided' = decided \cup {"CLEARED"}
  /\ UNCHANGED <<attempt, warningCount, flagCount, log, review, req, died>>

\* decide: ensureReview and the update of the review row ...
DecideReview(c, d) ==
  /\ req[c] = Idle /\ status # "NONE"
  /\ review' = d /\ decided' = decided \cup {d}
  /\ req' = [req EXCEPT ![c] = [stage |-> "ruled", decision |-> d]]
  /\ UNCHANGED <<attempt, session, log, died>>

\* ... and then the update of the session row.
DecideSession(c) ==
  /\ req[c].stage = "ruled"
  /\ reviewStatus' = req[c].decision
  /\ req' = [req EXCEPT ![c] = Idle]
  /\ UNCHANGED <<attempt, status, warningCount, flagCount, log, review, 
                 died, decided>>

\* Any other way to close the attempt (student, sweep, operator).
SubmitAttempt ==
  /\ attempt = "open" /\ attempt' = "closed"
  /\ UNCHANGED <<session, log, review, req, died, decided>>

\* violationCorrelationMs pass.
Forget ==
  /\ recentExit \/ recentRecovery
  /\ \E e, r \in BOOLEAN :
       /\ e => recentExit
       /\ r => recentRecovery
       /\ recentExit' = e /\ recentRecovery' = r
  /\ UNCHANGED <<attempt, session, events, criticals, review, req, died, decided>>

-----------------------------------------------------------------------------
Next ==
  \/ \E s \in {"LIVE", "CLOSED"} : Prepare(s)
  \/ Start \/ Heartbeat \/ EndSession \/ Clear \/ SubmitAttempt \/ Forget
  \/ \E c \in Requests :
       \/ \E k \in Keys :
            \/ \E kind \in Kinds : ReceiveEvent(c, k, kind)
            \/ SecondSession(c, k) \/ Flag(c, k)
       \/ FlagReview(c) \/ InsertEvent(c) \/ ReadSession(c)
       \/ UpdateSession(c) \/ EnsureReview(c) \/ AutoSubmit(c) \/ Die(c)
       \/ \E d \in Decisions : DecideReview(c, d)
       \/ DecideSession(c)

Spec == Init /\ [][Next]_vars

-----------------------------------------------------------------------------
(* Every variable and every request in service has its type.               *)
Bare == [stage : {"flagged", "checked", "inserted"},
         key : Keys, kind : Kinds, counts : BOOLEAN]
Informed == [stage : {"read"}, key : Keys, kind : Kinds, counts : BOOLEAN,
             status : {"NONE", "LIVE", "FLAGGED", "CLOSED"},
             reviewStatus : ReviewStatus, opens : BOOLEAN]
Written == [stage : {"updated"}, key : Keys, kind : Kinds, counts : BOOLEAN,
            opens : BOOLEAN, over : BOOLEAN]
Filed == [stage : {"reviewed"}, key : Keys, kind : Kinds, counts : BOOLEAN,
          over : BOOLEAN]
Ruled == [stage : {"ruled"}, decision : ReviewStatus]

TypeOK ==
  /\ attempt \in {"open", "closed"}
  /\ status \in {"NONE", "LIVE", "FLAGGED", "CLOSED"}
  /\ reviewStatus \in ReviewStatus
  /\ warningCount \in Nat /\ flagCount \in Nat
  /\ events \in [Keys -> {"none", "counted", "uncounted"}]
  /\ criticals \subseteq Keys
  /\ recentExit \in BOOLEAN /\ recentRecovery \in BOOLEAN
  /\ review \in ReviewStatus \cup {"NONE"}
  /\ req \in [Requests -> {Idle} \cup Bare \cup Informed \cup Written
                          \cup Filed \cup Ruled]
  /\ died \subseteq Keys \X Stages
  /\ decided \subseteq ReviewStatus

\* Requests that carry a counted event and have reached one of the stages.
InFlight(stages) == {c \in Requests : req[c].stage \in stages /\ req[c].counts}

\* Counted events whose request died in one of the stages.
Dead(stages) == {k \in Keys : events[k] = "counted"
                              /\ \E s \in stages : <<k, s>> \in died}
Counted == {k \in Keys : events[k] = "counted"}

(* Every stored counted event adds exactly one to warningCount, however    *)
(* often the client repeats it and however requests interleave: the only   *)
(* gap is the requests between the insert and the increment, in service or *)
(* dead (the unique key of ProctoringEvent and the increment in the        *)
(* database, never a read-modify-write).                                   *)
EventsCountOnce ==
  warningCount + Cardinality(InFlight({"inserted", "read"}))
               + Cardinality(Dead({"inserted", "read"})) = Cardinality(Counted)

\* The counters of the session row are those of its stored events, repeated,
\* concurrent and half-finished requests included.
SessionConsistent ==
    /\ TypeOK
    /\ EventsCountOnce

\* Requests that counted a violation above the limit and have not yet acted.
Overdue == {c \in InFlight({"updated", "reviewed"}) : req[c].over}

(* An attempt stays open beyond the allowed number of violations only by   *)
(* the requests that have counted theirs and not yet come to the automatic *)
(* submission, or died before it (the retry of a dead request ends at the  *)
(* unique key, so only the next violation closes such an attempt).         *)
LimitEnforced ==
  attempt = "open" =>
    warningCount <= Limit + Cardinality(Overdue)
                          + Cardinality(Dead({"updated", "reviewed"}))

Working == {"inserted", "read", "updated", "reviewed"}

(* Under autoSubmitOnCriticalViolation an attempt with a stored critical   *)
(* event is open only while the request that stored it is in service, or   *)
(* because it died, also when the event was too close to another to count. *)
CriticalSubmits ==
  AutoSubmitOnCritical /\ attempt = "open" =>
    \A k \in criticals :
      \/ \E c \in Requests : req[c].stage \in Working /\ req[c].key = k
      \/ \E s \in Working : <<k, s>> \in died

\* Neither violations beyond the limit nor, where the policy says so, a critical
\* one leave the attempt open, unless a request is still at work or died half-way.
ViolationsSubmit ==
    /\ LimitEnforced
    /\ CriticalSubmits

(* A session that was ever flagged, by the policy or by a proctor, has a   *)
(* review row, or a request on its way to open one, or one that died there.*)
FlagIsReviewed ==
  flagCount > 0 =>
    \/ review # "NONE"
    \/ \E c \in Requests :
         req[c].stage = "flagged" \/ (req[c].stage = "updated" /\ req[c].opens)
    \/ \E k \in Keys, s \in {"flagged", "updated"} : <<k, s>> \in died

(* Automation is advisory: an outcome shown on the session or on its       *)
(* review is one that a human chose at some time, although requests write  *)
(* back a reviewStatus that they read earlier.                             *)
OutcomeIsHuman == {reviewStatus, review} \cap Outcomes \subseteq decided
=============================================================================
