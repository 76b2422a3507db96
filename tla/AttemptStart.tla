---------------------------- MODULE AttemptStart ----------------------------
(***************************************************************************)
(* One student's attempts at one assessment: startAttempt, and what the    *)
(* administrators do to the limit (resetStudentAttempts,                   *)
(* grantStudentAttempt).                                                   *)
(*                                                                         *)
(* startAttempt is a SERIALIZABLE transaction, so PostgreSQL lets only one *)
(* of two overlapping starts commit.  The other writers, the sweep, the    *)
(* submission and the two administrator operations, run at READ COMMITTED  *)
(* and take no part in that check: a start may commit on a stale reading   *)
(* of the grant or of the other attempts' status.  A start is therefore    *)
(* two steps, the snapshot and the commit.                                 *)
(*                                                                         *)
(* The table of attempts is a function from attemptNumber, which the       *)
(* unique index on (assessment, student, attemptNumber) makes a key.       *)
(***************************************************************************)
EXTENDS Naturals, FiniteSets

CONSTANTS
    Devices,      \* the student's tabs and devices
    Keys,         \* idempotency keys a client may send
    NoKey,        \* a request without one
    MaxAttempts,  \* Assessment.maxAttempts
    Duration,     \* durationMinutes, at least a minute
    StartAt, EndAt, \* the assessment window
    MaxTime,      \* bound: the clock
    MaxNumber,    \* bound: attempts in the table
    MaxGrant      \* bound: additionalAttempts

ASSUME StartAssumption ==
    /\ MaxAttempts \in Nat \ {0}
    /\ Duration \in Nat \ {0}
    /\ StartAt \in Nat /\ EndAt \in Nat
    /\ MaxTime \in Nat \ {0}
    /\ MaxNumber \in Nat
    /\ MaxGrant \in Nat
    /\ NoKey \notin Keys

VARIABLES
    now,          \* the clock, in units of the shortest duration
    attempts,     \* the TestAttempt rows, by attemptNumber
    resetBefore,  \* AssessmentAttemptGrant.resetBefore; 0: never reset
    additional,   \* AssessmentAttemptGrant.additionalAttempts
    opening       \* the snapshot of each client's open start

svars == <<now, attempts, resetBefore, additional, opening>>

Rows == [status: {"IN_PROGRESS", "CLOSED"}, createdAt: 1..MaxTime,
         expiresAt: Nat, key: Keys \cup {NoKey}]

NoStart == [op |-> "idle"]
Starting == [op: {"start"}, key: Keys \cup {NoKey}, number: 1..MaxNumber,
             seen: SUBSET (1..MaxNumber)]

(* The one type invariant. *)
StartTypeOK ==
    /\ now \in 1..MaxTime
    /\ \E S \in SUBSET (1..MaxNumber) : attempts \in [S -> Rows]
    /\ resetBefore \in 0..MaxTime
    /\ additional \in 0..MaxGrant
    /\ opening \in [Devices -> {NoStart} \cup Starting]

StartsInit ==
    /\ now = 1
    /\ attempts = [n \in {} |-> {}]
    /\ resetBefore = 0
    /\ additional = 0
    /\ opening = [c \in Devices |-> NoStart]

Tick ==
    /\ now < MaxTime
    /\ now' = now + 1
    /\ UNCHANGED <<attempts, resetBefore, additional, opening>>

\* validateStartEligibility: the closing instant itself is inside.
WindowOpen == StartAt <= now /\ now <= EndAt

Live(n) == attempts[n].status = "IN_PROGRESS" /\ attempts[n].expiresAt > now

LiveAttempts == {n \in DOMAIN attempts : Live(n)}

\* Mutant: an attempt in progress does not stop another.
MutNoActiveAttempt == TRUE

NoActiveAttempt == LiveAttempts = {}

Counted == {n \in DOMAIN attempts : attempts[n].createdAt > resetBefore}

Limit == MaxAttempts + additional

BelowLimit == Cardinality(Counted) < Limit

\* latestAttempt.attemptNumber + 1, whatever was reset.
NextNumber ==
    IF DOMAIN attempts = {} THEN 1
    ELSE 1 + CHOOSE n \in DOMAIN attempts : \A k \in DOMAIN attempts : k <= n

KeyUsed(k) == k # NoKey /\ \E n \in DOMAIN attempts : attempts[n].key = k

\* A start that is refused, that finds its key or that finds a live attempt
\* returns without a change.
StartRead(c, k) ==
    /\ opening[c] = NoStart
    /\ ~KeyUsed(k)
    /\ WindowOpen
    /\ NoActiveAttempt
    /\ BelowLimit
    /\ NextNumber <= MaxNumber
    /\ opening' = [opening EXCEPT ![c] = [op |-> "start", key |-> k,
                                          number |-> NextNumber,
                                          seen |-> DOMAIN attempts]]
    /\ UNCHANGED <<now, attempts, resetBefore, additional>>

\* No other start has committed since the snapshot, and the unique indexes
\* on attemptNumber and idempotencyKey accept the row.
Serializable(s) ==
    /\ s.seen = DOMAIN attempts
    /\ s.number \notin DOMAIN attempts
    /\ ~KeyUsed(s.key)

\* The smaller of the two, also when the window closes during the start.
ExpiresAt == IF EndAt < now + Duration THEN EndAt ELSE now + Duration

StartCommit(c) ==
    LET s == opening[c] IN
    /\ s.op = "start"
    /\ Serializable(s)
    /\ attempts' = [n \in DOMAIN attempts \cup {s.number} |->
                      IF n = s.number
                        THEN [status |-> "IN_PROGRESS", createdAt |-> now,
                              expiresAt |-> ExpiresAt, key |-> s.key]
                        ELSE attempts[n]]
    /\ opening' = [opening EXCEPT ![c] = NoStart]
    /\ UNCHANGED <<now, resetBefore, additional>>

StartAbort(c) ==
    /\ opening[c] # NoStart
    /\ opening' = [opening EXCEPT ![c] = NoStart]
    /\ UNCHANGED <<now, attempts, resetBefore, additional>>

\* The attempt is submitted, auto-submitted or expires: module ExamAttempt.
Close(n) ==
    /\ attempts[n].status = "IN_PROGRESS"
    /\ attempts' = [attempts EXCEPT ![n].status = "CLOSED"]
    /\ UNCHANGED <<now, resetBefore, additional, opening>>

ResetStudentAttempts ==
    /\ resetBefore' = now
    /\ additional' = 0
    /\ UNCHANGED <<now, attempts, opening>>

GrantStudentAttempt ==
    /\ additional < MaxGrant
    /\ additional' = additional + 1
    /\ UNCHANGED <<now, attempts, resetBefore, opening>>

StartsNext ==
    \/ Tick
    \/ ResetStudentAttempts
    \/ GrantStudentAttempt
    \/ \E n \in DOMAIN attempts : Close(n)
    \/ \E c \in Devices :
          \/ \E k \in Keys \cup {NoKey} : StartRead(c, k)
          \/ StartCommit(c)
          \/ StartAbort(c)

StartsSpec == StartsInit /\ [][StartsNext]_svars

-----------------------------------------------------------------------------
(* Properties.                                                             *)

\* A student never has two attempts running at a time, whatever tabs and
\* devices start at once.
OneLiveAttempt == \A m, n \in LiveAttempts : m = n

\* The attempts that count never exceed the limit in force, though starts,
\* grants and resets commit in any order.
AttemptsWithinLimit == Cardinality(Counted) <= Limit

\* Attempt numbers are 1, 2, 3, ... without gaps, and a start that no other
\* start has overtaken never collides with one, even after a reset.
NumbersAreFresh ==
    /\ \E k \in 0..MaxNumber : DOMAIN attempts = 1..k
    /\ \A c \in Devices :
          opening[c] # NoStart /\ opening[c].seen = DOMAIN attempts
             => opening[c].number \notin DOMAIN attempts

\* The server's timer never outlives the assessment window, however late an
\* attempt was started and however slow the start was.
LiveWithinWindow == LiveAttempts # {} => now < EndAt

\* Starts, grants and resets that commit in any order keep one attempt running,
\* the limit in force, numbers without gaps or collisions, and the window.
StartsConsistent ==
    /\ StartTypeOK
    /\ OneLiveAttempt
    /\ AttemptsWithinLimit
    /\ NumbersAreFresh
    /\ LiveWithinWindow
=============================================================================
