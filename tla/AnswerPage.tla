----------------------------- MODULE AnswerPage -----------------------------
(***************************************************************************)
(* The exam page of the web application and the answers it sends: the      *)
(* debounced save, the retry queue in localStorage, the flush of that      *)
(* queue when the browser is online again and before the final submit, and *)
(* a network that delays, reorders and loses requests and answers.         *)
(*                                                                         *)
(* Data: what the student enters is numbered through, so an answer is the  *)
(* number of the edit it came from and 0 is no answer.  The queue   *)
(* holds one entry per question, because enqueue filters the older one     *)
(* out; the order in which a flush walks through it is left open.          *)
(***************************************************************************)
EXTENDS Naturals, FiniteSets

CONSTANTS
    Questions,  \* the questions of the attempt
    Flushers,   \* bound: flushes of the queue that run at the same time
    MaxEdits,   \* bound: edits of the student
    MaxFlight,  \* bound: requests in flight when the student edits
    NoTimer     \* no save is scheduled

VARIABLES
    edits,      \* the edits made so far
    chosen,     \* the student's newest edit of each question
    timer,      \* the answer that the 700 ms timer will send
    flight,     \* requests that were sent and whose promise is not settled
    queue,      \* localStorage: the answers whose save failed
    flush,      \* the flushes of the queue in progress
    saveState,  \* what the page displays
    page,       \* "exam", or "left" for the submitted page
    submit,     \* the submit request: "none" or "posted"
    timedOut,   \* autoSubmitting: the page has submitted at remaining = 0
    open,       \* the server: the attempt is IN_PROGRESS
    server,     \* the server: the answers saved
    accepted,   \* history: the answers the server has ever saved
    handed,     \* history: the queue that the posted submit had to deliver
    lost        \* history: questions whose newest edit was lost on the way

vars == <<edits, chosen, timer, flight, queue, flush, saveState, page,
          submit, timedOut, open, server, accepted, handed, lost>>

ASSUME PageAssumption ==
    /\ MaxEdits \in Nat /\ MaxFlight \in Nat
    /\ {"save", "clear", "orphan"} \cap Flushers = {}
    /\ NoTimer \notin [question: Questions, edit: Nat]

Edits == 0..MaxEdits
Answers == [question: Questions, edit: 1..MaxEdits]
Sheets == [Questions -> Edits]

\* A request of a page that is gone, or that its page has given up, is an
\* orphan: the server may still receive it.
Sends == [question: Questions, edit: 1..MaxEdits,
             via: {"save", "clear", "orphan"} \cup Flushers,
             at: {"sent", "applied"}]

Idle == [op |-> "idle"]
Flushing == [op: {"flush"}, items: Sheets, todo: SUBSET Questions,
             then: {"nothing", "submit"}]

(* The one type invariant. *)
TypeOK ==
    /\ edits \in Edits
    /\ chosen \in Sheets
    /\ timer \in Answers \cup {NoTimer}
    /\ flight \subseteq Sends
    /\ queue \in Sheets
    /\ flush \in [Flushers -> {Idle} \cup Flushing]
    /\ saveState \in {"idle", "saving", "saved", "failed"}
    /\ page \in {"exam", "left"}
    /\ submit \in {"none", "posted"}
    /\ timedOut \in BOOLEAN
    /\ open \in BOOLEAN
    /\ server \in Sheets
    /\ accepted \subseteq Questions \X (1..MaxEdits)
    /\ handed \in Sheets
    /\ lost \subseteq Questions

Blank == [q \in Questions |-> 0]

Init ==
    /\ edits = 0
    /\ chosen = Blank
    /\ timer = NoTimer
    /\ flight = {}
    /\ queue = Blank
    /\ flush = [f \in Flushers |-> Idle]
    /\ saveState = "idle"
    /\ page = "exam"
    /\ submit = "none"
    /\ timedOut = FALSE
    /\ open = TRUE
    /\ server = Blank
    /\ accepted = {}
    /\ handed = Blank
    /\ lost = {}

Request(q, n, via) == [question |-> q, edit |-> n, via |-> via, at |-> "sent"]

Orphan(m) == Request(m.question, m.edit, "orphan")

-----------------------------------------------------------------------------
(* The student edits.                                                      *)

\* The question whose waiting answer the one timer drops.
Displaced(q) ==
    IF timer = NoTimer \/ timer.question = q THEN {} ELSE {timer.question}

\* scheduleSave: one timer serves all questions.  (Under a proctoring warning
\* the page returns at once, which is no step.)
ScheduleSave(q) ==
    /\ page = "exam"
    /\ edits < MaxEdits /\ Cardinality(flight) < MaxFlight
    /\ edits' = edits + 1
    /\ chosen' = [chosen EXCEPT ![q] = edits']
    /\ timer' = [question |-> q, edit |-> edits']
    /\ saveState' = "saving"
    /\ lost' = (lost \ {q}) \cup Displaced(q)
    /\ UNCHANGED <<flight, queue, flush, page, submit, timedOut, open, server,
                   accepted, handed>>

\* The timer's callback sends the answer.
SendSave ==
    /\ timer # NoTimer
    /\ flight' = flight \cup {Request(timer.question, timer.edit, "save")}
    /\ timer' = NoTimer
    /\ UNCHANGED <<edits, chosen, queue, flush, saveState, page, submit,
                   timedOut, open, server, accepted, handed, lost>>

\* clearAnswer sends at once, and leaves the timer running.
ClearAnswer(q) ==
    /\ page = "exam"
    /\ edits < MaxEdits /\ Cardinality(flight) < MaxFlight
    /\ edits' = edits + 1
    /\ chosen' = [chosen EXCEPT ![q] = edits']
    /\ flight' = flight \cup {Request(q, edits', "clear")}
    /\ lost' = lost \ {q}
    /\ UNCHANGED <<timer, queue, flush, saveState, page, submit, timedOut,
                   open, server, accepted, handed>>

-----------------------------------------------------------------------------
(* The network and the server.                                             *)

\* A write that arrives after a newer one of its question replaces it: the
\* page sends no expectedVersion.
Overtaken(m) == IF m.edit < server[m.question] THEN {m.question} ELSE {}

ServerSaves(m) ==
    /\ open
    /\ m.at = "sent"
    /\ server' = [server EXCEPT ![m.question] = m.edit]
    /\ accepted' = accepted \cup {<<m.question, m.edit>>}
    /\ lost' = lost \cup Overtaken(m)
    /\ flight' = (flight \ {m}) \cup
                 (IF m.via = "orphan" THEN {}
                  ELSE {[m EXCEPT !.at = "applied"]})
    /\ UNCHANGED <<edits, chosen, timer, queue, flush, saveState, page,
                   submit, timedOut, open, handed>>

\* An orphan is lost, or refused.
Vanish(m) ==
    /\ m.via = "orphan"
    /\ flight' = flight \ {m}
    /\ UNCHANGED <<edits, chosen, timer, queue, flush, saveState, page,
                   submit, timedOut, open, server, accepted, handed, lost>>

\* The sweep, a proctor or another tab ends the attempt.
ServerCloses ==
    /\ open
    /\ open' = FALSE
    /\ UNCHANGED <<edits, chosen, timer, flight, queue, flush, saveState,
                   page, submit, timedOut, server, accepted, handed, lost>>

-----------------------------------------------------------------------------
(* The promise of a save is settled.                                       *)

SaveSucceeds(m) ==
    /\ m.via = "save" /\ m.at = "applied"
    /\ flight' = flight \ {m}
    /\ saveState' = "saved"
    /\ UNCHANGED <<edits, chosen, timer, queue, flush, page, submit, timedOut,
                   open, server, accepted, handed, lost>>

\* A request fails for its page because the attempt is closed, because the
\* answer is lost, or on the way: then it may reach the server later.
GiveUp(m) ==
    flight' = (flight \ {m}) \cup
              (IF m.at = "sent" /\ open THEN {Orphan(m)} ELSE {})

\* enqueue replaces the question's entry, also by an older answer.
Requeued(m) == IF m.edit < queue[m.question] THEN {m.question} ELSE {}

\* Mutants: the failed answer is not queued; the page goes on "saving".
MutSaveFails(m) ==
    /\ m.via = "save"
    /\ GiveUp(m)
    /\ saveState' = "failed"
    /\ UNCHANGED <<edits, chosen, timer, queue, flush, page, submit, timedOut,
                   open, server, accepted, handed, lost>>
MutSaveFailsSilently(m) ==
    /\ m.via = "save"
    /\ GiveUp(m)
    /\ queue' = [queue EXCEPT ![m.question] = m.edit]
    /\ lost' = lost \cup Requeued(m)
    /\ UNCHANGED <<edits, chosen, timer, flush, saveState, page, submit,
                   timedOut, open, server, accepted, handed>>

SaveFails(m) ==
    /\ m.via = "save"
    /\ GiveUp(m)
    /\ queue' = [queue EXCEPT ![m.question] = m.edit]
    /\ saveState' = "failed"
    /\ lost' = lost \cup Requeued(m)
    /\ UNCHANGED <<edits, chosen, timer, flush, page, submit, timedOut, open,
                   server, accepted, handed>>

\* clearAnswer has no catch: a clear that fails is not queued.
ClearSettles(m) ==
    /\ m.via = "clear"
    /\ \/ m.at = "applied" /\ flight' = flight \ {m} /\ UNCHANGED lost
       \/ GiveUp(m) /\ lost' = lost \cup {m.question}
    /\ UNCHANGED <<edits, chosen, timer, queue, flush, saveState, page,
                   submit, timedOut, open, server, accepted, handed>>

-----------------------------------------------------------------------------
(* flushQueue, by the online event and by the final submit.                *)

Queued == {q \in Questions : queue[q] # 0}

StartFlush(f, q, then) ==
    /\ flush[f] = Idle
    /\ q \in Queued
    /\ flush' = [flush EXCEPT ![f] = [op |-> "flush", items |-> queue,
                                      todo |-> Queued, then |-> then]]
    /\ flight' = flight \cup {Request(q, queue[q], f)}
    /\ UNCHANGED <<edits, chosen, timer, queue, saveState, page, submit,
                   timedOut, open, server, accepted, handed, lost>>

Online(f, q) == StartFlush(f, q, "nothing")

\* Mutant: the submit does not wait for the flush.
MutFinalSubmit(f, q) ==
    /\ page = "exam"
    /\ flush[f] = Idle
    /\ q \in Queued
    /\ flush' = [flush EXCEPT ![f] = [op |-> "flush", items |-> queue,
                                      todo |-> Queued, then |-> "nothing"]]
    /\ flight' = flight \cup {Request(q, queue[q], f)}
    /\ submit' = "posted"
    /\ handed' = queue
    /\ UNCHANGED <<edits, chosen, timer, queue, saveState, page, timedOut,
                   open, server, accepted, lost>>

FinalSubmit(f, q) == page = "exam" /\ StartFlush(f, q, "submit")

\* Nothing is queued, so the submit request is sent at once.
FinalSubmitEmpty ==
    /\ page = "exam"
    /\ Queued = {}
    /\ submit' = "posted"
    /\ UNCHANGED <<edits, chosen, timer, flight, queue, flush, saveState,
                   page, timedOut, open, server, accepted, handed, lost>>

\* An answer was delivered and the flush goes on to the next one.
FlushNext(f, m, q) ==
    /\ flush[f] # Idle
    /\ m.via = f /\ m.at = "applied"
    /\ q \in flush[f].todo \ {m.question}
    /\ flush' = [flush EXCEPT ![f].todo = @ \ {m.question}]
    /\ flight' = (flight \ {m}) \cup {Request(q, flush[f].items[q], f)}
    /\ UNCHANGED <<edits, chosen, timer, queue, saveState, page, submit,
                   timedOut, open, server, accepted, handed, lost>>

\* removeItem removes the whole queue, with what came in during the flush.
Dropped(f) == {q \in Queued : queue[q] # flush[f].items[q]}

PostIf(then, items) ==
    IF then = "submit" THEN submit' = "posted" /\ handed' = items
                       ELSE UNCHANGED <<submit, handed>>

\* The last answer was delivered.
FlushEnds(f, m) ==
    /\ flush[f] # Idle
    /\ m.via = f /\ m.at = "applied"
    /\ flush[f].todo = {m.question}
    /\ flush' = [flush EXCEPT ![f] = Idle]
    /\ flight' = flight \ {m}
    /\ queue' = Blank
    /\ lost' = lost \cup Dropped(f)
    /\ PostIf(flush[f].then, flush[f].items)
    /\ UNCHANGED <<edits, chosen, timer, saveState, page, timedOut, open,
                   server, accepted>>

\* The exception ends the flush, and the submit with it; the queue stays.
FlushFails(f, m) ==
    /\ flush[f] # Idle
    /\ m.via = f
    /\ flush' = [flush EXCEPT ![f] = Idle]
    /\ GiveUp(m)
    /\ UNCHANGED <<edits, chosen, timer, queue, saveState, page, submit,
                   timedOut, open, server, accepted, handed, lost>>

-----------------------------------------------------------------------------
(* The submit request and the page.                                        *)

\* remaining = 0: once, and without a flush.
TimeUp ==
    /\ page = "exam" /\ ~timedOut
    /\ timedOut' = TRUE
    /\ submit' = "posted"
    /\ UNCHANGED <<edits, chosen, timer, flight, queue, flush, saveState,
                   page, open, server, accepted, handed, lost>>

SubmitSucceeds ==
    /\ submit = "posted"
    /\ submit' = "none"
    /\ handed' = Blank
    /\ open' = FALSE
    /\ page' = "left"
    /\ UNCHANGED <<edits, chosen, timer, flight, queue, flush, saveState,
                   timedOut, server, accepted, lost>>

\* The request is lost, or its answer is.
SubmitFails ==
    /\ submit = "posted"
    /\ submit' = "none"
    /\ handed' = Blank
    /\ open' \in {open, FALSE}
    /\ UNCHANGED <<edits, chosen, timer, flight, queue, flush, saveState,
                   page, timedOut, server, accepted, lost>>

\* The 15-second poll finds the attempt submitted.
Poll ==
    /\ page = "exam" /\ ~open
    /\ page' = "left"
    /\ UNCHANGED <<edits, chosen, timer, flight, queue, flush, saveState,
                   submit, timedOut, open, server, accepted, handed, lost>>

Waiting == {m.question : m \in {r \in flight : r.via \in {"save", "clear"}}}

\* The page is loaded again: localStorage is all that is left of it.
Reload ==
    /\ page = "exam"
    /\ lost' = lost \cup Waiting
                    \cup (IF timer = NoTimer THEN {} ELSE {timer.question})
    /\ timer' = NoTimer
    /\ flight' = {Orphan(m) : m \in {r \in flight : r.at = "sent" /\ open}}
    /\ flush' = [f \in Flushers |-> Idle]
    /\ saveState' = "idle"
    /\ submit' = "none"
    /\ handed' = Blank
    /\ timedOut' = FALSE
    /\ open' \in IF submit = "posted" THEN {open, FALSE} ELSE {open}
    /\ UNCHANGED <<edits, chosen, queue, page, server, accepted>>

SettleSave == \E m \in flight : SaveSucceeds(m) \/ SaveFails(m)

Next ==
    \/ \E q \in Questions : ScheduleSave(q) \/ ClearAnswer(q)
    \/ SendSave
    \/ SettleSave
    \/ \E m \in flight :
          ServerSaves(m) \/ Vanish(m) \/ ClearSettles(m)
    \/ \E f \in Flushers :
          \/ \E q \in Questions : Online(f, q) \/ FinalSubmit(f, q)
          \/ \E m \in flight :
                \/ FlushEnds(f, m) \/ FlushFails(f, m)
                \/ \E q \in Questions : FlushNext(f, m, q)
    \/ ServerCloses
    \/ FinalSubmitEmpty
    \/ TimeUp
    \/ SubmitSucceeds
    \/ SubmitFails
    \/ Poll
    \/ Reload

Spec == Init /\ [][Next]_vars

(* The browser runs the timer's callback, and settles the promise of every *)
(* fetch: with an answer, or with an error when the connection fails.      *)
FairSpec == Spec /\ WF_vars(SendSave) /\ WF_vars(SettleSave)

-----------------------------------------------------------------------------
(* Properties.                                                             *)

\* The newest edit of q is still on its way.
OnItsWay(q) ==
    \/ timer = [question |-> q, edit |-> chosen[q]]
    \/ \E m \in flight : /\ m.question = q /\ m.edit = chosen[q]
                         /\ m.via \in {"save", "clear"}
    \/ queue[q] = chosen[q]

\* No answer disappears in a way that is not listed: the newest edit of a
\* question is saved, or on its way, or kept in the retry queue, unless the
\* shared timer was restarted for another question, a clear failed, the page
\* was reloaded under a save, an older write arrived later, or the queue
\* entry was replaced or removed by a flush that did not send it.
AnswersAccounted ==
    \A q \in Questions :
        server[q] = chosen[q] \/ OnItsWay(q) \/ q \in lost

\* Final Submit sends the submit request only after the server has saved
\* every answer that was in the retry queue when the button was pressed,
\* however the requests were delayed and whatever another flush did.
SubmitDelivers ==
    submit = "posted" =>
        \A q \in Questions :
            handed[q] # 0 => <<q, handed[q]>> \in accepted

\* The page does not go on "saving" for ever.
SaveResolves == saveState = "saving" ~> saveState # "saving"

=============================================================================
