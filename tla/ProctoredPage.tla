--------------------------- MODULE ProctoredPage ----------------------------
(***************************************************************************)
(* The proctoring side of the exam page: the policy it loads, the camera and *)
(* session start, the listeners that post events, the warnings and verdicts  *)
(* it makes of the answers, and leaving.  Posts run side by side: the server *)
(* takes them in any order, their answers come in any order or not at all,   *)
(* and a reload gives up what was under way.                                 *)
(*                                                                           *)
(* An event is an "alert" when eventSeverity is not info, else a "note";     *)
(* whether it counts, and heavily, is up to the weights of the policy and    *)
(* left open; none that the page posts is critical to the server.  The       *)
(* server is as much of ProctoringService as the page sees; what happens     *)
(* between its statements is in ProctoringSession.  Texts, the alarm, the    *)
(* picture and the display of camera and fullscreen states are left out.     *)
(***************************************************************************)
EXTENDS Integers

CONSTANTS Policies,   \* policies of an assessment the page may be opened for
          MaxPosts,   \* bound: posts of events
          Begins,     \* bound: presses of "Start Camera Check", numbered
          MaxMishaps  \* bound: reloads, and presses while a start is under way

\* ProctoringPolicy as far as the page reads it
PolicyRow == [enabled : BOOLEAN, fullscreen : BOOLEAN, preferred : BOOLEAN, camera : BOOLEAN,
              other : BOOLEAN, block : BOOLEAN, critical : BOOLEAN, allowed : Nat]

ASSUME PageBounds ==
    /\ Policies \subseteq PolicyRow
    /\ MaxPosts \in Nat /\ MaxMishaps \in Nat

VARIABLES
    policy,    \* the assessment's policy, as the server resolves it
    known,     \* proctoringPolicy: "none", "resolved" or "fallback"
    ready,     \* proctoringReady
    begin,     \* runs of beginProctoredAttempt
    camera,    \* streamRef holds a running stream
    shown,     \* violationCount, remainingChances
    warning,   \* warningState; guessed: made without an answer or the policy
    verdict,   \* serverAutoSubmitted
    redirect,  \* the timer of 1200 ms that leaves
    where,     \* "exam", or "left" for another page
    posts,     \* the posts of events
    srv,       \* attempt and session of the server
    mishaps,   \* counts what MaxMishaps bounds
    late       \* history: the camera was granted to a page that was left

pageState == <<known, ready, camera, shown, warning, verdict, redirect, where>>
proctoredVars == <<policy, pageState, begin, posts, srv, mishaps, late>>

NoWarning == [on |-> FALSE, final |-> FALSE, guessed |-> FALSE]
NoPost == [at |-> "free", kind |-> "note", knew |-> "none", base |-> 0, count |-> 0,
           counted |-> FALSE, auto |-> FALSE, live |-> FALSE]
DonePost == [NoPost EXCEPT !.at = "done"]
NoBegin == [at |-> "idle", live |-> FALSE]
Posts == 1..MaxPosts
Most(a, b) == IF a > b THEN a ELSE b

PageTypeOK ==
    /\ policy \in Policies /\ known \in {"none", "resolved", "fallback"}
    /\ {ready, camera, verdict, redirect, late} \subseteq BOOLEAN
    /\ begin \in [Begins -> [at : {"idle", "camera", "check", "start",
                      "started", "refused"}, live : BOOLEAN]]
    /\ shown \in [count : Nat, chances : Nat]
    /\ warning \in [on : BOOLEAN, final : BOOLEAN, guessed : BOOLEAN]
    /\ where \in {"exam", "left"} /\ mishaps \in 0..MaxMishaps
    /\ posts \in [Posts -> [at : {"free", "sent", "recorded", "answered", "lost", "done"},
           kind : {"note", "alert"}, knew : {"none", "resolved", "fallback"}, base : Nat,
           count : Nat, counted : BOOLEAN, auto : BOOLEAN, live : BOOLEAN]]
    /\ srv \in [state : {"open", "auto", "submitted"}, count : Nat,
           session : {"none", "ready", "active"}, started : BOOLEAN, blocked : BOOLEAN]

-----------------------------------------------------------------------------
(* resolveRuntimePolicy and strictModeRequired. *)

\* a request for the policy that fails leaves the assessment's preference only
Fetched(x) == known = "resolved" /\ x
FullscreenRequired == Fetched(policy.fullscreen) \/ policy.preferred
CameraRequired == Fetched(policy.camera /\ policy.enabled)
AllowedExits(k) == IF k = "resolved" THEN policy.allowed ELSE 2
StrictMode == known # "none" /\ (Fetched(policy.enabled) \/ FullscreenRequired \/ CameraRequired)

\* the questions are shown, and take answers
Visible == where = "exam" /\ (~StrictMode \/ ready)

-----------------------------------------------------------------------------
(* Posting an event: recordProctoringEvent up to its await. *)

FreePosts == {i \in Posts : posts[i].at = "free"}

Sent(kind, base) ==
    [at |-> "sent", kind |-> kind, knew |-> known, base |-> base, count |-> 0,
     counted |-> FALSE, auto |-> FALSE, live |-> where = "exam"]

\* a listener holds the policy of its render, and perhaps an older count than shown
Post(kind) ==
    /\ FreePosts # {}
    /\ \E base \in 0..shown.count : posts' =
         [posts EXCEPT ![CHOOSE i \in FreePosts : \A j \in FreePosts : i <= j] = Sent(kind, base)]

\* fullscreen that was not there is entered, and the listener says so
MayPost(x) == UNCHANGED posts \/ (x /\ Post("note"))

\* listeners for copy, focus, shortcuts and fullscreen are there under strict
\* mode; those for visibility, navigation and the network always are
Signal(kind) ==
    /\ where = "exam" /\ Post(kind)
    /\ UNCHANGED <<policy, pageState, begin, srv, mishaps, late>>

\* the track ends, or was muted: ten seconds later the report is sent in any
\* case, because the callback compares the camera state of its own render
CameraReport(ended) ==
    /\ camera /\ Post("alert") /\ camera' = ~ended
    /\ UNCHANGED <<policy, known, ready, shown, warning, verdict, redirect,
                   where, begin, srv, mishaps, late>>

-----------------------------------------------------------------------------
(* The server. *)

\* applyPolicyAction: the attempt is submitted over the limit, or for a critical
\* event under that policy; a heavy event makes the session FLAGGED, which is
\* no status that start takes for a running session
AfterEvent(n, gravity) ==
    [state |-> IF n + srv.count > policy.allowed \/ (gravity = "critical" /\ policy.critical)
               THEN "auto" ELSE srv.state,
     count |-> srv.count + n, session |-> IF gravity = "light" THEN srv.session ELSE "none",
     started |-> srv.started, blocked |-> srv.blocked]

\* nobody waits for the outcome of a post of a page that is gone
Outcome(p, at) == IF p.live THEN [p EXCEPT !.at = at] ELSE DonePost

Lost(p) == Outcome([p EXCEPT !.counted = FALSE, !.count = 0, !.auto = FALSE], "lost")

\* events refuses a closed attempt; else the event is recorded ...
ServerRecords(i, n, gravity) ==
    /\ posts[i].at = "sent" /\ (n = 0 => gravity = "light")
    /\ IF srv.state # "open"
       THEN posts' = [posts EXCEPT ![i] = Lost(@)] /\ n = 0 /\ gravity = "light" /\ UNCHANGED srv
       ELSE /\ srv' = IF n = 0 THEN srv ELSE AfterEvent(n, gravity)
            /\ posts' = [posts EXCEPT ![i] = Outcome([@ EXCEPT !.counted = (n = 1)], "recorded")]
    /\ UNCHANGED <<policy, pageState, begin, mishaps, late>>

\* ... and the answer made from what session and attempt are by then
ServerAnswers(i) ==
    /\ posts[i].at = "recorded"
    /\ posts' = [posts EXCEPT ![i] = [@ EXCEPT !.at = "answered", !.count = srv.count,
           !.auto = (srv.state = "auto")]]
    /\ UNCHANGED <<policy, pageState, begin, srv, mishaps, late>>

PostLost(i) ==
    /\ posts[i].at \in {"sent", "recorded", "answered"}
    /\ posts' = [posts EXCEPT ![i] = Lost(@)]
    /\ UNCHANGED <<policy, pageState, begin, srv, mishaps, late>>

\* the student submits, the sweep or an operator closes the attempt
AttemptCloses(state) ==
    /\ srv.state = "open" /\ srv' = [srv EXCEPT !.state = state]
    /\ UNCHANGED <<policy, pageState, begin, posts, mishaps, late>>

\* systemCheck writes READY over any status, and CHECK_PENDING when a
\* microphone or a screen share is required, which the page does not report
AfterCheck == [srv EXCEPT !.session = IF policy.other THEN "none" ELSE "ready"]

\* start finds a session READY, ACTIVE or DISCONNECTED and blocks it
StartBlocked == policy.block /\ srv.session # "none"

-----------------------------------------------------------------------------
(* The answers: recordProctoringEvent after its await. *)

SubmittedBy(p) == p.auto

\* Mutant: the warning is final one violation early.
MutFinalAt(p, count) == count + 1 >= AllowedExits(p.knew)

\* setViolationWarning
FinalAt(p, count) == count >= AllowedExits(p.knew)

\* remainingChances of the answer
Chances(count) == Most(policy.allowed - count, 0)

\* what is shown when no answer came
ShownAfter(p) == shown

\* an answer that comes after another may show an older count
AnswerArrives(i) ==
    LET p == posts[i] IN
    /\ p.at = "answered" /\ p.live /\ where = "exam"
    /\ posts' = [posts EXCEPT ![i] = DonePost]
    /\ shown' = [count |-> p.count, chances |-> Chances(p.count)]
    /\ IF SubmittedBy(p)
       THEN /\ verdict' = TRUE /\ camera' = FALSE /\ redirect' = TRUE
            /\ warning' = [on |-> TRUE, final |-> TRUE, guessed |-> FALSE]
       ELSE /\ warning' = IF p.kind = "alert" /\ p.counted
                   THEN [on |-> TRUE, final |-> FinalAt(p, p.count),
                                  guessed |-> p.knew # "resolved"] ELSE warning
            /\ UNCHANGED <<verdict, camera, redirect>>
    /\ UNCHANGED <<policy, known, ready, where, begin, srv, mishaps, late>>

\* without an answer an alert is taken to count
NoAnswer(i) ==
    LET p == posts[i] IN
    /\ p.at = "lost" /\ p.live /\ where = "exam"
    /\ posts' = [posts EXCEPT ![i] = DonePost]
    /\ shown' = ShownAfter(p)
    /\ warning' = IF p.kind = "alert"
           THEN [on |-> TRUE, final |-> FinalAt(p, p.base + 1), guessed |-> TRUE] ELSE warning
    /\ UNCHANGED <<policy, known, ready, camera, verdict, redirect, where,
                   begin, srv, mishaps, late>>

\* returnToFullscreen; the browser may refuse
ReturnToFullscreen ==
    /\ where = "exam" /\ warning.on /\ ~verdict
    /\ warning' = NoWarning /\ MayPost(StrictMode)
    /\ UNCHANGED <<policy, known, ready, camera, shown, verdict, redirect, where,
                   begin, srv, mishaps, late>>

-----------------------------------------------------------------------------
(* The policy, and beginProctoredAttempt. *)

\* the request for the policy succeeds or fails; without strict mode the page
\* is ready at once
PolicyLoads(how) ==
    /\ where = "exam" /\ known = "none" /\ known' = how /\ UNCHANGED policy
    /\ ready' = ~StrictMode'
    /\ shown' = [shown EXCEPT !.chances = AllowedExits(how)]
    /\ UNCHANGED <<camera, warning, verdict, redirect, where, begin,
                   posts, srv, mishaps, late>>

Mishap(n) == mishaps + n <= MaxMishaps /\ mishaps' = mishaps + n

BeginStep(b, from, to) == begin[b].at = from /\ begin' = [begin EXCEPT ![b].at = to]

\* the button is there until the page is ready, also while a start is under way
PressStart(b) ==
    /\ where = "exam" /\ StrictMode /\ ~ready /\ begin[b] = NoBegin
    /\ \A x \in Begins : x < b => begin[x] # NoBegin
    /\ Mishap(IF \E x \in Begins : begin[x].live /\ begin[x].at # "idle" THEN 1 ELSE 0)
    /\ begin' = [begin EXCEPT ![b] =
           [at |-> IF CameraRequired THEN "camera" ELSE "check", live |-> TRUE]]
    /\ UNCHANGED <<policy, pageState, posts, srv, late>>

\* getUserMedia: the student allows the camera, perhaps when the page is gone;
\* the event that is awaited next may take as long as the next step
CameraGranted(b) ==
    /\ begin[b].live /\ BeginStep(b, "camera", "check")
    /\ camera' = TRUE /\ late' = (late \/ where = "left") /\ Post("note")
    /\ UNCHANGED <<policy, known, ready, shown, warning, verdict, redirect,
                   where, srv, mishaps>>

\* the check takes no account of whether the attempt is open
SystemCheck(b) ==
    /\ BeginStep(b, "check", "start") /\ srv' = AfterCheck
    /\ UNCHANGED <<policy, pageState, posts, mishaps, late>>

\* start: refused for a closed attempt; a second session is a critical event
ServerStarts(b, n) ==
    /\ begin[b].at = "start"
    /\ IF srv.state # "open" THEN BeginStep(b, "start", "refused") /\ n = 0 /\ UNCHANGED srv
       ELSE IF StartBlocked
       THEN /\ BeginStep(b, "start", "refused")
            /\ srv' = [AfterEvent(n, "critical") EXCEPT !.blocked = @ \/ ~srv.started]
       ELSE /\ BeginStep(b, "start", "started") /\ n = 0
            /\ srv' = [srv EXCEPT !.session = IF policy.enabled THEN "active" ELSE "none",
                   !.started = TRUE]
    /\ UNCHANGED <<policy, pageState, posts, mishaps, late>>

\* ... the browser may refuse fullscreen, and the page is ready all the same
Started(b) ==
    /\ begin[b].live /\ BeginStep(b, "started", "idle") /\ ready' = (where = "exam")
    /\ MayPost(FullscreenRequired)
    /\ UNCHANGED <<policy, known, camera, shown, warning, verdict, redirect, where,
                   srv, mishaps, late>>

\* Mutant: the page is made ready before the outcome is known.
MutReadyAfterFailure == ready' = (where = "exam")

ReadyAfterFailure == UNCHANGED ready

\* whatever failed, a refusal of the camera is reported; a stream that was
\* granted goes on
BeginFails(b) ==
    /\ begin[b].live /\ begin[b].at \in {"camera", "check", "start", "started", "refused"}
    /\ begin' = [begin EXCEPT ![b].at = "idle"] /\ Post("alert") /\ ReadyAfterFailure
    /\ UNCHANGED <<policy, known, camera, shown, warning, verdict, redirect,
                   where, srv, mishaps, late>>

\* a heartbeat writes ACTIVE over any status of the session
PageHeartbeat ==
    /\ where = "exam" /\ ready /\ srv' = [srv EXCEPT !.session = "active"]
    /\ UNCHANGED <<policy, pageState, begin, posts, mishaps, late>>

-----------------------------------------------------------------------------
(* Leaving. *)

\* what the server has not taken yet it still takes
Abandoned == [i \in Posts |->
    CASE posts[i].at = "sent" -> [posts[i] EXCEPT !.live = FALSE]
      [] posts[i].at = "free" -> NoPost
      [] OTHER -> DonePost]

\* Mutant: the effect has no clean-up.
MutUnmounted == where' = "left" /\ UNCHANGED camera

\* the clean-up of the page stops the stream; a start under way goes on
Unmounted == where' = "left" /\ camera' = FALSE

FreshPage == /\ known' = "none" /\ ready' = FALSE /\ verdict' = FALSE /\ redirect' = FALSE
         /\ shown' = [count |-> 0, chances |-> 2] /\ warning' = NoWarning
         /\ posts' = Abandoned

Leave(cause) ==
    /\ where = "exam" /\ cause /\ Unmounted /\ FreshPage
    /\ UNCHANGED <<policy, begin, srv, mishaps, late>>

Redirect == Leave(redirect)

\* syncTime finds the attempt closed, or the submission is answered
PageLeaves == Leave(srv.state # "open")

\* pagehide reports an event; what was under way at the server goes on
ReloadPage ==
    /\ where = "exam" /\ Mishap(1) /\ FreshPage /\ camera' = FALSE
    /\ begin' = [b \in Begins |-> [begin[b] EXCEPT !.live = FALSE]]
    /\ UNCHANGED <<policy, where, srv, late>>

PageInit ==
    /\ policy \in Policies
    /\ known = "none" /\ ready = FALSE /\ camera = FALSE
    /\ shown = [count |-> 0, chances |-> 2] /\ warning = NoWarning
    /\ verdict = FALSE /\ redirect = FALSE /\ where = "exam"
    /\ begin = [b \in Begins |-> NoBegin] /\ posts = [i \in Posts |-> NoPost]
    /\ srv = [state |-> "open", count |-> 0, session |-> "none",
              started |-> FALSE, blocked |-> FALSE]
    /\ mishaps = 0 /\ late = FALSE

PageNext ==
    \/ \E how \in {"resolved", "fallback"} : PolicyLoads(how)
    \/ \E kind \in {"note", "alert"} : Signal(kind)
    \/ ReturnToFullscreen
    \/ \E ended \in BOOLEAN : CameraReport(ended)
    \/ \E i \in Posts : \/ \E n \in {0, 1}, g \in {"light", "heavy"} : ServerRecords(i, n, g)
                        \/ ServerAnswers(i) \/ PostLost(i) \/ AnswerArrives(i) \/ NoAnswer(i)
    \/ \E b \in Begins : \/ PressStart(b) \/ CameraGranted(b) \/ SystemCheck(b)
                         \/ \E n \in {0, 1} : ServerStarts(b, n)
                         \/ Started(b) \/ BeginFails(b)
    \/ \E state \in {"auto", "submitted"} : AttemptCloses(state)
    \/ PageHeartbeat \/ Redirect \/ PageLeaves \/ ReloadPage

PageSpec == PageInit /\ [][PageNext]_proctoredVars

-----------------------------------------------------------------------------
(* Properties. *)

\* Under a strict policy the questions are shown only when the server has
\* started a session for this attempt, whatever failed, was pressed twice or
\* was reloaded.  (Before the policy is there, and when its request failed and
\* fullscreen is not preferred, the questions are shown without one.)
StrictNeedsStart == Visible /\ StrictMode => srv.started

\* The page tells the student of an automatic submission only when the server
\* has closed the attempt so.
VerdictIsServers == verdict => srv.state = "auto"

\* "The next violation will automatically submit" is true whenever it stands
\* on an answer of the server and on the fetched policy, although answers come
\* out of order: the limit is reached, or the attempt was closed already.
FinalWarningHonest ==
    warning.on /\ warning.final /\ ~warning.guessed =>
        srv.count >= policy.allowed \/ srv.state = "auto"

\* The count on the page was the server's at some time, so it never claims
\* more violations, whatever got lost.
ShownCountBacked == shown.count <= srv.count

\* What the page tells the student (an automatic submission, the last chance, the
\* number of violations) is backed by the server, whatever answers are late or lost.
PageHonest ==
    /\ PageTypeOK
    /\ VerdictIsServers
    /\ FinalWarningHonest
    /\ ShownCountBacked

\* A page that was left keeps no camera running, unless the student allowed
\* the camera after the page had gone.
CameraReleased == where = "left" /\ camera => late

\* What a strict exam asks of the page while it is shown and once it was left.
ExamGuarded == StrictNeedsStart /\ CameraReleased

\* start says "A proctoring session is already active for this attempt." only
\* when one has been started.
BlockedMeansActive == ~srv.blocked
=============================================================================
