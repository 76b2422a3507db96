------------------------- MODULE Proctoring_proofs --------------------------
(***************************************************************************)
(* Proofs about the two sides of proctoring: ProctoringSession, for any      *)
(* number of requests and events, and ProctoredPage, for any policies,       *)
(* posts, presses and reloads.                                               *)
(***************************************************************************)
EXTENDS ProctoringSession, ProctoredPage, FiniteSetTheorems, TLAPS

-----------------------------------------------------------------------------
(* The server. *)

\* Case split of a step by the actions of the module.
LEMMA Steps ==
  ASSUME Next
  PROVE  \/ Start \/ Heartbeat \/ EndSession \/ Clear \/ SubmitAttempt \/ Forget
         \/ \E s \in {"LIVE", "CLOSED"} : Prepare(s)
         \/ \E c \in Requests, k \in Keys, kind \in Kinds : ReceiveEvent(c, k, kind)
         \/ \E c \in Requests, k \in Keys : SecondSession(c, k)
         \/ \E c \in Requests, k \in Keys : Flag(c, k)
         \/ \E c \in Requests : FlagReview(c)
         \/ \E c \in Requests : InsertEvent(c)
         \/ \E c \in Requests : ReadSession(c)
         \/ \E c \in Requests : UpdateSession(c)
         \/ \E c \in Requests : EnsureReview(c)
         \/ \E c \in Requests : AutoSubmit(c)
         \/ \E c \in Requests : Die(c)
         \/ \E c \in Requests, d \in Decisions : DecideReview(c, d)
         \/ \E c \in Requests : DecideSession(c)
BY DEF Next

\* A request in service is a record of the shape that its stage calls for.
LEMMA Shapes ==
  ASSUME TypeOK, NEW c \in Requests
  PROVE  /\ req[c].stage \in {"flagged", "checked", "inserted"} => req[c] \in Bare
         /\ req[c].stage = "read" => req[c] \in Informed
         /\ req[c].stage = "updated" => req[c] \in Written
         /\ req[c].stage = "reviewed" => req[c] \in Filed
         /\ req[c].stage = "ruled" => req[c] \in Ruled
         /\ req[c].stage = "idle" => req[c] = Idle
         /\ req[c].stage \in Stages => /\ req[c].key \in Keys
                                       /\ req[c].kind \in Kinds
                                       /\ req[c].counts \in BOOLEAN
         /\ req[c].stage \in Stages \cup {"idle", "ruled"}
BY DEF TypeOK, Bare, Informed, Written, Filed, Ruled, Idle, Stages

LEMMA TypeInit == Init => TypeOK
<1> SUFFICES ASSUME Init PROVE TypeOK
  OBVIOUS
<1>1. req \in [Requests -> {Idle}]
  BY DEF Init
<1>2. reviewStatus \in ReviewStatus /\ review \in ReviewStatus \cup {"NONE"}
  BY DEF Init, ReviewStatus
<1>3. events \in [Keys -> {"none", "counted", "uncounted"}]
  BY DEF Init
<1> QED BY <1>1, <1>2, <1>3 DEF Init, TypeOK

LEMMA TypeNext == TypeOK /\ [Next]_vars => TypeOK'
<1> SUFFICES ASSUME TypeOK, [Next]_vars PROVE TypeOK'
  OBVIOUS
<1> USE DEF session, log
<1> DEFINE Req == {Idle} \cup Bare \cup Informed \cup Written \cup Filed \cup Ruled
<1>r. \A c \in Requests, r \in Req :
         [req EXCEPT ![c] = r] \in [Requests -> Req]
  BY DEF TypeOK
<1>i. Idle \in Req
  OBVIOUS
<1>s. "PENDING" \in ReviewStatus /\ "CLEARED" \in ReviewStatus
  BY DEF ReviewStatus, ActiveReview, Outcomes
<1>c. \A kind \in Kinds : ShouldCountViolation(kind) \in BOOLEAN
  BY DEF ShouldCountViolation
<1>0. CASE UNCHANGED vars
  BY <1>0 DEF vars, TypeOK
<1>1. CASE Start \/ Heartbeat \/ EndSession \/ \E s \in {"LIVE", "CLOSED"} : Prepare(s)
  BY <1>1, <1>s DEF Start, Heartbeat, EndSession, Prepare, UpsertSession, TypeOK
<1>2. CASE Clear
  BY <1>2, <1>s DEF Clear, TypeOK
<1>3. CASE SubmitAttempt \/ Forget
  BY <1>3 DEF SubmitAttempt, Forget, TypeOK
<1>4. CASE \E c \in Requests, k \in Keys, kind \in Kinds : ReceiveEvent(c, k, kind)
  <2> PICK c \in Requests, k \in Keys, kind \in Kinds : ReceiveEvent(c, k, kind)
    BY <1>4
  <2>1. Event("checked", k, kind, ShouldCountViolation(kind)) \in Req
    BY <1>c DEF Event, Bare
  <2> QED BY <2>1, <1>r, <1>s DEF ReceiveEvent, EnsureSession, UpsertSession, TypeOK
<1>5. CASE \E c \in Requests, k \in Keys : SecondSession(c, k)
  <2> PICK c \in Requests, k \in Keys : SecondSession(c, k)
    BY <1>5
  <2>1. Event("checked", k, "critical", ShouldCountViolation("critical")) \in Req
    BY <1>c DEF Event, Bare, Kinds
  <2> QED BY <2>1, <1>r DEF SecondSession, TypeOK
<1>6. CASE \E c \in Requests, k \in Keys : Flag(c, k)
  <2> PICK c \in Requests, k \in Keys : Flag(c, k)
    BY <1>6
  <2>1. Event("flagged", k, "manual", FALSE) \in Req
    BY DEF Event, Bare, Kinds
  <2>2. req' \in [Requests -> Req]
    BY <2>1, <1>r DEF Flag
  <2>3. flagCount' \in Nat
    BY DEF Flag, TypeOK
  <2> QED BY <2>2, <2>3, <1>s DEF Flag, TypeOK
<1>7. CASE \E c \in Requests : FlagReview(c)
  <2> PICK c \in Requests : FlagReview(c)
    BY <1>7
  <2>1. Event("checked", req[c].key, "manual", ShouldCountViolation("manual")) \in Req
    BY <1>c, Shapes DEF Event, Bare, Kinds, FlagReview, Stages
  <2> QED BY <2>1, <1>r, <1>s DEF FlagReview, TypeOK
<1>8. CASE \E c \in Requests : InsertEvent(c)
  <2> PICK c \in Requests : InsertEvent(c)
    BY <1>8
  <2>1. req[c] \in Bare
    BY Shapes DEF InsertEvent
  <2>2. Event("inserted", req[c].key, req[c].kind, req[c].counts) \in Req
    BY <2>1 DEF Bare, Event
  <2>3. req' \in [Requests -> Req]
    BY <2>2, <1>i, <1>r DEF InsertEvent
  <2>4. /\ events' \in [Keys -> {"none", "counted", "uncounted"}]
        /\ criticals' \subseteq Keys
        /\ recentExit' \in BOOLEAN /\ recentRecovery' \in BOOLEAN
    BY <2>1, ZenonT(120) DEF InsertEvent, TypeOK, Bare
  <2> QED BY <2>3, <2>4 DEF InsertEvent, TypeOK
<1>9. CASE \E c \in Requests : ReadSession(c)
  <2> PICK c \in Requests : ReadSession(c)
    BY <1>9
  <2>1. req[c] \in Bare
    BY Shapes DEF ReadSession
  <2>2. req'[c] \in Informed
    BY <2>1 DEF ReadSession, Informed, Bare, TypeOK, Flags
  <2> QED BY <2>2, <1>r DEF ReadSession, TypeOK
<1>10. CASE \E c \in Requests : UpdateSession(c)
  <2> PICK c \in Requests : UpdateSession(c)
    BY <1>10
  <2>1. req[c] \in Informed
    BY Shapes DEF UpdateSession
  <2>2. req'[c] \in Written
    BY <2>1 DEF UpdateSession, Informed, Written, TypeOK
  <2>3. req' \in [Requests -> Req]
    BY <2>2, <1>r DEF UpdateSession, TypeOK
  <2>4. status' \in {"NONE", "LIVE", "FLAGGED", "CLOSED"} /\ reviewStatus' \in ReviewStatus
    BY <2>1, <1>s DEF UpdateSession, Informed
  <2>5. warningCount' \in Nat /\ flagCount' \in Nat
    BY DEF UpdateSession, TypeOK
  <2> QED BY <2>3, <2>4, <2>5 DEF UpdateSession, TypeOK
<1>11. CASE \E c \in Requests : EnsureReview(c)
  <2> PICK c \in Requests : EnsureReview(c)
    BY <1>11
  <2>1. req[c] \in Written
    BY Shapes DEF EnsureReview
  <2>2. req'[c] \in Filed
    BY <2>1 DEF EnsureReview, Written, Filed, TypeOK
  <2> QED BY <2>2, <1>r, <1>s DEF EnsureReview, TypeOK
<1>12. CASE \E c \in Requests : AutoSubmit(c)
  BY <1>12, <1>i, <1>r DEF AutoSubmit, TypeOK
<1>13. CASE \E c \in Requests : Die(c)
  <2> PICK c \in Requests : Die(c)
    BY <1>13
  <2>1. died' \subseteq Keys \X Stages
    BY Shapes DEF Die, TypeOK, Idle
  <2> QED BY <2>1, <1>i, <1>r DEF Die, TypeOK
<1>14. CASE \E c \in Requests, d \in Decisions : DecideReview(c, d)
  <2> PICK c \in Requests, d \in Decisions : DecideReview(c, d)
    BY <1>14
  <2>1. d \in ReviewStatus
    BY PolicyAssumption
  <2>2. [stage |-> "ruled", decision |-> d] \in Req
    BY <2>1 DEF Ruled
  <2> QED BY <2>1, <2>2, <1>r DEF DecideReview, TypeOK
<1>15. CASE \E c \in Requests : DecideSession(c)
  <2> PICK c \in Requests : DecideSession(c)
    BY <1>15
  <2>1. req[c].decision \in ReviewStatus
    BY Shapes DEF DecideSession, Ruled
  <2> QED BY <2>1, <1>i, <1>r DEF DecideSession, TypeOK
<1> QED BY Steps, <1>0, <1>1, <1>2, <1>3, <1>4, <1>5, <1>6, <1>7, <1>8, <1>9,
           <1>10, <1>11, <1>12, <1>13, <1>14, <1>15

(* Every variable has its type, for every policy and any number of         *)
(* requests and events.                                                    *)
THEOREM TypeCorrect == Spec => []TypeOK
BY TypeInit, TypeNext, PTL DEF Spec

-----------------------------------------------------------------------------
(***************************************************************************)
(* Ownership: a stored event belongs to the one request that stored it,    *)
(* until that request ends or dies.                                        *)
(***************************************************************************)
Early == {"inserted", "read"}
Late == {"updated", "reviewed"}

Owned ==
  /\ \A c \in Requests : req[c].stage \in Working =>
       /\ events[req[c].key] = IF req[c].counts THEN "counted" ELSE "uncounted"
       /\ req[c].key \in criticals <=> req[c].kind = "critical"
       /\ \A s \in Working : <<req[c].key, s>> \notin died
  /\ \A c, d \in Requests :
       req[c].stage \in Working /\ req[d].stage \in Working
         /\ req[c].key = req[d].key => c = d
  /\ \A k \in Keys, s \in Working : <<k, s>> \in died => events[k] # "none"
  /\ \A k \in criticals : events[k] # "none"

\* What most steps do to the events and the requests that own them: nothing,
\* except that a request may pass from one stage to the next.
Kept ==
  /\ events' = events /\ criticals' = criticals /\ died' = died
  /\ warningCount' = warningCount
  /\ \A d \in Requests :
       /\ req'[d].stage \in Working =>
            /\ req[d].stage \in Working
            /\ req'[d].key = req[d].key /\ req'[d].kind = req[d].kind
            /\ req'[d].counts = req[d].counts
       /\ req'[d].stage \in Early <=> req[d].stage \in Early
       /\ req'[d].stage \in Late <=> req[d].stage \in Late
       /\ req'[d].stage \in Late => req'[d].over = req[d].over

LEMMA KeptByMost ==
  ASSUME TypeOK, [Next]_vars,
         ~ \E c \in Requests :
             InsertEvent(c) \/ UpdateSession(c) \/ AutoSubmit(c) \/ Die(c)
  PROVE  Kept
<1> USE DEF Kept, Working, Early, Late, session, log
<1>0. CASE UNCHANGED vars
  BY <1>0 DEF vars
<1>1. CASE Start \/ Heartbeat \/ EndSession \/ \E s \in {"LIVE", "CLOSED"} : Prepare(s)
  BY <1>1 DEF Start, Heartbeat, EndSession, Prepare, UpsertSession
<1>2. CASE Clear \/ SubmitAttempt \/ Forget
  BY <1>2 DEF Clear, SubmitAttempt, Forget
<1>3. CASE \E c \in Requests, k \in Keys, kind \in Kinds : ReceiveEvent(c, k, kind)
  BY <1>3 DEF ReceiveEvent, EnsureSession, UpsertSession, Event, Idle, TypeOK
<1>4. CASE \E c \in Requests, k \in Keys : SecondSession(c, k)
  BY <1>4 DEF SecondSession, Event, Idle, TypeOK
<1>5. CASE \E c \in Requests, k \in Keys : Flag(c, k)
  BY <1>5 DEF Flag, Event, Idle, TypeOK
<1>6. CASE \E c \in Requests : FlagReview(c)
  BY <1>6 DEF FlagReview, Event, TypeOK
<1>7. CASE \E c \in Requests : ReadSession(c)
  BY <1>7 DEF ReadSession, TypeOK
<1>8. CASE \E c \in Requests : EnsureReview(c)
  BY <1>8 DEF EnsureReview, TypeOK
<1>9. CASE \E c \in Requests, d \in Decisions : DecideReview(c, d)
  BY <1>9 DEF DecideReview, Idle, TypeOK
<1>10. CASE \E c \in Requests : DecideSession(c)
  BY <1>10 DEF DecideSession, Idle, TypeOK
<1> QED BY Steps, <1>0, <1>1, <1>2, <1>3, <1>4, <1>5, <1>6, <1>7, <1>8, <1>9, <1>10

LEMMA OwnedInit == Init => Owned
BY DEF Init, Owned, Idle, Working

LEMMA OwnedNext == TypeOK /\ Owned /\ [Next]_vars => Owned'
<1> SUFFICES ASSUME TypeOK, Owned, [Next]_vars PROVE Owned'
  OBVIOUS
<1> USE DEF session, log
<1>1. CASE Kept
  BY <1>1 DEF Kept, Owned
<1>2. CASE \E c \in Requests : InsertEvent(c)
  <2> PICK c \in Requests : InsertEvent(c)
    BY <1>2
  <2>0. req[c].key \in Keys /\ req[c].counts \in BOOLEAN
    BY Shapes DEF InsertEvent, Stages
  <2>1. CASE events[req[c].key] # "none"
    <3>1. /\ events' = events /\ criticals' = criticals /\ died' = died
          /\ req' = [req EXCEPT ![c] = Idle]
      BY <2>1 DEF InsertEvent
    <3>2. \A d \in Requests : req'[d].stage \in Working => req'[d] = req[d]
      BY <3>1 DEF TypeOK, Idle, Working
    <3> QED BY <3>1, <3>2 DEF Owned
  <2>2. CASE events[req[c].key] = "none"
    <3>1. \A d \in Requests : req[d].stage \in Working => req[d].key # req[c].key
      BY <2>2, Shapes DEF Owned
    <3>2. \A s \in Working : <<req[c].key, s>> \notin died
      BY <2>0, <2>2 DEF Owned
    <3>3. req[c].key \notin criticals
      BY <2>2 DEF Owned
    <3>4. /\ events' = [events EXCEPT ![req[c].key] =
                          IF req[c].counts THEN "counted" ELSE "uncounted"]
          /\ criticals' = IF req[c].kind = "critical"
                          THEN criticals \cup {req[c].key} ELSE criticals
          /\ died' = died
          /\ \/ req' = [req EXCEPT ![c] = Idle]
             \/ req' = [req EXCEPT ![c] =
                          Event("inserted", req[c].key, req[c].kind, req[c].counts)]
      BY <2>2 DEF InsertEvent
    <3>5. \A d \in Requests : d # c => req'[d] = req[d]
      BY <3>4 DEF TypeOK
    <3>6. req'[c].stage \in Working =>
            /\ req'[c].key = req[c].key /\ req'[c].kind = req[c].kind
            /\ req'[c].counts = req[c].counts
      BY <3>4 DEF TypeOK, Event, Idle, Working
    <3>7. \A k \in Keys : k # req[c].key => events'[k] = events[k]
      BY <3>4 DEF TypeOK
    <3>8. events'[req[c].key] = IF req[c].counts THEN "counted" ELSE "uncounted"
      BY <3>4, <2>0 DEF TypeOK
    <3>9. \A d \in Requests : req'[d].stage \in Working =>
             /\ events'[req'[d].key] = IF req'[d].counts THEN "counted" ELSE "uncounted"
             /\ req'[d].key \in criticals' <=> req'[d].kind = "critical"
             /\ \A s \in Working : <<req'[d].key, s>> \notin died'
      <4> TAKE d \in Requests
      <4> HAVE req'[d].stage \in Working
      <4>1. CASE d = c
        BY <4>1, <3>2, <3>3, <3>4, <3>6, <3>8
      <4>2. CASE d # c
        <5>1. req[d].stage \in Working /\ req'[d] = req[d]
          BY <4>2, <3>5
        <5>2. req[d].key \in Keys /\ req[d].key # req[c].key
          BY <5>1, <3>1, Shapes DEF Working, Stages
        <5> QED BY <5>1, <5>2, <3>4, <3>7 DEF Owned
      <4> QED BY <4>1, <4>2
    <3>10. \A a, b \in Requests :
             req'[a].stage \in Working /\ req'[b].stage \in Working
               /\ req'[a].key = req'[b].key => a = b
      BY <3>1, <3>5, <3>6 DEF Owned
    <3>11. \A k \in Keys, s \in Working : <<k, s>> \in died' => events'[k] # "none"
      BY <3>2, <3>4, <3>7 DEF Owned
    <3>12. \A k \in criticals' : events'[k] # "none"
      BY <2>0, <3>4, <3>7, <3>8 DEF Owned, TypeOK
    <3> QED BY <3>9, <3>10, <3>11, <3>12 DEF Owned
  <2> QED BY <2>1, <2>2
<1>3. CASE \E c \in Requests : UpdateSession(c)
  BY <1>3, SMTT(30) DEF UpdateSession, Owned, TypeOK, Working
<1>4. CASE \E c \in Requests : AutoSubmit(c)
  BY <1>4, SMTT(30) DEF AutoSubmit, Owned, TypeOK, Idle, Working
<1>5. CASE \E c \in Requests : Die(c)
  <2> PICK c \in Requests : Die(c)
    BY <1>5
  <2>1. /\ events' = events /\ criticals' = criticals
        /\ req' = [req EXCEPT ![c] = Idle]
        /\ died' = died \/ died' = died \cup {<<req[c].key, req[c].stage>>}
    BY DEF Die
  <2>2. \A d \in Requests : req'[d].stage \in Working => d # c /\ req'[d] = req[d]
    BY <2>1 DEF TypeOK, Idle, Working
  <2>3. \A d \in Requests, s \in Working :
           req'[d].stage \in Working => <<req[d].key, s>> \notin died'
    BY <2>1, <2>2 DEF Owned
  <2>4. \A k \in Keys, s \in Working : <<k, s>> \in died' => events[k] # "none"
    <3> TAKE k \in Keys, s \in Working
    <3> HAVE <<k, s>> \in died'
    <3>1. CASE <<k, s>> \in died
      BY <3>1 DEF Owned
    <3>2. CASE k = req[c].key /\ s = req[c].stage
      BY <3>2 DEF Owned
    <3> QED BY <2>1, <3>1, <3>2
  <2> QED BY <2>1, <2>2, <2>3, <2>4 DEF Owned
<1> QED BY KeptByMost, <1>1, <1>2, <1>3, <1>4, <1>5

-----------------------------------------------------------------------------
(***************************************************************************)
(* Counting.  A counted request sits in at most one of the three sets      *)
(* InFlight(Early), Overdue and the dead, and each step moves one element. *)
(***************************************************************************)
LEMMA SetsFinite ==
  ASSUME TypeOK
  PROVE  /\ IsFiniteSet(InFlight(Early)) /\ IsFiniteSet(Overdue)
         /\ \A S : IsFiniteSet(Dead(S))
         /\ IsFiniteSet(Counted)
         /\ Cardinality(InFlight(Early)) \in Nat /\ Cardinality(Overdue) \in Nat
         /\ \A S : Cardinality(Dead(S)) \in Nat
         /\ Cardinality(Counted) \in Nat
<1>1. InFlight(Early) \subseteq Requests /\ Overdue \subseteq Requests
  BY DEF InFlight, Overdue
<1>2. /\ Counted \subseteq Keys
      /\ \A S : Dead(S) \subseteq Keys
  BY DEF Counted, Dead
<1> QED BY <1>1, <1>2, FiniteAssumption, FS_Subset, FS_CardinalityType

\* The sets that the steps of Kept leave alone.
LEMMA KeptSets ==
  ASSUME TypeOK, Kept
  PROVE  /\ InFlight(Early)' = InFlight(Early) /\ Overdue' = Overdue
         /\ \A S : Dead(S)' = Dead(S)
         /\ Counted' = Counted
BY DEF Kept, InFlight, Overdue, Dead, Counted, Early, Late, Working

\* A request that dies moves its counted event to the dead of its stage.
LEMMA DeadGrows ==
  ASSUME TypeOK, Owned, NEW c \in Requests, Die(c),
         NEW S, S \subseteq Working
  PROVE  /\ req[c].stage \in S /\ req[c].counts
              => /\ Dead(S)' = Dead(S) \cup {req[c].key}
                 /\ req[c].key \notin Dead(S)
         /\ ~(req[c].stage \in S /\ req[c].counts) => Dead(S)' = Dead(S)
<1>1. events' = events
  BY DEF Die, log
<1>2. req[c].stage \in S => /\ died' = died \cup {<<req[c].key, req[c].stage>>}
                            /\ req[c].key \in Keys
                            /\ req[c].counts \in BOOLEAN
  BY Shapes DEF Die, Working, Stages
<1>3. died' = died \/ died' = died \cup {<<req[c].key, req[c].stage>>}
  BY DEF Die
<1>4. CASE req[c].stage \in S /\ req[c].counts
  <2>1. events[req[c].key] = "counted"
    BY <1>4 DEF Owned
  <2>2. \A s \in S : <<req[c].key, s>> \notin died
    BY <1>4 DEF Owned
  <2> QED BY <1>1, <1>2, <1>4, <2>1, <2>2 DEF Dead
<1>5. CASE req[c].stage \notin S
  BY <1>1, <1>3, <1>5 DEF Dead
<1>6. CASE req[c].stage \in S /\ ~req[c].counts
  <2>1. events[req[c].key] = "uncounted"
    BY <1>6 DEF Owned
  <2> QED BY <1>1, <1>3, <1>6, <2>1 DEF Dead
<1> QED BY <1>2, <1>4, <1>5, <1>6

LEMMA CountInit == Init => EventsCountOnce
<1> SUFFICES ASSUME Init PROVE EventsCountOnce
  OBVIOUS
<1>1. /\ InFlight({"inserted", "read"}) = {}
      /\ Dead({"inserted", "read"}) = {} /\ Counted = {}
  BY DEF Init, InFlight, Dead, Counted, Idle
<1> QED BY <1>1, FS_EmptySet DEF Init, EventsCountOnce

LEMMA CountNext ==
  TypeOK /\ Owned /\ EventsCountOnce /\ [Next]_vars => EventsCountOnce'
<1> SUFFICES ASSUME TypeOK, Owned, EventsCountOnce, [Next]_vars
             PROVE  EventsCountOnce'
  OBVIOUS
<1> DEFINE F == InFlight(Early)
           D == Dead(Early)
<1>e. EventsCountOnce <=> warningCount + Cardinality(F) + Cardinality(D) = Cardinality(Counted)
  BY DEF EventsCountOnce, Early
<1>e2. EventsCountOnce' <=>
         warningCount' + Cardinality(F') + Cardinality(D') = Cardinality(Counted')
  BY DEF EventsCountOnce, Early
<1>f. /\ IsFiniteSet(F) /\ IsFiniteSet(D) /\ IsFiniteSet(Counted)
      /\ Cardinality(F) \in Nat /\ Cardinality(D) \in Nat
      /\ Cardinality(Counted) \in Nat /\ warningCount \in Nat
  BY SetsFinite DEF TypeOK
<1>1. CASE Kept
  <2>1. F' = F /\ D' = D /\ Counted' = Counted /\ warningCount' = warningCount
    BY <1>1, KeptSets DEF Kept
  <2> QED BY <2>1, <1>e, <1>e2
<1>2. CASE \E c \in Requests : InsertEvent(c)
  <2> PICK c \in Requests : InsertEvent(c)
    BY <1>2
  <2>0. /\ req[c].key \in Keys /\ req[c].counts \in BOOLEAN
        /\ warningCount' = warningCount /\ died' = died /\ c \notin F
    BY Shapes DEF InsertEvent, Stages, session, InFlight, Early
  <2>1. CASE events[req[c].key] # "none"
    <3>1. events' = events /\ req' = [req EXCEPT ![c] = Idle]
      BY <2>1 DEF InsertEvent, log
    <3>2. F' = F
      BY <3>1, <2>0 DEF InFlight, Early, Idle, TypeOK
    <3>3. D' = D /\ Counted' = Counted
      BY <3>1, <2>0 DEF Dead, Counted
    <3> QED BY <3>2, <3>3, <2>0, <1>e, <1>e2
  <2>2. CASE events[req[c].key] = "none"
    <3>1. events' = [events EXCEPT ![req[c].key] =
                       IF req[c].counts THEN "counted" ELSE "uncounted"]
      BY <2>2 DEF InsertEvent
    <3>2. req' = [req EXCEPT ![c] =
                    IF req[c].counts \/ req[c].kind = "critical"
                    THEN Event("inserted", req[c].key, req[c].kind, req[c].counts)
                    ELSE Idle]
      BY <2>2 DEF InsertEvent
    <3>3. \A s \in Early : <<req[c].key, s>> \notin died
      BY <2>0, <2>2 DEF Owned, Early, Working
    <3>4. D' = D
      BY <3>1, <3>3, <2>0, <2>2 DEF Dead, TypeOK
    <3>5. CASE req[c].counts
      <4>1. F' = F \cup {c}
        BY <3>2, <3>5 DEF InFlight, Early, Event, TypeOK
      <4>2. Counted' = Counted \cup {req[c].key} /\ req[c].key \notin Counted
        BY <3>1, <3>5, <2>0, <2>2 DEF Counted, TypeOK
      <4>3. Cardinality(F') = Cardinality(F) + 1
        BY <4>1, <2>0, <1>f, FS_AddElement
      <4>4. Cardinality(Counted') = Cardinality(Counted) + 1
        BY <4>2, <1>f, FS_AddElement
      <4> QED BY <4>3, <4>4, <3>4, <2>0, <1>e, <1>e2, <1>f
    <3>6. CASE ~req[c].counts
      <4>1. F' = F
        BY <3>2, <3>6, <2>0 DEF InFlight, Early, Event, Idle, TypeOK
      <4>2. Counted' = Counted
        BY <3>1, <3>6, <2>0, <2>2 DEF Counted, TypeOK
      <4> QED BY <4>1, <4>2, <3>4, <2>0, <1>e, <1>e2
    <3> QED BY <3>5, <3>6
  <2> QED BY <2>1, <2>2
<1>3. CASE \E c \in Requests : UpdateSession(c)
  <2> PICK c \in Requests : UpdateSession(c)
    BY <1>3
  <2>1. /\ req[c].counts \in BOOLEAN /\ req[c].stage = "read"
        /\ events' = events /\ died' = died
        /\ warningCount' = warningCount + (IF req[c].counts THEN 1 ELSE 0)
        /\ req'[c].stage = "updated"
        /\ \A d \in Requests : d # c => req'[d] = req[d]
    BY Shapes DEF UpdateSession, log, Stages, TypeOK
  <2>2. D' = D /\ Counted' = Counted
    BY <2>1 DEF Dead, Counted
  <2>3. CASE req[c].counts
    <3>1. F' = F \ {c} /\ c \in F
      BY <2>1, <2>3 DEF InFlight, Early
    <3>2. Cardinality(F') = Cardinality(F) - 1
      BY <3>1, <1>f, FS_RemoveElement, ZenonT(60)
    <3> QED BY <3>2, <2>1, <2>2, <2>3, <1>e, <1>e2, <1>f
  <2>4. CASE ~req[c].counts
    <3>1. F' = F
      BY <2>1, <2>4 DEF InFlight, Early
    <3> QED BY <3>1, <2>1, <2>2, <2>4, <1>e, <1>e2, <1>f
  <2> QED BY <2>1, <2>3, <2>4
<1>4. CASE \E c \in Requests : AutoSubmit(c)
  <2> PICK c \in Requests : AutoSubmit(c)
    BY <1>4
  <2>1. /\ warningCount' = warningCount /\ events' = events /\ died' = died
        /\ req[c].stage = "reviewed" /\ req' = [req EXCEPT ![c] = Idle]
    BY DEF AutoSubmit, session, log
  <2>2. F' = F
    BY <2>1 DEF InFlight, Early, Idle, TypeOK
  <2>3. D' = D /\ Counted' = Counted
    BY <2>1 DEF Dead, Counted
  <2> QED BY <2>1, <2>2, <2>3, <1>e, <1>e2
<1>5. CASE \E c \in Requests : Die(c)
  <2> PICK c \in Requests : Die(c)
    BY <1>5
  <2>1. /\ warningCount' = warningCount /\ events' = events
        /\ req' = [req EXCEPT ![c] = Idle]
    BY DEF Die, session, log
  <2>2. Counted' = Counted
    BY <2>1 DEF Counted
  <2>3. Early \subseteq Working
    BY DEF Early, Working
  <2>4. CASE c \in F
    <3>1. F' = F \ {c}
      BY <2>1 DEF InFlight, Early, Idle, TypeOK
    <3>2. Cardinality(F') = Cardinality(F) - 1
      BY <3>1, <2>4, <1>f, FS_RemoveElement, ZenonT(60)
    <3>3. D' = D \cup {req[c].key} /\ req[c].key \notin D
      BY <2>3, <2>4, DeadGrows DEF InFlight
    <3>4. Cardinality(D') = Cardinality(D) + 1
      BY <3>3, <1>f, FS_AddElement
    <3> QED BY <3>2, <3>4, <2>1, <2>2, <1>e, <1>e2, <1>f
  <2>5. CASE c \notin F
    <3>1. F' = F
      BY <2>1, <2>5 DEF InFlight, Early, Idle, TypeOK
    <3>2. D' = D
      BY <2>3, <2>5, DeadGrows DEF InFlight
    <3> QED BY <3>1, <3>2, <2>1, <2>2, <1>e, <1>e2
  <2> QED BY <2>4, <2>5
<1> QED BY KeptByMost, <1>1, <1>2, <1>3, <1>4, <1>5

(* Every stored counted event is counted once and only once, whatever the  *)
(* retries, interleavings and deaths, for any number of requests.          *)
THEOREM CountOnce == Spec => []EventsCountOnce
<1>1. Init => TypeOK /\ Owned /\ EventsCountOnce
  BY TypeInit, OwnedInit, CountInit
<1>2. TypeOK /\ Owned /\ EventsCountOnce /\ [Next]_vars
        => (TypeOK /\ Owned /\ EventsCountOnce)'
  BY TypeNext, OwnedNext, CountNext
<1> QED BY <1>1, <1>2, PTL DEF Spec

-----------------------------------------------------------------------------
LEMMA LimitInit == Init => LimitEnforced
<1> SUFFICES ASSUME Init PROVE LimitEnforced
  OBVIOUS
<1>1. Overdue = {} /\ Dead({"updated", "reviewed"}) = {}
  BY DEF Init, Overdue, InFlight, Dead, Idle
<1> QED BY <1>1, FS_EmptySet, PolicyAssumption DEF Init, LimitEnforced

LEMMA LimitNext ==
  TypeOK /\ Owned /\ LimitEnforced /\ [Next]_vars => LimitEnforced'
<1> SUFFICES ASSUME TypeOK, Owned, LimitEnforced, [Next]_vars, attempt' = "open"
             PROVE  warningCount' <= Limit + Cardinality(Overdue')
                                           + Cardinality(Dead(Late)')
  BY DEF LimitEnforced, Late
<1> DEFINE D == Dead(Late)
<1>a. attempt = "open"
  <2>1. attempt' = attempt \/ attempt' = "closed"
    BY Steps DEF vars, Start, Heartbeat, EndSession, Prepare, Clear, SubmitAttempt,
          Forget, ReceiveEvent, SecondSession, Flag, FlagReview, InsertEvent,
          ReadSession, UpdateSession, EnsureReview, AutoSubmit, Die,
          DecideReview, DecideSession
  <2> QED BY <2>1
<1>b. warningCount <= Limit + Cardinality(Overdue) + Cardinality(D)
  BY <1>a DEF LimitEnforced, Late
<1>f. /\ IsFiniteSet(Overdue) /\ IsFiniteSet(D)
      /\ Cardinality(Overdue) \in Nat /\ Cardinality(D) \in Nat
      /\ warningCount \in Nat /\ Limit \in Nat
  BY SetsFinite, PolicyAssumption DEF TypeOK
<1>1. CASE Kept
  <2>1. Overdue' = Overdue /\ D' = D /\ warningCount' = warningCount
    BY <1>1, KeptSets DEF Kept
  <2> QED BY <2>1, <1>b
<1>2. CASE \E c \in Requests : InsertEvent(c)
  <2> PICK c \in Requests : InsertEvent(c)
    BY <1>2
  <2>0. /\ req[c].key \in Keys /\ req[c].counts \in BOOLEAN
        /\ warningCount' = warningCount /\ died' = died
        /\ req[c].stage = "checked" /\ req'[c].stage \in {"idle", "inserted"}
        /\ \A d \in Requests : d # c => req'[d] = req[d]
    BY Shapes DEF InsertEvent, Stages, session, TypeOK, Event, Idle
  <2>1. Overdue' = Overdue
    BY <2>0 DEF Overdue, InFlight
  <2>2. D' = D
    <3>1. CASE events' = events
      BY <3>1, <2>0 DEF Dead
    <3>2. CASE events[req[c].key] = "none"
      <4>1. \A s \in Late : <<req[c].key, s>> \notin died
        BY <3>2, <2>0 DEF Owned, Late, Working
      <4>2. \A k \in Keys : k # req[c].key => events'[k] = events[k]
        BY <3>2 DEF InsertEvent, TypeOK
      <4> QED BY <4>1, <4>2, <2>0 DEF Dead
    <3> QED BY <3>1, <3>2 DEF InsertEvent, log
  <2> QED BY <2>0, <2>1, <2>2, <1>b
<1>3. CASE \E c \in Requests : UpdateSession(c)
  <2> PICK c \in Requests : UpdateSession(c)
    BY <1>3
  <2>1. /\ req[c].counts \in BOOLEAN /\ req[c].stage = "read"
        /\ events' = events /\ died' = died
        /\ warningCount' = warningCount + (IF req[c].counts THEN 1 ELSE 0)
        /\ req'[c].stage = "updated" /\ req'[c].counts = req[c].counts
        /\ req'[c].over = (warningCount' > Limit)
        /\ \A d \in Requests : d # c => req'[d] = req[d]
    BY Shapes DEF UpdateSession, log, Stages, TypeOK
  <2>2. D' = D
    BY <2>1 DEF Dead
  <2>3. CASE req[c].counts /\ warningCount' > Limit
    <3>1. Overdue' = Overdue \cup {c} /\ c \notin Overdue
      BY <2>1, <2>3 DEF Overdue, InFlight
    <3>2. Cardinality(Overdue') = Cardinality(Overdue) + 1
      BY <3>1, <1>f, FS_AddElement
    <3> QED BY <3>2, <2>1, <2>2, <2>3, <1>b, <1>f
  <2>4. CASE req[c].counts /\ ~(warningCount' > Limit)
    <3>1. Overdue' = Overdue
      BY <2>1, <2>4 DEF Overdue, InFlight
    <3> QED BY <3>1, <2>1, <2>2, <2>4, <1>f
  <2>5. CASE ~req[c].counts
    <3>1. Overdue' = Overdue
      BY <2>1, <2>5 DEF Overdue, InFlight
    <3> QED BY <3>1, <2>1, <2>2, <2>5, <1>b, <1>f
  <2> QED BY <2>3, <2>4, <2>5
<1>4. CASE \E c \in Requests : AutoSubmit(c)
  <2> PICK c \in Requests : AutoSubmit(c)
    BY <1>4
  <2>1. /\ warningCount' = warningCount /\ events' = events /\ died' = died
        /\ req[c].stage = "reviewed" /\ req' = [req EXCEPT ![c] = Idle]
        /\ ~ req[c].over
    BY DEF AutoSubmit, session, log, ShouldAutoSubmit
  <2>2. Overdue' = Overdue
    BY <2>1 DEF Overdue, InFlight, Idle, TypeOK
  <2>3. D' = D
    BY <2>1 DEF Dead
  <2> QED BY <2>1, <2>2, <2>3, <1>b
<1>5. CASE \E c \in Requests : Die(c)
  <2> PICK c \in Requests : Die(c)
    BY <1>5
  <2>1. warningCount' = warningCount /\ req' = [req EXCEPT ![c] = Idle]
    BY DEF Die, session
  <2>2. Late \subseteq Working
    BY DEF Late, Working
  <2>3. CASE c \in Overdue
    <3>1. Overdue' = Overdue \ {c}
      BY <2>1 DEF Overdue, InFlight, Idle, TypeOK
    <3>2. Cardinality(Overdue') = Cardinality(Overdue) - 1
      BY <3>1, <2>3, <1>f, FS_RemoveElement
    <3>3. D' = D \cup {req[c].key} /\ req[c].key \notin D
      BY <2>2, <2>3, DeadGrows DEF Overdue, InFlight, Late
    <3>4. Cardinality(D') = Cardinality(D) + 1
      BY <3>3, <1>f, FS_AddElement
    <3> QED BY <3>2, <3>4, <2>1, <1>b, <1>f
  <2>4. CASE c \notin Overdue
    <3>1. Overdue' = Overdue
      BY <2>1, <2>4 DEF Overdue, InFlight, Idle, TypeOK
    <3>2. D' = D \/ (D' = D \cup {req[c].key} /\ req[c].key \notin D)
      BY <2>2, DeadGrows
    <3>3. Cardinality(D') = Cardinality(D) \/ Cardinality(D') = Cardinality(D) + 1
      BY <3>2, <1>f, FS_AddElement
    <3> QED BY <3>1, <3>3, <2>1, <1>b, <1>f
  <2> QED BY <2>3, <2>4
<1> QED BY KeptByMost, <1>1, <1>2, <1>3, <1>4, <1>5

(* An open attempt exceeds its violation limit at most by the requests     *)
(* that are about to submit it and by those that died just before.         *)
THEOREM Limited == Spec => []LimitEnforced
<1>1. Init => TypeOK /\ Owned /\ LimitEnforced
  BY TypeInit, OwnedInit, LimitInit
<1>2. TypeOK /\ Owned /\ LimitEnforced /\ [Next]_vars
        => (TypeOK /\ Owned /\ LimitEnforced)'
  BY TypeNext, OwnedNext, LimitNext
<1> QED BY <1>1, <1>2, PTL DEF Spec

-----------------------------------------------------------------------------
LEMMA CriticalNext ==
  TypeOK /\ Owned /\ CriticalSubmits /\ [Next]_vars => CriticalSubmits'
<1> SUFFICES ASSUME TypeOK, Owned, CriticalSubmits, [Next]_vars,
                    AutoSubmitOnCritical, attempt' = "open", NEW k \in criticals'
             PROVE  \/ \E c \in Requests : req'[c].stage \in Working /\ req'[c].key = k
                    \/ \E s \in Working : <<k, s>> \in died'
  BY DEF CriticalSubmits
<1> DEFINE Was == \/ \E c \in Requests : req[c].stage \in Working /\ req[c].key = k
                  \/ \E s \in Working : <<k, s>> \in died
<1> USE DEF session, log
<1>a. attempt = "open"
  <2>1. attempt' = attempt \/ attempt' = "closed"
    BY Steps DEF vars, Start, Heartbeat, EndSession, Prepare, Clear, SubmitAttempt,
          Forget, ReceiveEvent, SecondSession, Flag, FlagReview, InsertEvent,
          ReadSession, UpdateSession, EnsureReview, AutoSubmit, Die,
          DecideReview, DecideSession
  <2> QED BY <2>1
<1>b. k \in criticals => Was
  BY <1>a DEF CriticalSubmits
<1>1. CASE Kept
  <2>1. Was /\ died' = died
    BY <1>1, <1>b DEF Kept
  <2>2. \A d \in Requests : req[d].stage \in Working =>
           req'[d].stage \in Working /\ req'[d].key = req[d].key
    BY <1>1 DEF Kept, Working, Early, Late
  <2> QED BY <2>1, <2>2
<1>2. CASE \E c \in Requests : InsertEvent(c)
  <2> PICK c \in Requests : InsertEvent(c)
    BY <1>2
  <2>1. /\ died' = died /\ req[c].stage = "checked"
        /\ \A d \in Requests : d # c => req'[d] = req[d]
    BY DEF InsertEvent, TypeOK
  <2>2. CASE k \in criticals
    <3>1. Was
      BY <2>2, <1>b
    <3>2. \A d \in Requests : req[d].stage \in Working => d # c
      BY <2>1 DEF Working
    <3> QED BY <2>1, <3>1, <3>2
  <2>3. CASE k \notin criticals
    <3>1. /\ k = req[c].key /\ req[c].kind = "critical"
          /\ events[req[c].key] = "none"
      BY <2>3 DEF InsertEvent
    <3>2. req'[c] = Event("inserted", k, req[c].kind, req[c].counts)
      BY <3>1 DEF InsertEvent, TypeOK
    <3> QED BY <3>2 DEF Event, Working
  <2> QED BY <2>2, <2>3
<1>3. CASE \E c \in Requests : UpdateSession(c)
  <2> PICK c \in Requests : UpdateSession(c)
    BY <1>3
  <2>1. Was /\ died' = died
    BY <1>b DEF UpdateSession
  <2>2. \A d \in Requests : req[d].stage \in Working =>
           req'[d].stage \in Working /\ req'[d].key = req[d].key
    BY DEF UpdateSession, TypeOK, Working
  <2> QED BY <2>1, <2>2
<1>4. CASE \E c \in Requests : AutoSubmit(c)
  <2> PICK c \in Requests : AutoSubmit(c)
    BY <1>4
  <2>1. /\ Was /\ k \in criticals /\ died' = died
        /\ req[c].stage \in Working /\ req[c].kind # "critical"
        /\ \A d \in Requests : d # c => req'[d] = req[d]
    BY <1>b DEF AutoSubmit, ShouldAutoSubmit, Working, TypeOK
  <2>2. req[c].key # k
    BY <2>1 DEF Owned
  <2> QED BY <2>1, <2>2
<1>5. CASE \E c \in Requests : Die(c)
  <2> PICK c \in Requests : Die(c)
    BY <1>5
  <2>1. /\ Was /\ died \subseteq died'
        /\ \A d \in Requests : d # c => req'[d] = req[d]
    BY <1>b DEF Die, TypeOK
  <2>2. req[c].stage \in Working => <<req[c].key, req[c].stage>> \in died'
    BY DEF Die, Working
  <2> QED BY <2>1, <2>2
<1> QED BY KeptByMost, <1>1, <1>2, <1>3, <1>4, <1>5

(* Under autoSubmitOnCriticalViolation no stored critical event is lost on *)
(* the way to the submission, except with the request that carries it.     *)
THEOREM CriticalSubmitted == Spec => []CriticalSubmits
<1>1. Init => TypeOK /\ Owned /\ CriticalSubmits
  <2>1. Init => CriticalSubmits
    BY DEF Init, CriticalSubmits
  <2> QED BY <2>1, TypeInit, OwnedInit
<1>2. TypeOK /\ Owned /\ CriticalSubmits /\ [Next]_vars
        => (TypeOK /\ Owned /\ CriticalSubmits)'
  BY TypeNext, OwnedNext, CriticalNext
<1> QED BY <1>1, <1>2, PTL DEF Spec

-----------------------------------------------------------------------------
\* A request that will raise flagCount also knows that it must open a review.
Determined == \A c \in Requests :
  req[c].stage = "read" /\ Flags(req[c]) => req[c].opens

\* What a request remembers of a review outcome came from a human.
Remembered == \A c \in Requests :
  /\ req[c].stage = "read" /\ req[c].reviewStatus \in Outcomes
       => req[c].reviewStatus \in decided
  /\ req[c].stage = "ruled" => req[c].decision \in decided

Advice == Determined /\ Remembered /\ FlagIsReviewed /\ OutcomeIsHuman

LEMMA AdviceInit == Init => Advice
BY DEF Init, Advice, Determined, Remembered, FlagIsReviewed, OutcomeIsHuman,
       Idle, Outcomes

LEMMA AdviceNext == TypeOK /\ Advice /\ [Next]_vars => Advice'
<1> SUFFICES ASSUME TypeOK, Advice, [Next]_vars PROVE Advice'
  OBVIOUS
<1> USE DEF session, log
<1>p. "PENDING" \notin Outcomes
  BY DEF Outcomes
<1>0. CASE UNCHANGED vars
  BY <1>0 DEF vars, Advice, Determined, Remembered, FlagIsReviewed,
          OutcomeIsHuman, Flags
<1>1. CASE Start \/ Heartbeat \/ EndSession \/ \E s \in {"LIVE", "CLOSED"} : Prepare(s)
  BY <1>1, <1>p DEF Start, Heartbeat, EndSession, Prepare, UpsertSession, Advice,
          Determined, Remembered, FlagIsReviewed, OutcomeIsHuman, Flags
<1>2. CASE Clear \/ SubmitAttempt \/ Forget
  BY <1>2 DEF Clear, SubmitAttempt, Forget, Advice, Determined, Remembered,
          FlagIsReviewed, OutcomeIsHuman, Flags
<1> DEFINE Moves(c) == \A d \in Requests : d # c => req'[d] = req[d]
<1>3. CASE \E c \in Requests, k \in Keys, kind \in Kinds : ReceiveEvent(c, k, kind)
  <2> PICK c \in Requests, k \in Keys, kind \in Kinds : ReceiveEvent(c, k, kind)
    BY <1>3
  <2>1. /\ Moves(c) /\ req[c].stage = "idle" /\ req'[c].stage = "checked"
        /\ reviewStatus' \in {reviewStatus, "PENDING"}
        /\ UNCHANGED <<flagCount, review, died, decided>>
    BY DEF ReceiveEvent, EnsureSession, UpsertSession, Event, Idle, TypeOK
  <2> QED BY <2>1, <1>p DEF Advice, Determined, Remembered, FlagIsReviewed,
             OutcomeIsHuman, Flags
<1>4. CASE \E c \in Requests, k \in Keys : SecondSession(c, k)
  <2> PICK c \in Requests, k \in Keys : SecondSession(c, k)
    BY <1>4
  <2>1. /\ Moves(c) /\ req[c].stage = "idle" /\ req'[c].stage = "checked"
        /\ UNCHANGED <<reviewStatus, flagCount, review, died, decided>>
    BY DEF SecondSession, Event, Idle, TypeOK
  <2> QED BY <2>1 DEF Advice, Determined, Remembered, FlagIsReviewed,
             OutcomeIsHuman, Flags
<1>5. CASE \E c \in Requests, k \in Keys : Flag(c, k)
  <2> PICK c \in Requests, k \in Keys : Flag(c, k)
    BY <1>5
  <2>1. /\ Moves(c) /\ req'[c].stage = "flagged"
        /\ reviewStatus' = "PENDING" /\ UNCHANGED <<review, died, decided>>
    BY DEF Flag, Event, TypeOK
  <2> QED BY <2>1, <1>p DEF Advice, Determined, Remembered, FlagIsReviewed,
             OutcomeIsHuman, Flags
<1>6. CASE \E c \in Requests : FlagReview(c)
  <2> PICK c \in Requests : FlagReview(c)
    BY <1>6
  <2>1. /\ Moves(c) /\ req'[c].stage = "checked"
        /\ review' = "PENDING" /\ UNCHANGED <<reviewStatus, died, decided>>
    BY DEF FlagReview, Event, TypeOK
  <2> QED BY <2>1, <1>p DEF Advice, Determined, Remembered, FlagIsReviewed,
             OutcomeIsHuman, Flags
<1>7. CASE \E c \in Requests : InsertEvent(c)
  <2> PICK c \in Requests : InsertEvent(c)
    BY <1>7
  <2>1. /\ Moves(c) /\ req[c].stage = "checked" /\ req'[c].stage \in {"idle", "inserted"}
        /\ UNCHANGED <<reviewStatus, flagCount, review, died, decided>>
    BY DEF InsertEvent, Event, Idle, TypeOK
  <2> QED BY <2>1 DEF Advice, Determined, Remembered, FlagIsReviewed,
             OutcomeIsHuman, Flags
<1>8. CASE \E c \in Requests : ReadSession(c)
  <2> PICK c \in Requests : ReadSession(c)
    BY <1>8
  <2>1. /\ Moves(c) /\ req[c].stage = "inserted" /\ req'[c].stage = "read"
        /\ req'[c].reviewStatus = reviewStatus
        /\ Flags(req'[c]) => req'[c].opens
        /\ UNCHANGED <<reviewStatus, flagCount, review, died, decided>>
    BY DEF ReadSession, Flags, TypeOK
  <2>2. Determined'
    BY <2>1 DEF Advice, Determined, Flags
  <2> QED BY <2>1, <2>2 DEF Advice, Remembered, FlagIsReviewed, OutcomeIsHuman
<1>9. CASE \E c \in Requests : UpdateSession(c)
  <2> PICK c \in Requests : UpdateSession(c)
    BY <1>9
  <2>1. /\ Moves(c) /\ req[c].stage = "read" /\ req'[c].stage = "updated"
        /\ req'[c].opens = req[c].opens
        /\ flagCount' = flagCount \/ Flags(req[c])
        /\ reviewStatus' \in {"PENDING", req[c].reviewStatus}
        /\ UNCHANGED <<review, died, decided>>
    BY DEF UpdateSession, TypeOK
  <2>2. Determined' /\ Remembered'
    BY <2>1 DEF Advice, Determined, Remembered, Flags
  <2>3. OutcomeIsHuman'
    BY <2>1, <1>p DEF Advice, Remembered, OutcomeIsHuman
  <2>4. FlagIsReviewed'
    BY <2>1 DEF Advice, Determined, FlagIsReviewed
  <2> QED BY <2>2, <2>3, <2>4 DEF Advice
<1>10. CASE \E c \in Requests : EnsureReview(c)
  <2> PICK c \in Requests : EnsureReview(c)
    BY <1>10
  <2>1. /\ Moves(c) /\ req[c].stage = "updated" /\ req'[c].stage = "reviewed"
        /\ review' = IF req[c].opens THEN "PENDING" ELSE review
        /\ UNCHANGED <<reviewStatus, flagCount, died, decided>>
    BY DEF EnsureReview, TypeOK
  <2>2. Determined' /\ Remembered'
    BY <2>1 DEF Advice, Determined, Remembered, Flags
  <2> QED BY <2>1, <2>2, <1>p DEF Advice, FlagIsReviewed, OutcomeIsHuman
<1>11. CASE \E c \in Requests : AutoSubmit(c)
  <2> PICK c \in Requests : AutoSubmit(c)
    BY <1>11
  <2>1. /\ Moves(c) /\ req[c].stage = "reviewed" /\ req'[c].stage = "idle"
        /\ UNCHANGED <<reviewStatus, flagCount, review, died, decided>>
    BY DEF AutoSubmit, Idle, TypeOK
  <2> QED BY <2>1 DEF Advice, Determined, Remembered, FlagIsReviewed,
             OutcomeIsHuman, Flags
<1>12. CASE \E c \in Requests : Die(c)
  <2> PICK c \in Requests : Die(c)
    BY <1>12
  <2>1. /\ Moves(c) /\ req'[c].stage = "idle" /\ died \subseteq died'
        /\ UNCHANGED <<reviewStatus, flagCount, review, decided>>
        /\ req[c].stage \in {"flagged", "updated"} =>
             /\ <<req[c].key, req[c].stage>> \in died'
             /\ req[c].key \in Keys
    BY Shapes DEF Die, Idle, TypeOK, Stages
  <2>2. Determined' /\ Remembered' /\ OutcomeIsHuman'
    BY <2>1 DEF Advice, Determined, Remembered, OutcomeIsHuman, Flags
  <2>3. FlagIsReviewed'
    BY <2>1 DEF Advice, FlagIsReviewed
  <2> QED BY <2>2, <2>3 DEF Advice
<1>13. CASE \E c \in Requests, d \in Decisions : DecideReview(c, d)
  <2> PICK c \in Requests, d \in Decisions : DecideReview(c, d)
    BY <1>13
  <2>1. /\ Moves(c) /\ req'[c].stage = "ruled" /\ req'[c].decision = d
        /\ review' = d /\ decided' = decided \cup {d} /\ d # "NONE"
        /\ UNCHANGED <<reviewStatus, flagCount, died>>
    BY PolicyAssumption DEF DecideReview, TypeOK, ReviewStatus, ActiveReview, Outcomes
  <2> QED BY <2>1 DEF Advice, Determined, Remembered, FlagIsReviewed,
             OutcomeIsHuman, Flags
<1>14. CASE \E c \in Requests : DecideSession(c)
  <2> PICK c \in Requests : DecideSession(c)
    BY <1>14
  <2>1. /\ Moves(c) /\ req[c].stage = "ruled" /\ req'[c].stage = "idle"
        /\ reviewStatus' = req[c].decision
        /\ UNCHANGED <<flagCount, review, died, decided>>
    BY DEF DecideSession, Idle, TypeOK
  <2> QED BY <2>1, SMTT(30) DEF Advice, Determined, Remembered, FlagIsReviewed,
             OutcomeIsHuman, Flags
<1> QED BY Steps, <1>0, <1>1, <1>2, <1>3, <1>4, <1>5, <1>6, <1>7, <1>8, <1>9,
           <1>10, <1>11, <1>12, <1>13, <1>14

LEMMA AdviceAlways == Spec => []Advice
<1>1. Init => TypeOK /\ Advice
  BY TypeInit, AdviceInit
<1>2. TypeOK /\ Advice /\ [Next]_vars => (TypeOK /\ Advice)'
  BY TypeNext, AdviceNext
<1> QED BY <1>1, <1>2, PTL DEF Spec

(* A flagged session gets its review row, or its request died on the way.  *)
THEOREM FlagReviewed == Spec => []FlagIsReviewed
<1>1. Advice => FlagIsReviewed
  BY DEF Advice
<1> QED BY <1>1, AdviceAlways, PTL

(* No event, however stale the session it read, brings an outcome that no  *)
(* human chose.                                                            *)
THEOREM HumanOutcome == Spec => []OutcomeIsHuman
<1>1. Advice => OutcomeIsHuman
  BY DEF Advice
<1> QED BY <1>1, AdviceAlways, PTL

(* The session's rows have their types and count each stored event once.   *)
THEOREM Consistent == Spec => []SessionConsistent
<1>1. SessionConsistent <=> TypeOK /\ EventsCountOnce
  BY DEF SessionConsistent
<1> QED BY <1>1, TypeCorrect, CountOnce, PTL

(* What the policy forbids ends the attempt: too many counted events, or a *)
(* critical one, unless the request that carries it died.                  *)
THEOREM Submitting == Spec => []ViolationsSubmit
<1>1. ViolationsSubmit <=> LimitEnforced /\ CriticalSubmits
  BY DEF ViolationsSubmit
<1> QED BY <1>1, Limited, CriticalSubmitted, PTL

-----------------------------------------------------------------------------
(* The page. *)

\* The page is ready under strict mode, and a start has an answer, only after
\* the server's start.
ReadyMeansStarted ==
    /\ ready /\ StrictMode => srv.started
    /\ \A b \in Begins : begin[b].at = "started" => srv.started

\* An answer on its way tells what the server said at some time.
AnswersBacked == \A i \in Posts :
    /\ posts[i].count <= srv.count
    /\ posts[i].auto => srv.state = "auto"

PageInv ==
    /\ PageTypeOK
    /\ ReadyMeansStarted
    /\ AnswersBacked
    /\ VerdictIsServers /\ FinalWarningHonest /\ ShownCountBacked
    /\ CameraReleased

PostRow == [at : {"free", "sent", "recorded", "answered", "lost", "done"},
            kind : {"note", "alert"}, knew : {"none", "resolved", "fallback"}, base : Nat,
            count : Nat, counted : BOOLEAN, auto : BOOLEAN, live : BOOLEAN]

LEMMA PageStart == PageInit => PageInv
<1> SUFFICES ASSUME PageInit PROVE PageInv
  OBVIOUS
<1>1. PageTypeOK
  <2>1. NoPost \in PostRow
    BY DEF NoPost, PostRow
  <2>2. posts \in [Posts -> PostRow]
    BY <2>1 DEF PageInit
  <2>3. begin \in [Begins -> [at : {"idle", "camera", "check", "start",
                                    "started", "refused"}, live : BOOLEAN]]
    BY DEF PageInit, NoBegin
  <2>4. 0 \in 0..MaxMishaps
    BY PageBounds
  <2>5. warning \in [on : BOOLEAN, final : BOOLEAN, guessed : BOOLEAN]
    BY DEF PageInit, NoWarning
  <2> QED
    BY <2>2, <2>3, <2>4, <2>5 DEF PageInit, PageTypeOK, PostRow
<1>2. ReadyMeansStarted /\ AnswersBacked
  BY DEF PageInit, ReadyMeansStarted, AnswersBacked, NoPost, NoBegin
<1>3. VerdictIsServers /\ FinalWarningHonest /\ ShownCountBacked /\ CameraReleased
  BY DEF PageInit, VerdictIsServers, FinalWarningHonest, ShownCountBacked,
     CameraReleased, NoWarning
<1> QED
  BY <1>1, <1>2, <1>3 DEF PageInv

-----------------------------------------------------------------------------
(* Types. *)

\* Posting an event keeps the posts well typed and tells nothing of an answer.
LEMMA PostKeeps ==
  ASSUME PageInv, NEW kind \in {"note", "alert"}, Post(kind)
  PROVE  /\ posts' \in [Posts -> PostRow]
         /\ \A i \in Posts : /\ posts'[i].count = posts[i].count \/ posts'[i].count = 0
                             /\ posts'[i].auto => posts[i].auto
<1> DEFINE x == CHOOSE i \in FreePosts : \A j \in FreePosts : i <= j
<1>1. PICK base \in 0..shown.count : posts' = [posts EXCEPT ![x] = Sent(kind, base)]
  BY DEF Post
<1>2. /\ shown.count \in Nat /\ known \in {"none", "resolved", "fallback"}
      /\ posts \in [Posts -> PostRow]
  BY DEF PageInv, PageTypeOK, PostRow
<1>3. /\ Sent(kind, base) \in PostRow
      /\ Sent(kind, base).count = 0 /\ Sent(kind, base).auto = FALSE
  BY <1>2 DEF Sent, PostRow
<1> HIDE DEF x
<1>4. \A i \in Posts : posts'[i] = posts[i] \/ posts'[i] = Sent(kind, base)
  BY <1>1, <1>2
<1>5. posts' \in [Posts -> PostRow]
  BY <1>1, <1>2, <1>3
<1> QED
  BY <1>3, <1>4, <1>5

\* The other steps that touch the posts.
LEMMA PostRows ==
  /\ NoPost \in PostRow /\ NoPost.count = 0 /\ NoPost.auto = FALSE
  /\ DonePost \in PostRow /\ DonePost.count = 0 /\ DonePost.auto = FALSE
  /\ \A p \in PostRow, at \in {"recorded", "lost"} :
        /\ Outcome(p, at) \in PostRow
        /\ Outcome(p, at).count \in {p.count, 0}
        /\ Outcome(p, at).auto \in {p.auto, FALSE}
  /\ \A p \in PostRow : Lost(p) \in PostRow /\ Lost(p).count = 0 /\ Lost(p).auto = FALSE
<1>1. /\ NoPost \in PostRow /\ NoPost.count = 0 /\ NoPost.auto = FALSE
      /\ DonePost \in PostRow /\ DonePost.count = 0 /\ DonePost.auto = FALSE
  BY DEF NoPost, DonePost, PostRow
<1>2. ASSUME NEW p \in PostRow, NEW at \in {"recorded", "lost"}
      PROVE  /\ Outcome(p, at) \in PostRow
             /\ Outcome(p, at).count \in {p.count, 0}
             /\ Outcome(p, at).auto \in {p.auto, FALSE}
  <2>1. /\ [p EXCEPT !.at = at] \in PostRow
        /\ [p EXCEPT !.at = at].count = p.count /\ [p EXCEPT !.at = at].auto = p.auto
    BY DEF PostRow
  <2> QED
    BY <1>1, <2>1 DEF Outcome
<1>3. ASSUME NEW p \in PostRow
      PROVE  Lost(p) \in PostRow /\ Lost(p).count = 0 /\ Lost(p).auto = FALSE
  <2> DEFINE q == [p EXCEPT !.counted = FALSE, !.count = 0, !.auto = FALSE]
  <2>1. q \in PostRow /\ q.count = 0 /\ q.auto = FALSE
    BY DEF PostRow
  <2> HIDE DEF q
  <2>2. Lost(p) = Outcome(q, "lost")
    BY DEF Lost, q
  <2>3. /\ Outcome(q, "lost") \in PostRow
        /\ Outcome(q, "lost").count \in {q.count, 0}
        /\ Outcome(q, "lost").auto \in {q.auto, FALSE}
    BY <1>2, <2>1
  <2> QED
    BY <2>1, <2>2, <2>3
<1> QED
  BY <1>1, <1>2, <1>3

SrvRow == [state : {"open", "auto", "submitted"}, count : Nat,
           session : {"none", "ready", "active"}, started : BOOLEAN, blocked : BOOLEAN]
BeginRow == [at : {"idle", "camera", "check", "start", "started", "refused"}, live : BOOLEAN]

\* The server only goes forward: violations are not forgotten, a session that was
\* started stays started, an automatic submission stays.
Forward == /\ srv' \in SrvRow
           /\ srv.count <= srv'.count
           /\ srv.started => srv'.started
           /\ srv.state = "auto" => srv'.state = "auto"

LEMMA EventForward ==
  ASSUME PageInv, NEW n \in {0, 1}, NEW gravity, srv.state = "open"
  PROVE  /\ AfterEvent(n, gravity) \in SrvRow
         /\ AfterEvent(n, gravity).count = srv.count + n
         /\ AfterEvent(n, gravity).started = srv.started
<1>1. srv \in SrvRow
  BY DEF PageInv, PageTypeOK, SrvRow
<1> DEFINE s == IF gravity = "light" THEN srv.session ELSE "none"
           t == IF n + srv.count > policy.allowed \/ (gravity = "critical" /\ policy.critical)
                THEN "auto" ELSE srv.state
<1>2. /\ s \in {"none", "ready", "active"} /\ t \in {"open", "auto", "submitted"}
      /\ srv.count + n \in Nat /\ srv.started \in BOOLEAN /\ srv.blocked \in BOOLEAN
  BY <1>1 DEF SrvRow
<1>3. AfterEvent(n, gravity) = [state |-> t, count |-> srv.count + n, session |-> s,
                                started |-> srv.started, blocked |-> srv.blocked]
  BY DEF AfterEvent
<1> HIDE DEF s, t
<1>4. AfterEvent(n, gravity) \in SrvRow
  BY <1>2, <1>3 DEF SrvRow
<1>5. AfterEvent(n, gravity).count = srv.count + n
  BY <1>3
<1>6. AfterEvent(n, gravity).started = srv.started
  BY <1>3
<1> QED
  BY <1>4, <1>5, <1>6

\* Each step moves the server forward or leaves it.
LEMMA ServerForward == PageInv /\ [PageNext]_proctoredVars => Forward
<1> SUFFICES ASSUME PageInv, [PageNext]_proctoredVars PROVE Forward
  OBVIOUS
<1>1. srv \in SrvRow
  BY DEF PageInv, PageTypeOK, SrvRow
<1>2. ASSUME srv' = srv PROVE Forward
  BY <1>1, <1>2 DEF Forward, SrvRow
<1>3. ASSUME NEW i \in Posts, NEW n \in {0, 1}, NEW g \in {"light", "heavy"},
             ServerRecords(i, n, g)
      PROVE  Forward
  <2>1. srv' = srv \/ (srv.state = "open" /\ srv' = AfterEvent(n, g))
    BY <1>3 DEF ServerRecords
  <2>2. ASSUME srv.state = "open", srv' = AfterEvent(n, g) PROVE Forward
    <3>1. srv' \in SrvRow /\ srv'.count = srv.count + n /\ srv'.started = srv.started
      BY <2>2, EventForward, Zenon
    <3>2. srv.count <= srv'.count
      BY <1>1, <3>1 DEF SrvRow
    <3>3. srv.started => srv'.started
      BY <3>1, Zenon
    <3> QED
      BY <2>2, <3>1, <3>2, <3>3, Zenon DEF Forward
  <2> QED
    BY <1>2, <2>1, <2>2
<1>4. ASSUME NEW b \in Begins, SystemCheck(b) PROVE Forward
  BY <1>1, <1>4 DEF SystemCheck, AfterCheck, Forward, SrvRow
<1>5. ASSUME NEW b \in Begins, NEW n \in {0, 1}, ServerStarts(b, n) PROVE Forward
  <2>1. \/ srv' = srv
        \/ /\ srv.state = "open"
           /\ srv' = [AfterEvent(n, "critical") EXCEPT !.blocked = @ \/ ~srv.started]
        \/ srv' = [srv EXCEPT !.session = IF policy.enabled THEN "active" ELSE "none",
                              !.started = TRUE]
    BY <1>5 DEF ServerStarts
  <2>2. ASSUME srv.state = "open", srv' = [AfterEvent(n, "critical") EXCEPT
                                                !.blocked = @ \/ ~srv.started]
        PROVE Forward
    <3> DEFINE e == AfterEvent(n, "critical")
               x == e.blocked \/ ~srv.started
    <3>1. e \in SrvRow /\ e.count = srv.count + n /\ e.started = srv.started
      BY <2>2, EventForward, Zenon
    <3>2. srv' = [e EXCEPT !.blocked = x] /\ x \in BOOLEAN
      BY <2>2
    <3> HIDE DEF e, x
    <3>3. srv' \in SrvRow /\ srv'.count = e.count /\ srv'.started = e.started
      BY <3>1, <3>2 DEF SrvRow
    <3>4. srv.count <= srv'.count
      BY <1>1, <3>1, <3>3 DEF SrvRow
    <3>5. srv.started => srv'.started
      BY <3>1, <3>3, Zenon
    <3> QED
      BY <2>2, <3>3, <3>4, <3>5, Zenon DEF Forward
  <2>3. ASSUME srv' = [srv EXCEPT !.session = IF policy.enabled THEN "active" ELSE "none",
                                  !.started = TRUE]
        PROVE Forward
    <3> DEFINE x == IF policy.enabled THEN "active" ELSE "none"
               r == [srv EXCEPT !.session = x]
    <3>1. r \in SrvRow /\ r.count = srv.count /\ r.state = srv.state
      BY <1>1 DEF SrvRow
    <3>2. srv' = [r EXCEPT !.started = TRUE]
      BY <2>3
    <3> HIDE DEF r
    <3>3. srv' \in SrvRow /\ srv'.count = r.count /\ srv'.state = r.state /\ srv'.started
      BY <3>1, <3>2 DEF SrvRow
    <3>4. srv.count <= srv'.count
      BY <1>1, <3>1, <3>3 DEF SrvRow
    <3> QED
      BY <3>1, <3>3, <3>4, Zenon DEF Forward
  <2> QED
    BY <1>2, <2>1, <2>2, <2>3
<1>6. ASSUME NEW state \in {"auto", "submitted"}, AttemptCloses(state) PROVE Forward
  BY <1>1, <1>6 DEF AttemptCloses, Forward, SrvRow
<1>7. ASSUME PageHeartbeat PROVE Forward
  BY <1>1, <1>7 DEF PageHeartbeat, Forward, SrvRow
<1> QED
  BY <1>2, <1>3, <1>4, <1>5, <1>6, <1>7
     DEF PageNext, proctoredVars, PolicyLoads, Signal, ReturnToFullscreen, CameraReport,
         ServerAnswers, PostLost, AnswerArrives, NoAnswer, PressStart, CameraGranted,
         Started, BeginFails, Redirect, PageLeaves, Leave, ReloadPage

-----------------------------------------------------------------------------
(* What each step does to the posts and to the starts under way. *)

LEMMA PostsStep ==
  PageInv /\ [PageNext]_proctoredVars => posts' \in [Posts -> PostRow] /\ AnswersBacked'
<1> SUFFICES ASSUME PageInv, [PageNext]_proctoredVars
             PROVE  posts' \in [Posts -> PostRow] /\ AnswersBacked'
  OBVIOUS
<1>1. /\ posts \in [Posts -> PostRow] /\ srv \in SrvRow /\ Forward
      /\ \A i \in Posts : posts[i].count <= srv.count /\ (posts[i].auto => srv.state = "auto")
  BY ServerForward DEF PageInv, PageTypeOK, PostRow, SrvRow, AnswersBacked
<1> DEFINE Backed(p) == p.count <= srv'.count /\ (p.auto => srv'.state = "auto")
\* an answer that was backed stays so, and so is no answer
<1>2. ASSUME NEW i \in Posts, NEW p \in PostRow, p.count \in {posts[i].count, 0},
             p.auto \in {posts[i].auto, FALSE}
      PROVE  Backed(p)
  <2>1. p.count <= srv'.count
    BY <1>1, <1>2 DEF Forward, SrvRow, PostRow
  <2>2. p.auto => srv'.state = "auto"
    BY <1>1, <1>2 DEF Forward
  <2> QED
    BY <2>1, <2>2
<1>3. ASSUME posts' \in [Posts -> PostRow], \A i \in Posts : Backed(posts'[i])
      PROVE  posts' \in [Posts -> PostRow] /\ AnswersBacked'
  BY <1>3 DEF AnswersBacked
\* a step that touches one post, or none
<1>4. ASSUME posts' = posts PROVE posts' \in [Posts -> PostRow] /\ AnswersBacked'
  BY <1>1, <1>2, <1>3, <1>4
<1>5. ASSUME NEW i \in Posts, NEW p \in PostRow, Backed(p), posts' = [posts EXCEPT ![i] = p]
      PROVE  posts' \in [Posts -> PostRow] /\ AnswersBacked'
  <2>1. \A j \in Posts : Backed(posts[j])
    BY <1>1, <1>2
  <2>2. \A j \in Posts : posts'[j] = posts[j] \/ posts'[j] = p
    BY <1>1, <1>5
  <2>3. posts' \in [Posts -> PostRow]
    BY <1>1, <1>5
  <2> HIDE DEF Backed
  <2> QED
    BY <1>3, <1>5, <2>1, <2>2, <2>3
<1>6. ASSUME NEW kind \in {"note", "alert"}, Post(kind)
      PROVE  posts' \in [Posts -> PostRow] /\ AnswersBacked'
  <2>1. /\ posts' \in [Posts -> PostRow]
        /\ \A i \in Posts : /\ posts'[i].count = posts[i].count \/ posts'[i].count = 0
                            /\ posts'[i].auto => posts[i].auto
    BY <1>6, PostKeeps
  <2>2. ASSUME NEW i \in Posts PROVE Backed(posts'[i])
    <3>1. posts[i].count <= srv.count /\ srv.count <= srv'.count /\ srv.count \in Nat
          /\ srv'.count \in Nat /\ posts[i].count \in Nat
      BY <1>1 DEF Forward, SrvRow, PostRow
    <3>2. posts'[i].count = posts[i].count \/ posts'[i].count = 0
      BY <2>1
    <3>3. posts'[i].count <= srv'.count
      BY <3>1, <3>2
    <3>4. posts'[i].auto => srv'.state = "auto"
      BY <1>1, <2>1, Zenon DEF Forward
    <3> QED
      BY <3>3, <3>4
  <2> QED
    BY <1>3, <2>1, <2>2
<1>7. ASSUME NEW i \in Posts, NEW n \in {0, 1}, NEW g \in {"light", "heavy"},
             ServerRecords(i, n, g)
      PROVE  posts' \in [Posts -> PostRow] /\ AnswersBacked'
  <2> DEFINE q == [posts[i] EXCEPT !.counted = (n = 1)]
  <2>1. \/ posts' = [posts EXCEPT ![i] = Lost(posts[i])]
        \/ posts' = [posts EXCEPT ![i] = Outcome(q, "recorded")]
    BY <1>7 DEF ServerRecords
  <2>2. q \in PostRow /\ q.count = posts[i].count /\ q.auto = posts[i].auto
    BY <1>1, ZenonT(60) DEF PostRow
  <2> HIDE DEF q, Backed
  <2>3. Lost(posts[i]) \in PostRow /\ Backed(Lost(posts[i]))
    BY <1>1, <1>2, PostRows, Zenon
  <2>4. /\ Outcome(q, "recorded") \in PostRow
        /\ Outcome(q, "recorded").count \in {q.count, 0}
        /\ Outcome(q, "recorded").auto \in {q.auto, FALSE}
    BY <2>2, PostRows
  <2>5. Backed(Outcome(q, "recorded"))
    BY <1>2, <2>2, <2>4, Zenon
  <2> QED
    BY <1>5, <2>1, <2>3, <2>4, <2>5
<1>8. ASSUME NEW i \in Posts, ServerAnswers(i)
      PROVE  posts' \in [Posts -> PostRow] /\ AnswersBacked'
  <2> DEFINE closed == srv.state = "auto"
             q == [posts[i] EXCEPT !.at = "answered", !.count = srv.count, !.auto = closed]
  <2>1. posts' = [posts EXCEPT ![i] = q] /\ srv' = srv
    BY <1>8 DEF ServerAnswers
  <2>2. posts[i] \in PostRow /\ srv.count \in Nat /\ closed \in BOOLEAN
    BY <1>1 DEF SrvRow
  <2> DEFINE r1 == [posts[i] EXCEPT !.at = "answered"]
             r2 == [r1 EXCEPT !.count = srv.count]
             r3 == [r2 EXCEPT !.auto = closed]
  <2> HIDE DEF closed
  <2>3. r1 \in PostRow
    BY <2>2 DEF PostRow
  <2> HIDE DEF r1
  <2>6. r2 \in PostRow /\ r2.count = srv.count
    BY <2>2, <2>3 DEF PostRow
  <2> HIDE DEF r2
  <2>7. r3 \in PostRow /\ r3.count = srv.count /\ r3.auto = closed
    BY <2>2, <2>6 DEF PostRow
  <2>4. q \in PostRow /\ q.count = srv.count /\ q.auto = closed
    BY <2>7 DEF r1, r2, r3
  <2> HIDE DEF q
  <2>5. Backed(q)
    <3>1. q.count <= srv'.count
      BY <2>1, <2>2, <2>4
    <3>2. q.auto => srv'.state = "auto"
      BY <2>1, <2>4, Zenon DEF closed
    <3> QED
      BY <3>1, <3>2
  <2> QED
    BY <1>5, <2>1, <2>4, <2>5
<1>9. ASSUME NEW i \in Posts, posts' = [posts EXCEPT ![i] = Lost(@)]
      PROVE  posts' \in [Posts -> PostRow] /\ AnswersBacked'
  <2> HIDE DEF Backed
  <2>1. Lost(posts[i]) \in PostRow /\ Backed(Lost(posts[i]))
    BY <1>1, <1>2, PostRows, Zenon
  <2> QED
    BY <1>5, <1>9, <2>1
<1>10. ASSUME NEW i \in Posts, posts' = [posts EXCEPT ![i] = DonePost]
       PROVE  posts' \in [Posts -> PostRow] /\ AnswersBacked'
  <2> HIDE DEF Backed
  <2>1. DonePost \in PostRow /\ Backed(DonePost)
    BY <1>1, <1>2, PostRows, Zenon
  <2> QED
    BY <1>5, <1>10, <2>1
<1>11. ASSUME posts' = Abandoned PROVE posts' \in [Posts -> PostRow] /\ AnswersBacked'
  <2>1. ASSUME NEW i \in Posts
        PROVE  /\ Abandoned[i] \in PostRow
               /\ Abandoned[i].count \in {posts[i].count, 0}
               /\ Abandoned[i].auto \in {posts[i].auto, FALSE}
    <3> DEFINE q == [posts[i] EXCEPT !.live = FALSE]
    <3>1. q \in PostRow /\ q.count = posts[i].count /\ q.auto = posts[i].auto
      BY <1>1, ZenonT(60) DEF PostRow
    <3>2. Abandoned[i] = q \/ Abandoned[i] = NoPost \/ Abandoned[i] = DonePost
      BY DEF Abandoned
    <3> HIDE DEF q
    <3> QED
      BY <3>1, <3>2, PostRows
  <2> HIDE DEF Backed
  <2>2. \A i \in Posts : posts'[i] \in PostRow /\ Backed(posts'[i])
    BY <1>2, <1>11, <2>1
  <2>3. posts' \in [Posts -> PostRow]
    BY <1>11, <2>2 DEF Abandoned
  <2> QED
    BY <1>3, <2>2, <2>3
<1>12. ASSUME PageNext PROVE posts' \in [Posts -> PostRow] /\ AnswersBacked'
  <2>1. \/ posts' = posts
        \/ \E kind \in {"note", "alert"} : Post(kind)
        \/ \E i \in Posts, n \in {0, 1}, g \in {"light", "heavy"} : ServerRecords(i, n, g)
        \/ \E i \in Posts : \/ ServerAnswers(i)
                            \/ posts' = [posts EXCEPT ![i] = Lost(@)]
                            \/ posts' = [posts EXCEPT ![i] = DonePost]
        \/ posts' = Abandoned
    BY <1>12 DEF PageNext, PolicyLoads, Signal, ReturnToFullscreen, CameraReport, MayPost,
       PostLost, AnswerArrives, NoAnswer, PressStart, CameraGranted, SystemCheck,
       ServerStarts, Started, BeginFails, AttemptCloses, PageHeartbeat, Redirect,
       PageLeaves, Leave, FreshPage, ReloadPage
  <2> QED
    BY <1>4, <1>6, <1>7, <1>8, <1>9, <1>10, <1>11, <2>1
<1> QED
  BY <1>4, <1>12 DEF proctoredVars

\* A start has an answer only when the server has started.
LEMMA BeginsStep ==
  PageInv /\ [PageNext]_proctoredVars =>
    begin' \in [Begins -> BeginRow] /\ \A b \in Begins : begin'[b].at = "started" => srv'.started
<1> SUFFICES ASSUME PageInv, [PageNext]_proctoredVars
             PROVE  /\ begin' \in [Begins -> BeginRow]
                    /\ \A b \in Begins : begin'[b].at = "started" => srv'.started
  OBVIOUS
<1> DEFINE Good == /\ begin' \in [Begins -> BeginRow]
                   /\ \A b \in Begins : begin'[b].at = "started" => srv'.started
<1>1. /\ begin \in [Begins -> BeginRow] /\ srv \in SrvRow /\ Forward
      /\ \A b \in Begins : begin[b].at = "started" => srv.started
  BY ServerForward DEF PageInv, PageTypeOK, BeginRow, SrvRow, ReadyMeansStarted
<1>2. \A b \in Begins : begin[b].at = "started" => srv'.started
  BY <1>1, Zenon DEF Forward
<1>3. ASSUME begin' = begin PROVE Good
  BY <1>1, <1>2, <1>3
<1>4. ASSUME NEW b \in Begins, NEW r \in BeginRow, r.at = "started" => srv'.started,
             begin' = [begin EXCEPT ![b] = r]
      PROVE  Good
  <2>1. begin' \in [Begins -> BeginRow]
    BY <1>1, <1>4
  <2>2. \A c \in Begins : begin'[c] = begin[c] \/ begin'[c] = r
    BY <1>1, <1>4
  <2> QED
    BY <1>2, <1>4, <2>1, <2>2
<1>5. ASSUME NEW b \in Begins, NEW to \in {"idle", "check", "start", "started", "refused"},
             to = "started" => srv'.started, begin' = [begin EXCEPT ![b].at = to]
      PROVE  Good
  <2> DEFINE r == [begin[b] EXCEPT !.at = to]
  <2>1. r \in BeginRow /\ r.at = to
    BY <1>1 DEF BeginRow
  <2>2. begin' = [begin EXCEPT ![b] = r]
    BY <1>5
  <2> HIDE DEF r
  <2> QED
    BY <1>4, <1>5, <2>1, <2>2
<1>6. ASSUME NEW b \in Begins, PressStart(b) PROVE Good
  <2> DEFINE r == [at |-> IF CameraRequired THEN "camera" ELSE "check", live |-> TRUE]
  <2>1. begin' = [begin EXCEPT ![b] = r]
    BY <1>6 DEF PressStart
  <2>2. r \in BeginRow /\ r.at # "started"
    BY DEF BeginRow
  <2> HIDE DEF r
  <2> QED
    BY <1>4, <2>1, <2>2
<1>7. ASSUME NEW b \in Begins, CameraGranted(b) PROVE Good
  BY <1>5, <1>7 DEF CameraGranted, BeginStep
<1>8. ASSUME NEW b \in Begins, SystemCheck(b) PROVE Good
  BY <1>5, <1>8 DEF SystemCheck, BeginStep
<1>9. ASSUME NEW b \in Begins, NEW n \in {0, 1}, ServerStarts(b, n) PROVE Good
  <2>1. \/ begin' = [begin EXCEPT ![b].at = "refused"]
        \/ /\ begin' = [begin EXCEPT ![b].at = "started"]
           /\ srv' = [srv EXCEPT !.session = IF policy.enabled THEN "active" ELSE "none",
                                 !.started = TRUE]
    BY <1>9 DEF ServerStarts, BeginStep
  <2>2. ASSUME srv' = [srv EXCEPT !.session = IF policy.enabled THEN "active" ELSE "none",
                                  !.started = TRUE]
        PROVE  srv'.started
    BY <1>1, <2>2 DEF SrvRow
  <2> QED
    BY <1>5, <2>1, <2>2
<1>10. ASSUME NEW b \in Begins, Started(b) \/ BeginFails(b) PROVE Good
  BY <1>5, <1>10 DEF Started, BeginFails, BeginStep
<1>11. ASSUME ReloadPage PROVE Good
  <2>1. begin' = [b \in Begins |-> [begin[b] EXCEPT !.live = FALSE]]
    BY <1>11 DEF ReloadPage
  <2>2. \A r \in BeginRow : /\ [r EXCEPT !.live = FALSE] \in BeginRow
                             /\ [r EXCEPT !.live = FALSE].at = r.at
    BY DEF BeginRow
  <2>3. begin' \in [Begins -> BeginRow]
    BY <1>1, <2>1, <2>2
  <2>4. \A b \in Begins : begin'[b].at = begin[b].at
    BY <1>1, <2>1, <2>2
  <2> QED
    BY <1>2, <2>3, <2>4
<1>12. Good
  <2>1. \/ begin' = begin
        \/ \E b \in Begins : \/ PressStart(b) \/ CameraGranted(b) \/ SystemCheck(b)
                              \/ \E n \in {0, 1} : ServerStarts(b, n)
                              \/ Started(b) \/ BeginFails(b)
        \/ ReloadPage
    BY ZenonT(60) DEF PageNext, proctoredVars, PolicyLoads, Signal, ReturnToFullscreen, CameraReport,
       ServerRecords, ServerAnswers, PostLost, AnswerArrives, NoAnswer, AttemptCloses,
       PageHeartbeat, Redirect, PageLeaves, Leave
  <2> QED
    BY <1>3, <1>6, <1>7, <1>8, <1>9, <1>10, <1>11, <2>1
<1> QED
  BY <1>12

LEMMA PolicyTyped ==
  ASSUME PageInv
  PROVE  /\ policy.allowed \in Nat
         /\ \A k : AllowedExits(k) \in Nat
         /\ \A count \in Nat : Chances(count) \in Nat
<1>1. policy \in PolicyRow
  BY PageBounds DEF PageInv, PageTypeOK
<1>2. policy.allowed \in Nat
  BY <1>1 DEF PolicyRow
<1> QED
  BY <1>2 DEF AllowedExits, Chances, Most

WarningRow == [on : BOOLEAN, final : BOOLEAN, guessed : BOOLEAN]

LEMMA TypesStep == PageInv /\ [PageNext]_proctoredVars => PageTypeOK'
<1> SUFFICES ASSUME PageInv, [PageNext]_proctoredVars PROVE PageTypeOK'
  OBVIOUS
<1>1. /\ posts' \in [Posts -> PostRow] /\ begin' \in [Begins -> BeginRow] /\ srv' \in SrvRow
      /\ posts \in [Posts -> PostRow]
  BY PostsStep, BeginsStep, ServerForward DEF Forward, PageInv, PageTypeOK, PostRow
<1>2. /\ policy \in Policies /\ known \in {"none", "resolved", "fallback"}
      /\ ready \in BOOLEAN /\ camera \in BOOLEAN /\ verdict \in BOOLEAN
      /\ redirect \in BOOLEAN /\ late \in BOOLEAN
      /\ shown \in [count : Nat, chances : Nat] /\ warning \in WarningRow
      /\ where \in {"exam", "left"} /\ mishaps \in 0..MaxMishaps
  BY DEF PageInv, PageTypeOK, WarningRow
<1>3. policy' \in Policies /\ known' \in {"none", "resolved", "fallback"}
      /\ where' \in {"exam", "left"}
  <2>1. policy' = policy
    BY DEF PageNext, proctoredVars, PolicyLoads, Signal, ReturnToFullscreen, CameraReport,
       ServerRecords, ServerAnswers, PostLost, AnswerArrives, NoAnswer, PressStart,
       CameraGranted, SystemCheck, ServerStarts, Started, BeginFails, AttemptCloses,
       PageHeartbeat, Redirect, PageLeaves, Leave, ReloadPage
  <2>2. known' \in {known, "none", "resolved", "fallback"}
    BY ZenonT(60) DEF PageNext, proctoredVars, pageState, PolicyLoads, Signal, ReturnToFullscreen,
       CameraReport, ServerRecords, ServerAnswers, PostLost, AnswerArrives, NoAnswer,
       PressStart, CameraGranted, SystemCheck, ServerStarts, Started, BeginFails,
       AttemptCloses, PageHeartbeat, Redirect, PageLeaves, Leave, FreshPage, ReloadPage
  <2>3. where' \in {where, "left"}
    BY ZenonT(60) DEF PageNext, proctoredVars, pageState, PolicyLoads, Signal, ReturnToFullscreen,
       CameraReport, ServerRecords, ServerAnswers, PostLost, AnswerArrives, NoAnswer,
       PressStart, CameraGranted, SystemCheck, ServerStarts, Started, BeginFails,
       AttemptCloses, PageHeartbeat, Redirect, PageLeaves, Leave, Unmounted, ReloadPage
  <2> QED
    BY <1>2, <2>1, <2>2, <2>3
<1>4. shown' \in [count : Nat, chances : Nat]
  <2>1. \/ shown' = shown
        \/ \E how \in {"resolved", "fallback"} :
              shown' = [shown EXCEPT !.chances = AllowedExits(how)]
        \/ \E i \in Posts : shown' = [count |-> posts[i].count, chances |-> Chances(posts[i].count)]
        \/ shown' = [count |-> 0, chances |-> 2]
    BY ZenonT(60) DEF PageNext, proctoredVars, pageState, PolicyLoads, Signal, ReturnToFullscreen,
       CameraReport, ServerRecords, ServerAnswers, PostLost, AnswerArrives, NoAnswer,
       ShownAfter, PressStart, CameraGranted, SystemCheck, ServerStarts, Started, BeginFails,
       AttemptCloses, PageHeartbeat, Redirect, PageLeaves, Leave, FreshPage, ReloadPage
  <2>2. \A i \in Posts : posts[i].count \in Nat
    BY <1>1 DEF PostRow
  <2> QED
    BY <1>2, <2>1, <2>2, PolicyTyped
<1>5. warning' \in WarningRow
  <2>1. \/ warning' = warning
        \/ \E f, g \in BOOLEAN : warning' = [on |-> TRUE, final |-> f, guessed |-> g]
        \/ warning' = NoWarning
    <3>1. ASSUME NEW i \in Posts, AnswerArrives(i)
          PROVE  \/ warning' = warning
                 \/ \E f, g \in BOOLEAN : warning' = [on |-> TRUE, final |-> f, guessed |-> g]
      <4>1. \/ warning' = warning
            \/ warning' = [on |-> TRUE, final |-> TRUE, guessed |-> FALSE]
            \/ warning' = [on |-> TRUE, final |-> FinalAt(posts[i], posts[i].count),
                           guessed |-> posts[i].knew # "resolved"]
        BY <3>1 DEF AnswerArrives
      <4>2. /\ FinalAt(posts[i], posts[i].count) \in BOOLEAN
            /\ (posts[i].knew # "resolved") \in BOOLEAN
        BY DEF FinalAt
      <4> QED
        BY <4>1, <4>2, Zenon
    <3>2. ASSUME NEW i \in Posts, NoAnswer(i)
          PROVE  \/ warning' = warning
                 \/ \E f, g \in BOOLEAN : warning' = [on |-> TRUE, final |-> f, guessed |-> g]
      <4>1. \/ warning' = warning
            \/ warning' = [on |-> TRUE, final |-> FinalAt(posts[i], posts[i].base + 1),
                           guessed |-> TRUE]
        BY <3>2 DEF NoAnswer
      <4>2. FinalAt(posts[i], posts[i].base + 1) \in BOOLEAN
        BY SMTT(30) DEF FinalAt
      <4> QED
        BY <4>1, <4>2, Zenon
    <3>3. \/ warning' = warning \/ warning' = NoWarning
          \/ \E i \in Posts : AnswerArrives(i) \/ NoAnswer(i)
      BY DEF PageNext, proctoredVars, pageState, PolicyLoads, Signal, ReturnToFullscreen,
         CameraReport, ServerRecords, ServerAnswers, PostLost, PressStart, CameraGranted,
         SystemCheck, ServerStarts, Started, BeginFails, AttemptCloses, PageHeartbeat,
         Redirect, PageLeaves, Leave, FreshPage, ReloadPage
    <3> QED
      BY <3>1, <3>2, <3>3
  <2>2. NoWarning \in WarningRow
    BY DEF NoWarning, WarningRow
  <2>3. \A f, g \in BOOLEAN : [on |-> TRUE, final |-> f, guessed |-> g] \in WarningRow
    BY DEF WarningRow
  <2> QED
    BY <1>2, <2>1, <2>2, <2>3
<1>6. mishaps' \in 0..MaxMishaps
  <2>1. mishaps' = mishaps \/ Mishap(0) \/ Mishap(1)
    BY ZenonT(60) DEF PageNext, proctoredVars, PolicyLoads, Signal, ReturnToFullscreen, CameraReport,
       ServerRecords, ServerAnswers, PostLost, AnswerArrives, NoAnswer, PressStart,
       CameraGranted, SystemCheck, ServerStarts, Started, BeginFails, AttemptCloses,
       PageHeartbeat, Redirect, PageLeaves, Leave, ReloadPage
  <2> QED
    BY <1>2, <2>1, PageBounds DEF Mishap
<1>7. ready' \in BOOLEAN
  <2>1. \/ ready' = ready \/ ready' = FALSE \/ ready' = (where = "exam")
        \/ ready' = ~StrictMode'
    BY ZenonT(60) DEF PageNext, proctoredVars, pageState, PolicyLoads, Signal, ReturnToFullscreen,
       CameraReport, ServerRecords, ServerAnswers, PostLost, AnswerArrives, NoAnswer,
       PressStart, CameraGranted, SystemCheck, ServerStarts, Started, BeginFails,
       ReadyAfterFailure, AttemptCloses, PageHeartbeat, Redirect, PageLeaves, Leave,
       FreshPage, ReloadPage
  <2> QED
    BY <1>2, <2>1
<1>8. camera' \in BOOLEAN /\ late' \in BOOLEAN
  <2>1. \/ camera' = camera \/ camera' = TRUE \/ camera' = FALSE
        \/ \E ended \in BOOLEAN : camera' = ~ended
    BY ZenonT(60) DEF PageNext, proctoredVars, pageState, PolicyLoads, Signal, ReturnToFullscreen,
       CameraReport, ServerRecords, ServerAnswers, PostLost, AnswerArrives, NoAnswer,
       PressStart, CameraGranted, SystemCheck, ServerStarts, Started, BeginFails,
       AttemptCloses, PageHeartbeat, Redirect, PageLeaves, Leave, Unmounted, ReloadPage
  <2>2. late' = late \/ late' = (late \/ where = "left")
    BY ZenonT(60) DEF PageNext, proctoredVars, PolicyLoads, Signal, ReturnToFullscreen,
       CameraReport, ServerRecords, ServerAnswers, PostLost, AnswerArrives, NoAnswer,
       PressStart, CameraGranted, SystemCheck, ServerStarts, Started, BeginFails,
       AttemptCloses, PageHeartbeat, Redirect, PageLeaves, Leave, ReloadPage
  <2> QED
    BY <1>2, <2>1, <2>2
<1>9. verdict' \in BOOLEAN /\ redirect' \in BOOLEAN
  <2>1. verdict' \in {verdict, TRUE, FALSE} /\ redirect' \in {redirect, TRUE, FALSE}
    BY ZenonT(60) DEF PageNext, proctoredVars, pageState, PolicyLoads, Signal, ReturnToFullscreen,
       CameraReport, ServerRecords, ServerAnswers, PostLost, AnswerArrives, NoAnswer,
       PressStart, CameraGranted, SystemCheck, ServerStarts, Started, BeginFails,
       AttemptCloses, PageHeartbeat, Redirect, PageLeaves, Leave, FreshPage, ReloadPage
  <2> QED
    BY <1>2, <2>1
<1> QED
  BY <1>1, <1>3, <1>4, <1>5, <1>6, <1>7, <1>8, <1>9
     DEF PageTypeOK, PostRow, BeginRow, SrvRow, WarningRow

-----------------------------------------------------------------------------
(* What the page tells the student. *)

LEMMA HonestStep ==
  PageInv /\ [PageNext]_proctoredVars =>
    (VerdictIsServers /\ FinalWarningHonest /\ ShownCountBacked)'
<1> SUFFICES ASSUME PageInv, [PageNext]_proctoredVars
             PROVE  (VerdictIsServers /\ FinalWarningHonest /\ ShownCountBacked)'
  OBVIOUS
<1>1. /\ Forward /\ srv \in SrvRow /\ shown.count \in Nat /\ policy.allowed \in Nat
      /\ shown.count <= srv.count
      /\ \A i \in Posts : posts[i].count <= srv.count /\ posts[i].count \in Nat
  BY ServerForward, PolicyTyped
     DEF PageInv, PageTypeOK, SrvRow, ShownCountBacked, AnswersBacked
<1>2. policy' = policy
  BY DEF PageNext, proctoredVars, PolicyLoads, Signal, ReturnToFullscreen, CameraReport,
     ServerRecords, ServerAnswers, PostLost, AnswerArrives, NoAnswer, PressStart,
     CameraGranted, SystemCheck, ServerStarts, Started, BeginFails, AttemptCloses,
     PageHeartbeat, Redirect, PageLeaves, Leave, ReloadPage
<1>3. VerdictIsServers'
  <2>1. ASSUME NEW i \in Posts, AnswerArrives(i), verdict' PROVE verdict \/ posts[i].auto
    BY <2>1 DEF AnswerArrives, SubmittedBy
  <2>2. verdict' => verdict \/ \E i \in Posts : AnswerArrives(i)
    BY DEF PageNext, proctoredVars, pageState, PolicyLoads, Signal, ReturnToFullscreen,
       CameraReport, ServerRecords, ServerAnswers, PostLost, NoAnswer, PressStart,
       CameraGranted, SystemCheck, ServerStarts, Started, BeginFails, AttemptCloses,
       PageHeartbeat, Redirect, PageLeaves, Leave, FreshPage, ReloadPage
  <2> QED
    BY <1>1, <2>1, <2>2, Zenon
       DEF VerdictIsServers, Forward, PageInv, AnswersBacked
<1>4. ShownCountBacked'
  <2>1. \/ shown'.count = shown.count \/ shown'.count = 0
        \/ \E i \in Posts : shown'.count = posts[i].count
    <3>1. shown \in [count : Nat, chances : Nat]
      BY DEF PageInv, PageTypeOK
    <3>2. \/ shown' = shown
          \/ \E how \in {"resolved", "fallback"} :
                shown' = [shown EXCEPT !.chances = AllowedExits(how)]
          \/ \E i \in Posts :
                shown' = [count |-> posts[i].count, chances |-> Chances(posts[i].count)]
          \/ shown' = [count |-> 0, chances |-> 2]
      BY DEF PageNext, proctoredVars, pageState, PolicyLoads, Signal, ReturnToFullscreen,
         CameraReport, ServerRecords, ServerAnswers, PostLost, AnswerArrives, NoAnswer,
         ShownAfter, PressStart, CameraGranted, SystemCheck, ServerStarts, Started,
         BeginFails, AttemptCloses, PageHeartbeat, Redirect, PageLeaves, Leave, FreshPage,
         ReloadPage
    <3> QED
      BY <3>1, <3>2
  <2> QED
    BY <1>1, <2>1 DEF ShownCountBacked, Forward, SrvRow
<1>5. FinalWarningHonest'
  <2> DEFINE Final(w) == w.on /\ w.final /\ ~w.guessed
             AtLimit == srv.count >= policy.allowed \/ srv.state = "auto"
  <2>1. AtLimit => (srv'.count >= policy'.allowed \/ srv'.state = "auto")
    BY <1>1, <1>2 DEF Forward, SrvRow
  <2>2. ASSUME NEW i \in Posts, AnswerArrives(i), Final(warning'), warning' # warning
        PROVE  AtLimit
    <3>1. CASE posts[i].auto
      BY <3>1 DEF PageInv, AnswersBacked
    <3>2. CASE ~posts[i].auto
      <4>1. warning' = [on |-> TRUE, final |-> FinalAt(posts[i], posts[i].count),
                        guessed |-> posts[i].knew # "resolved"]
        BY <2>2, <3>2 DEF AnswerArrives, SubmittedBy
      <4>2. FinalAt(posts[i], posts[i].count) /\ posts[i].knew = "resolved"
        BY <2>2, <4>1
      <4>3. posts[i].count >= policy.allowed
        BY <4>2 DEF FinalAt, AllowedExits
      <4> QED
        BY <1>1, <4>3 DEF SrvRow
    <3> QED
      BY <3>1, <3>2
  <2>3. ASSUME NEW i \in Posts, NoAnswer(i), Final(warning') PROVE warning' = warning
    BY <2>3 DEF NoAnswer
  <2>4. \/ warning' = warning \/ warning' = NoWarning
        \/ \E i \in Posts : AnswerArrives(i) \/ NoAnswer(i)
    BY DEF PageNext, proctoredVars, pageState, PolicyLoads, Signal, ReturnToFullscreen,
       CameraReport, ServerRecords, ServerAnswers, PostLost, PressStart, CameraGranted,
       SystemCheck, ServerStarts, Started, BeginFails, AttemptCloses, PageHeartbeat,
       Redirect, PageLeaves, Leave, FreshPage, ReloadPage
  <2>5. ~Final(NoWarning)
    BY DEF NoWarning
  <2>6. Final(warning) => AtLimit
    BY DEF PageInv, FinalWarningHonest
  <2>7. Final(warning') => AtLimit
    <3> HIDE DEF AtLimit
    <3>1. warning' = NoWarning => ~Final(warning')
      BY <2>5
    <3>2. warning' = warning => (Final(warning') => AtLimit)
      BY <2>6
    <3> HIDE DEF Final
    <3> QED
      BY <2>2, <2>3, <2>4, <3>1, <3>2
  <2> QED
    BY <2>1, <2>7 DEF FinalWarningHonest
<1> QED
  BY <1>3, <1>4, <1>5

LEMMA ReadyStep == PageInv /\ [PageNext]_proctoredVars => ReadyMeansStarted'
<1> SUFFICES ASSUME PageInv, [PageNext]_proctoredVars PROVE ReadyMeansStarted'
  OBVIOUS
<1>1. srv.started => srv'.started
  BY ServerForward DEF Forward
<1>2. \A b \in Begins : begin'[b].at = "started" => srv'.started
  BY BeginsStep
<1>3. ready' /\ StrictMode' => (ready /\ StrictMode) \/ \E b \in Begins : Started(b)
  <2>1. ASSUME policy' = policy, known' = known PROVE StrictMode' => StrictMode
    BY <2>1 DEF StrictMode, Fetched, FullscreenRequired, CameraRequired
  <2>2. ready' => \/ ~StrictMode'
                  \/ ready /\ policy' = policy /\ known' = known
                  \/ \E b \in Begins : Started(b)
    BY ZenonT(60) DEF PageNext, proctoredVars, pageState, PolicyLoads, Signal, ReturnToFullscreen,
       CameraReport, ServerRecords, ServerAnswers, PostLost, AnswerArrives, NoAnswer,
       PressStart, CameraGranted, SystemCheck, ServerStarts, BeginFails, ReadyAfterFailure,
       AttemptCloses, PageHeartbeat, Redirect, PageLeaves, Leave, FreshPage, ReloadPage
  <2> QED
    BY <2>1, <2>2
<1>4. ASSUME NEW b \in Begins, Started(b) PROVE srv.started
  BY <1>4 DEF Started, BeginStep, PageInv, ReadyMeansStarted
<1> QED
  BY <1>1, <1>2, <1>3, <1>4 DEF PageInv, ReadyMeansStarted

LEMMA CameraStep == PageInv /\ [PageNext]_proctoredVars => CameraReleased'
<1> SUFFICES ASSUME PageInv, [PageNext]_proctoredVars, where' = "left", camera'
             PROVE  late'
  BY DEF CameraReleased
<1>1. late => late'
  BY ZenonT(60) DEF PageNext, proctoredVars, PolicyLoads, Signal, ReturnToFullscreen, CameraReport,
     ServerRecords, ServerAnswers, PostLost, AnswerArrives, NoAnswer, PressStart,
     CameraGranted, SystemCheck, ServerStarts, Started, BeginFails, AttemptCloses,
     PageHeartbeat, Redirect, PageLeaves, Leave, ReloadPage
<1>2. \/ where = "left" /\ camera
      \/ where = "left" /\ \E b \in Begins : CameraGranted(b)
      \/ where = "left" /\ \E ended \in BOOLEAN : CameraReport(ended)
  BY ZenonT(60) DEF PageNext, proctoredVars, pageState, PolicyLoads, Signal, ReturnToFullscreen,
     ServerRecords, ServerAnswers, PostLost, AnswerArrives, NoAnswer, PressStart,
     CameraGranted, CameraReport, SystemCheck, ServerStarts, Started, BeginFails,
     AttemptCloses, PageHeartbeat, Redirect, PageLeaves, Leave, Unmounted, ReloadPage
<1>3. where = "left" /\ camera => late
  BY DEF PageInv, CameraReleased
<1>4. ASSUME NEW b \in Begins, CameraGranted(b), where = "left" PROVE late'
  BY <1>4 DEF CameraGranted
<1>5. ASSUME NEW ended \in BOOLEAN, CameraReport(ended) PROVE camera
  BY <1>5 DEF CameraReport
<1> QED
  BY <1>1, <1>2, <1>3, <1>4, <1>5

-----------------------------------------------------------------------------
(* The theorems. *)

LEMMA PageStep == PageInv /\ [PageNext]_proctoredVars => PageInv'
<1> SUFFICES ASSUME PageInv, [PageNext]_proctoredVars PROVE PageInv'
  OBVIOUS
<1> QED
  BY TypesStep, ReadyStep, PostsStep, HonestStep, CameraStep DEF PageInv

LEMMA PageSafe == PageSpec => []PageInv
  BY PageStart, PageStep, PTL DEF PageSpec

\* Under a strict policy the page shows the questions only after the server
\* has started a session (beginProctoredAttempt), for any number of presses,
\* reloads and lost answers.
THEOREM StrictExam == PageSpec => []StrictNeedsStart
<1>1. PageInv => StrictNeedsStart
  BY DEF PageInv, ReadyMeansStarted, StrictNeedsStart, Visible
<1> QED
  BY <1>1, PageSafe, PTL

\* What the page tells the student is backed by the server, however many
\* answers are late, out of order or lost (recordProctoringEvent).
THEOREM Honesty == PageSpec => []PageHonest
<1>1. PageInv => PageHonest
  BY DEF PageInv, PageHonest
<1> QED
  BY <1>1, PageSafe, PTL

\* A page that was left keeps no camera but one granted afterwards.
THEOREM CameraOff == PageSpec => []CameraReleased
<1>1. PageInv => CameraReleased
  BY DEF PageInv
<1> QED
  BY <1>1, PageSafe, PTL

\* Both sides of a strict exam together, the property the runs check
\* (beginProctoredAttempt, stopCameraStream).
THEOREM Guarded == PageSpec => []ExamGuarded
<1>1. StrictNeedsStart /\ CameraReleased => ExamGuarded
  BY DEF ExamGuarded
<1> QED
  BY <1>1, StrictExam, CameraOff, PTL
=============================================================================
