--------------------------- MODULE Records_proofs ---------------------------
(***************************************************************************)
(* Proofs about answers and records: AnswerPage (the answers of the exam     *)
(* page, for any number of questions, edits, requests in flight and          *)
(* flushes), StudentPortal (what a student is shown, for any assessments,    *)
(* attempts and dates), Evidence (policies, evidence, retention jobs,        *)
(* reviews and risk scores, for any requests, rows and restarts), Grading    *)
(* (results, for any paper, answer sheet and reviews), and Reports with      *)
(* StaffViews (what is shown to whom, and the statistics, for any tables).   *)
(***************************************************************************)
EXTENDS AnswerPage, StaffViews, StudentPortal, Grading, SetFacts, SequenceTheorems

-----------------------------------------------------------------------------
(* AnswerPage. *)

(* Nothing on its way is newer than what the student chose.                *)
Bounded ==
    /\ \A q \in Questions : chosen[q] <= edits /\ queue[q] <= chosen[q]
    /\ timer # NoTimer => timer.edit <= chosen[timer.question]
    /\ \A m \in flight : m.edit <= chosen[m.question]
    /\ \A f \in Flushers : flush[f] # Idle =>
          \A q \in Questions : flush[f].items[q] <= chosen[q]
    /\ \A q \in Questions, n \in 1..MaxEdits :
          <<q, n>> \in accepted => n <= chosen[q]

(* The server has what it has confirmed.                                   *)
Recorded ==
    \A m \in flight : m.at = "applied" => <<m.question, m.edit>> \in accepted

(* A newest edit that was saved once is saved still, or was overtaken.     *)
Current ==
    \A q \in Questions :
        <<q, chosen[q]>> \in accepted => server[q] = chosen[q] \/ q \in lost

(* What a flush has passed is delivered.                                   *)
Delivered ==
    \A f \in Flushers : flush[f] # Idle =>
        \A q \in Questions :
            IF q \in flush[f].todo THEN flush[f].items[q] # 0
            ELSE flush[f].items[q] = 0 \/ <<q, flush[f].items[q]>> \in accepted

(* A flush has at most one request in flight, for the item it is at.       *)
OneAtATime ==
    \A f \in Flushers, m \in flight : m.via = f =>
        /\ flush[f] # Idle
        /\ m.question \in flush[f].todo
        /\ m.edit = flush[f].items[m.question]
        /\ \A n \in flight : n.via = f => n = m

(* What the posted submit had to deliver is delivered.                     *)
HandedOver ==
    \A q \in Questions : handed[q] = 0 \/ <<q, handed[q]>> \in accepted

IInv == /\ TypeOK /\ Bounded /\ Recorded /\ Current /\ Delivered /\ OneAtATime
        /\ HandedOver /\ AnswersAccounted

LEMMA PageInit == Init => IInv
<1> SUFFICES ASSUME Init PROVE IInv
  OBVIOUS
<1>1. 0 \in Edits /\ Blank \in Sheets
  BY PageAssumption DEF Blank, Sheets, Edits
<1>2. TypeOK
  BY <1>1 DEF Init, TypeOK
<1>3. \A q \in Questions : Blank[q] = 0
  BY DEF Blank
<1>4. Bounded /\ Recorded /\ Current /\ Delivered /\ OneAtATime /\ HandedOver
  BY <1>3
     DEF Init, Bounded, Recorded, Current, Delivered, OneAtATime, HandedOver
<1>5. AnswersAccounted
  BY DEF Init, AnswersAccounted
<1> QED
  BY <1>2, <1>4, <1>5 DEF IInv

LEMMA ScheduleStep ==
    ASSUME IInv, NEW q \in Questions, ScheduleSave(q)
    PROVE  IInv'
<1> USE PageAssumption
<1>1. edits' \in 1..MaxEdits /\ edits' = edits + 1 /\ edits \in Nat
  BY DEF ScheduleSave, IInv, TypeOK, Edits
<1>2. TypeOK'
  BY <1>1 DEF ScheduleSave, Displaced, IInv, TypeOK, Sheets, Edits, Answers
<1>3. \A r \in Questions : chosen'[r] = IF r = q THEN edits + 1 ELSE chosen[r]
  BY <1>1 DEF ScheduleSave, IInv, TypeOK, Sheets
<1>4. \A r \in Questions :
         chosen[r] \in Nat /\ chosen[r] <= edits /\ queue[r] \in Nat
  BY DEF IInv, TypeOK, Sheets, Edits, Bounded
<1>5. Bounded'
  <2>1. \A m \in flight' : m.edit <= chosen'[m.question]
    BY <1>1, <1>3, <1>4 DEF ScheduleSave, IInv, TypeOK, Bounded, Sends
  <2>2. \A f \in Flushers : flush'[f] # Idle =>
          \A r \in Questions : flush'[f].items[r] <= chosen'[r]
    BY <1>1, <1>3, <1>4
       DEF ScheduleSave, IInv, TypeOK, Bounded, Flushing, Sheets, Edits
  <2>3. \A r \in Questions, n \in 1..MaxEdits :
          <<r, n>> \in accepted' => n <= chosen'[r]
    BY <1>1, <1>3, <1>4 DEF ScheduleSave, IInv, Bounded
  <2>4. timer'.edit <= chosen'[timer'.question]
    BY <1>1, <1>3 DEF ScheduleSave
  <2> QED
    BY <1>1, <1>3, <1>4, <2>1, <2>2, <2>3, <2>4
       DEF ScheduleSave, IInv, Bounded
<1>6. Current'
  BY <1>1, <1>3, <1>4 DEF ScheduleSave, IInv, Current, Bounded
<1>7. AnswersAccounted'
  <2> SUFFICES ASSUME NEW r \in Questions, r \notin lost'
               PROVE  server'[r] = chosen'[r] \/ OnItsWay(r)'
    BY DEF AnswersAccounted
  <2>1. CASE r = q
    BY <1>1, <1>3, <2>1 DEF ScheduleSave, OnItsWay
  <2>2. CASE r # q
    <3>1. chosen'[r] = chosen[r] /\ r \notin lost
      BY <1>3, <2>2 DEF ScheduleSave
    <3>2. timer # [question |-> r, edit |-> chosen[r]]
      BY <2>2, <1>4 DEF ScheduleSave, Displaced
    <3> QED
      BY <3>1, <3>2 DEF ScheduleSave, IInv, AnswersAccounted, OnItsWay
  <2> QED
    BY <2>1, <2>2
<1> QED
  BY <1>2, <1>5, <1>6, <1>7
     DEF ScheduleSave, IInv, Recorded, Delivered, OneAtATime, HandedOver

LEMMA ClearStep ==
    ASSUME IInv, NEW q \in Questions, ClearAnswer(q)
    PROVE  IInv'
<1> USE PageAssumption
<1> DEFINE new == Request(q, edits', "clear")
<1>1. edits' \in 1..MaxEdits /\ edits' = edits + 1 /\ edits \in Nat
  BY DEF ClearAnswer, IInv, TypeOK, Edits
<1>2. /\ new \in Sends /\ new.question = q /\ new.edit = edits'
      /\ new.via = "clear" /\ new.at = "sent" /\ flight' = flight \cup {new}
  BY <1>1 DEF ClearAnswer, Request, Sends
<1> HIDE DEF new
<1>3. TypeOK'
  BY <1>1, <1>2 DEF ClearAnswer, IInv, TypeOK, Sheets, Edits
<1>4. \A r \in Questions : chosen'[r] = IF r = q THEN edits + 1 ELSE chosen[r]
  BY <1>1 DEF ClearAnswer, IInv, TypeOK, Sheets
<1>5. \A r \in Questions :
         chosen[r] \in Nat /\ chosen[r] <= edits /\ queue[r] \in Nat
  BY DEF IInv, TypeOK, Sheets, Edits, Bounded
<1>6. Bounded'
  <2>1. \A m \in flight' : m.edit <= chosen'[m.question]
    BY <1>1, <1>2, <1>4, <1>5 DEF IInv, TypeOK, Bounded, Sends
  <2>2. \A f \in Flushers : flush'[f] # Idle =>
          \A r \in Questions : flush'[f].items[r] <= chosen'[r]
    BY <1>1, <1>4, <1>5
       DEF ClearAnswer, IInv, TypeOK, Bounded, Flushing, Sheets, Edits
  <2>3. \A r \in Questions, n \in 1..MaxEdits :
          <<r, n>> \in accepted' => n <= chosen'[r]
    BY <1>1, <1>4, <1>5 DEF ClearAnswer, IInv, Bounded
  <2>4. timer' # NoTimer => timer'.edit <= chosen'[timer'.question]
    BY <1>1, <1>4, <1>5 DEF ClearAnswer, IInv, TypeOK, Answers, Bounded
  <2> QED
    BY <1>1, <1>4, <1>5, <2>1, <2>2, <2>3, <2>4
       DEF ClearAnswer, IInv, Bounded
<1>7. Current'
  BY <1>1, <1>4, <1>5 DEF ClearAnswer, IInv, Current, Bounded
<1>8. AnswersAccounted'
  <2> SUFFICES ASSUME NEW r \in Questions, r \notin lost'
               PROVE  server'[r] = chosen'[r] \/ OnItsWay(r)'
    BY DEF AnswersAccounted
  <2>1. CASE r = q
    BY <1>1, <1>2, <1>4, <2>1 DEF OnItsWay
  <2>2. CASE r # q
    BY <1>2, <1>4, <2>2 DEF ClearAnswer, IInv, AnswersAccounted, OnItsWay
  <2> QED
    BY <2>1, <2>2
<1>9. Recorded' /\ OneAtATime'
  BY <1>2 DEF ClearAnswer, IInv, Recorded, OneAtATime
<1> QED
  BY <1>3, <1>6, <1>7, <1>8, <1>9 DEF ClearAnswer, IInv, Delivered, HandedOver

LEMMA SendStep ==
    ASSUME IInv, SendSave
    PROVE  IInv'
<1> USE PageAssumption
<1> DEFINE new == Request(timer.question, timer.edit, "save")
<1>1. timer \in Answers /\ timer # NoTimer
  BY DEF SendSave, IInv, TypeOK
<1>2. /\ new \in Sends /\ new.question = timer.question
      /\ new.edit = timer.edit /\ new.via = "save" /\ new.at = "sent"
      /\ flight' = flight \cup {new} /\ timer' = NoTimer
  BY <1>1 DEF SendSave, Request, Sends, Answers
<1> HIDE DEF new
<1>3. TypeOK'
  BY <1>2 DEF SendSave, IInv, TypeOK
<1>4. Bounded' /\ Recorded' /\ OneAtATime'
  BY <1>1, <1>2 DEF SendSave, IInv, Bounded, Recorded, OneAtATime
<1>5. AnswersAccounted'
  <2> SUFFICES ASSUME NEW r \in Questions, r \notin lost'
               PROVE  server'[r] = chosen'[r] \/ OnItsWay(r)'
    BY DEF AnswersAccounted
  <2>1. CASE timer = [question |-> r, edit |-> chosen[r]]
    <3>1. new \in flight' /\ new.question = r /\ new.edit = chosen'[r]
      BY <1>2, <2>1 DEF SendSave
    <3> QED
      BY <1>2, <3>1 DEF OnItsWay
  <2>2. CASE timer # [question |-> r, edit |-> chosen[r]]
    BY <1>2, <2>2 DEF SendSave, IInv, AnswersAccounted, OnItsWay
  <2> QED
    BY <2>1, <2>2
<1> QED
  BY <1>3, <1>4, <1>5 DEF SendSave, IInv, Current, Delivered, HandedOver

LEMMA ServerStep ==
    ASSUME IInv, NEW m \in flight, ServerSaves(m)
    PROVE  IInv'
<1> USE PageAssumption
<1> DEFINE done == [m EXCEPT !.at = "applied"]
<1>1. /\ m \in Sends /\ m.question \in Questions /\ m.edit \in 1..MaxEdits
      /\ m.edit <= chosen[m.question] /\ m.edit \in Nat
  BY DEF IInv, TypeOK, Sends, Bounded
<1>2. /\ done \in Sends /\ done.question = m.question
      /\ done.edit = m.edit /\ done.via = m.via
  BY <1>1 DEF Sends
<1>3. /\ flight' \subseteq (flight \ {m}) \cup {done}
      /\ flight \ {m} \subseteq flight'
      /\ m.via # "orphan" => done \in flight'
  BY DEF ServerSaves
<1> HIDE DEF done
<1>4. \A q \in Questions :
         server'[q] = IF q = m.question THEN m.edit ELSE server[q]
  BY DEF ServerSaves, IInv, TypeOK, Sheets
<1>5. /\ accepted' = accepted \cup {<<m.question, m.edit>>}
      /\ lost \subseteq lost'
  BY DEF ServerSaves
<1>6. \A q \in Questions : chosen[q] \in Nat /\ server[q] \in Nat
  BY DEF IInv, TypeOK, Sheets, Edits
<1>7. TypeOK'
  BY <1>1, <1>2, <1>3 DEF ServerSaves, Overtaken, IInv, TypeOK, Sheets, Edits
<1>8. Bounded' /\ Recorded'
  BY <1>1, <1>2, <1>3, <1>5 DEF ServerSaves, IInv, Bounded, Recorded
<1>9. \A q \in Questions : server[q] = chosen[q] =>
         server'[q] = chosen[q] \/ q \in lost'
  BY <1>1, <1>4, <1>6 DEF ServerSaves, Overtaken
<1>10. Current'
  BY <1>1, <1>4, <1>5, <1>9 DEF ServerSaves, IInv, Current
<1>11. Delivered' /\ HandedOver'
  BY <1>5 DEF ServerSaves, IInv, Delivered, HandedOver
<1>12. OneAtATime'
  BY <1>2, <1>3 DEF ServerSaves, IInv, OneAtATime
<1>13. AnswersAccounted'
  <2> SUFFICES ASSUME NEW q \in Questions, q \notin lost'
               PROVE  server'[q] = chosen'[q] \/ OnItsWay(q)'
    BY DEF AnswersAccounted
  <2>1. CASE m.question = q /\ m.edit = chosen[q]
    BY <1>4, <2>1 DEF ServerSaves
  <2>2. CASE ~(m.question = q /\ m.edit = chosen[q])
    BY <1>3, <1>5, <1>9, <2>2
       DEF ServerSaves, IInv, AnswersAccounted, OnItsWay
  <2> QED
    BY <2>1, <2>2
<1> QED
  BY <1>7, <1>8, <1>10, <1>11, <1>12, <1>13 DEF IInv

LEMMA GiveUpIs ==
    ASSUME IInv, NEW m \in flight, GiveUp(m)
    PROVE  /\ flight' \subseteq Sends
           /\ \A n \in flight : n # m => n \in flight'
           /\ \A n \in flight' :
                 \/ n \in flight /\ n # m
                 \/ /\ n.via = "orphan" /\ n.at = "sent"
                    /\ n.question = m.question /\ n.edit = m.edit
<1>1. flight \subseteq Sends /\ m \in Sends
  BY DEF IInv, TypeOK
<1>2. /\ Orphan(m) \in Sends /\ Orphan(m).via = "orphan"
      /\ Orphan(m).at = "sent" /\ Orphan(m).question = m.question
      /\ Orphan(m).edit = m.edit
  BY <1>1 DEF Orphan, Request, Sends
<1> QED
  BY <1>1, <1>2 DEF GiveUp

LEMMA SucceedStep ==
    ASSUME IInv, NEW m \in flight, SaveSucceeds(m)
    PROVE  IInv'
<1>1. m \in Sends /\ m.question \in Questions
  BY DEF IInv, TypeOK, Sends
<1>2. TypeOK' /\ Bounded' /\ Recorded' /\ OneAtATime'
  BY DEF SaveSucceeds, IInv, TypeOK, Bounded, Recorded, OneAtATime
<1>3. AnswersAccounted'
  <2> SUFFICES ASSUME NEW q \in Questions, q \notin lost'
               PROVE  server'[q] = chosen'[q] \/ OnItsWay(q)'
    BY DEF AnswersAccounted
  <2>1. CASE m.question = q /\ m.edit = chosen[q]
    BY <2>1 DEF SaveSucceeds, IInv, Recorded, Current
  <2>2. CASE ~(m.question = q /\ m.edit = chosen[q])
    BY <2>2 DEF SaveSucceeds, IInv, AnswersAccounted, OnItsWay
  <2> QED
    BY <2>1, <2>2
<1> QED
  BY <1>2, <1>3 DEF SaveSucceeds, IInv, Current, Delivered, HandedOver

LEMMA FailStep ==
    ASSUME IInv, NEW m \in flight, SaveFails(m)
    PROVE  IInv'
<1> USE PageAssumption
<1>1. /\ m \in Sends /\ m.question \in Questions /\ m.edit \in 1..MaxEdits
      /\ m.edit <= chosen[m.question] /\ m.edit \in Nat
  BY DEF IInv, TypeOK, Sends, Bounded
<1>2. /\ flight' \subseteq Sends
      /\ \A n \in flight : n # m => n \in flight'
      /\ \A n \in flight' :
            \/ n \in flight /\ n # m
            \/ /\ n.via = "orphan" /\ n.at = "sent"
               /\ n.question = m.question /\ n.edit = m.edit
  BY GiveUpIs DEF SaveFails
<1>3. \A q \in Questions :
         queue'[q] = IF q = m.question THEN m.edit ELSE queue[q]
  BY DEF SaveFails, IInv, TypeOK, Sheets
<1>4. TypeOK'
  BY <1>1, <1>2 DEF SaveFails, Requeued, IInv, TypeOK, Sheets, Edits
<1>5. Bounded' /\ Recorded' /\ OneAtATime'
  BY <1>1, <1>2, <1>3 DEF SaveFails, IInv, Bounded, Recorded, OneAtATime
<1>6. AnswersAccounted'
  <2> SUFFICES ASSUME NEW q \in Questions, q \notin lost'
               PROVE  server'[q] = chosen'[q] \/ OnItsWay(q)'
    BY DEF AnswersAccounted
  <2>1. CASE m.question = q /\ m.edit = chosen[q]
    BY <1>3, <2>1 DEF SaveFails, OnItsWay
  <2>2. CASE m.question = q /\ m.edit # chosen[q]
    <3>1. queue[q] # chosen[q]
      BY <1>1, <2>2 DEF SaveFails, Requeued, IInv, TypeOK, Sheets, Edits
    <3> QED
      BY <1>2, <2>2, <3>1 DEF SaveFails, IInv, AnswersAccounted, OnItsWay
  <2>3. CASE m.question # q
    BY <1>2, <1>3, <2>3 DEF SaveFails, IInv, AnswersAccounted, OnItsWay
  <2> QED
    BY <2>1, <2>2, <2>3
<1> QED
  BY <1>4, <1>5, <1>6 DEF SaveFails, IInv, Current, Delivered, HandedOver

LEMMA ClearSettlesStep ==
    ASSUME IInv, NEW m \in flight, ClearSettles(m)
    PROVE  IInv'
<1>1. m \in Sends /\ m.question \in Questions
  BY DEF IInv, TypeOK, Sends
<1>2. CASE m.at = "applied" /\ flight' = flight \ {m} /\ UNCHANGED lost
  <2>1. TypeOK' /\ Bounded' /\ Recorded' /\ OneAtATime'
    BY <1>2 DEF ClearSettles, IInv, TypeOK, Bounded, Recorded, OneAtATime
  <2>2. AnswersAccounted'
    <3> SUFFICES ASSUME NEW q \in Questions, q \notin lost'
                 PROVE  server'[q] = chosen'[q] \/ OnItsWay(q)'
      BY DEF AnswersAccounted
    <3>1. CASE m.question = q /\ m.edit = chosen[q]
      BY <1>2, <3>1 DEF ClearSettles, IInv, Recorded, Current
    <3>2. CASE ~(m.question = q /\ m.edit = chosen[q])
      BY <1>2, <3>2 DEF ClearSettles, IInv, AnswersAccounted, OnItsWay
    <3> QED
      BY <3>1, <3>2
  <2> QED
    BY <1>2, <2>1, <2>2 DEF ClearSettles, IInv, Current, Delivered, HandedOver
<1>3. CASE GiveUp(m) /\ lost' = lost \cup {m.question}
  <2>1. /\ flight' \subseteq Sends
        /\ \A n \in flight : n # m => n \in flight'
        /\ \A n \in flight' :
              \/ n \in flight /\ n # m
              \/ /\ n.via = "orphan" /\ n.at = "sent"
                 /\ n.question = m.question /\ n.edit = m.edit
    BY <1>3, GiveUpIs
  <2>2. TypeOK'
    BY <1>1, <1>3, <2>1 DEF ClearSettles, IInv, TypeOK
  <2>3. Bounded' /\ Recorded' /\ OneAtATime'
    BY <2>1, PageAssumption
       DEF ClearSettles, IInv, Bounded, Recorded, OneAtATime
  <2>4. AnswersAccounted'
    BY <1>3, <2>1 DEF ClearSettles, IInv, AnswersAccounted, OnItsWay
  <2> QED
    BY <1>3, <2>2, <2>3, <2>4
       DEF ClearSettles, IInv, Current, Delivered, HandedOver
<1> QED
  BY <1>2, <1>3 DEF ClearSettles

LEMMA VanishStep ==
    ASSUME IInv, NEW m \in flight, Vanish(m)
    PROVE  IInv'
<1>1. TypeOK' /\ Bounded' /\ Recorded' /\ OneAtATime'
  BY DEF Vanish, IInv, TypeOK, Bounded, Recorded, OneAtATime
<1>2. AnswersAccounted'
  BY DEF Vanish, IInv, AnswersAccounted, OnItsWay
<1> QED
  BY <1>1, <1>2 DEF Vanish, IInv, Current, Delivered, HandedOver

LEMMA StartFlushStep ==
    ASSUME IInv, NEW f \in Flushers, NEW q \in Questions,
           NEW then \in {"nothing", "submit"}, StartFlush(f, q, then)
    PROVE  IInv'
<1> USE PageAssumption
<1> DEFINE new == Request(q, queue[q], f)
           pass == [op |-> "flush", items |-> queue, todo |-> Queued,
                   then |-> then]
<1>1. queue[q] \in 1..MaxEdits /\ q \in Queued
  BY DEF StartFlush, Queued, IInv, TypeOK, Sheets, Edits
<1>2. /\ new \in Sends /\ new.question = q /\ new.edit = queue[q]
      /\ new.via = f /\ new.at = "sent" /\ flight' = flight \cup {new}
  BY <1>1 DEF StartFlush, Request, Sends
<1>3. /\ pass \in Flushing /\ pass # Idle
      /\ pass.items = queue /\ pass.todo = Queued
  BY DEF Flushing, Queued, IInv, TypeOK, Idle
<1> HIDE DEF new, pass
<1>4. \A g \in Flushers : flush'[g] = IF g = f THEN pass ELSE flush[g]
  BY DEF StartFlush, IInv, TypeOK, pass
<1>5. flush' \in [Flushers -> {Idle} \cup Flushing]
  BY <1>3 DEF StartFlush, IInv, TypeOK, pass
<1>6. TypeOK'
  BY <1>2, <1>5 DEF StartFlush, IInv, TypeOK
<1>7. Bounded' /\ Recorded'
  BY <1>2, <1>3, <1>4 DEF StartFlush, IInv, Bounded, Recorded
<1>8. Delivered'
  BY <1>3, <1>4 DEF StartFlush, IInv, Delivered, Queued
<1>9. \A n \in flight : n.via # f
  BY DEF StartFlush, IInv, OneAtATime
<1>10. OneAtATime'
  BY <1>1, <1>2, <1>3, <1>4, <1>9 DEF IInv, OneAtATime
<1>11. AnswersAccounted'
  BY <1>2 DEF StartFlush, IInv, AnswersAccounted, OnItsWay
<1> QED
  BY <1>6, <1>7, <1>8, <1>10, <1>11
     DEF StartFlush, IInv, Current, HandedOver

LEMMA FlushNextStep ==
    ASSUME IInv, NEW f \in Flushers, NEW m \in flight, NEW q \in Questions,
           FlushNext(f, m, q)
    PROVE  IInv'
<1> USE PageAssumption
<1> DEFINE new == Request(q, flush[f].items[q], f)
<1>1. /\ flush[f] \in Flushing /\ flush[f] # Idle
      /\ q \in flush[f].todo /\ q # m.question
  BY DEF FlushNext, IInv, TypeOK
<1>2. flush[f].items[q] \in 1..MaxEdits
  <2>1. flush[f].items[q] \in 0..MaxEdits
    BY <1>1 DEF Flushing, Sheets, Edits
  <2>2. flush[f].items[q] # 0
    BY <1>1 DEF IInv, Delivered
  <2> QED
    BY <2>1, <2>2
<1>3. /\ new \in Sends /\ new.question = q /\ new.edit = flush[f].items[q]
      /\ new.via = f /\ new.at = "sent"
      /\ flight' = (flight \ {m}) \cup {new}
  BY <1>2 DEF FlushNext, Request, Sends
<1> HIDE DEF new
<1>4. /\ flush'[f] \in Flushing /\ flush'[f].items = flush[f].items
      /\ flush'[f].todo = flush[f].todo \ {m.question}
      /\ \A g \in Flushers : g # f => flush'[g] = flush[g]
  BY <1>1 DEF FlushNext, IInv, TypeOK, Flushing
<1>5. flush'[f] # Idle
  BY <1>4 DEF Flushing, Idle
<1>6. TypeOK'
  <2>1. flush' \in [Flushers -> {Idle} \cup Flushing]
    BY <1>4 DEF FlushNext, IInv, TypeOK
  <2> QED
    BY <1>3, <2>1 DEF FlushNext, IInv, TypeOK
<1>7. Bounded' /\ Recorded'
  BY <1>1, <1>3, <1>4 DEF FlushNext, IInv, Bounded, Recorded
<1>8. /\ m.edit = flush[f].items[m.question]
      /\ \A n \in flight : n.via = f => n = m
      /\ <<m.question, m.edit>> \in accepted
  BY DEF FlushNext, IInv, OneAtATime, Recorded
<1>9. Delivered'
  BY <1>1, <1>4, <1>8 DEF FlushNext, IInv, Delivered
<1>10. OneAtATime'
  BY <1>1, <1>3, <1>4, <1>5, <1>8 DEF IInv, OneAtATime
<1>11. AnswersAccounted'
  BY <1>3 DEF FlushNext, IInv, AnswersAccounted, OnItsWay
<1> QED
  BY <1>6, <1>7, <1>9, <1>10, <1>11
     DEF FlushNext, IInv, Current, HandedOver

LEMMA FlushEndsStep ==
    ASSUME IInv, NEW f \in Flushers, NEW m \in flight, FlushEnds(f, m)
    PROVE  IInv'
<1> USE PageAssumption
<1>1. flush[f] \in Flushing /\ flush[f] # Idle /\ flush[f].items \in Sheets
  BY DEF FlushEnds, IInv, TypeOK, Flushing
<1>2. /\ m.edit = flush[f].items[m.question]
      /\ \A n \in flight : n.via = f => n = m
      /\ <<m.question, m.edit>> \in accepted
  BY DEF FlushEnds, IInv, OneAtATime, Recorded
<1>3. \A q \in Questions :
         \/ flush[f].items[q] = 0
         \/ <<q, flush[f].items[q]>> \in accepted
  BY <1>1, <1>2 DEF FlushEnds, IInv, Delivered
<1>4. \A g \in Flushers : flush'[g] = IF g = f THEN Idle ELSE flush[g]
  BY DEF FlushEnds, IInv, TypeOK
<1>5. Blank \in Sheets /\ \A q \in Questions : queue'[q] = 0
  BY DEF FlushEnds, Blank, Sheets, Edits
<1>6. TypeOK' /\ HandedOver'
  <2>1. (submit' = "posted" /\ handed' = flush[f].items)
           \/ (submit' = submit /\ handed' = handed)
    BY DEF FlushEnds, PostIf
  <2>2. flush' \in [Flushers -> {Idle} \cup Flushing]
    BY DEF FlushEnds, IInv, TypeOK
  <2>3. TypeOK'
    BY <1>1, <1>5, <2>1, <2>2
       DEF FlushEnds, Dropped, Queued, IInv, TypeOK
  <2>4. HandedOver'
    BY <1>3, <2>1 DEF FlushEnds, IInv, HandedOver
  <2> QED
    BY <2>3, <2>4
<1>7. Bounded' /\ Recorded'
  BY <1>4, <1>5
     DEF FlushEnds, IInv, TypeOK, Sheets, Edits, Bounded, Recorded
<1>8. Delivered' /\ OneAtATime' /\ Current'
  BY <1>2, <1>4 DEF FlushEnds, IInv, Delivered, OneAtATime, Current
<1>9. AnswersAccounted'
  <2> SUFFICES ASSUME NEW q \in Questions, q \notin lost'
               PROVE  server'[q] = chosen'[q] \/ OnItsWay(q)'
    BY DEF AnswersAccounted
  <2>1. CASE queue[q] = chosen[q] /\ queue[q] # 0
    <3>1. flush[f].items[q] = chosen[q]
      BY <2>1 DEF FlushEnds, Dropped, Queued
    <3> QED
      BY <1>3, <2>1, <3>1 DEF FlushEnds, IInv, Current
  <2>2. CASE queue[q] = chosen[q] /\ queue[q] = 0
    BY <1>5, <2>2 DEF FlushEnds, OnItsWay
  <2>3. CASE queue[q] # chosen[q]
    BY <2>3 DEF FlushEnds, IInv, AnswersAccounted, OnItsWay
  <2> QED
    BY <2>1, <2>2, <2>3
<1> QED
  BY <1>6, <1>7, <1>8, <1>9 DEF IInv

LEMMA FlushFailsStep ==
    ASSUME IInv, NEW f \in Flushers, NEW m \in flight, FlushFails(f, m)
    PROVE  IInv'
<1> USE PageAssumption
<1>1. /\ flight' \subseteq Sends
      /\ \A n \in flight : n # m => n \in flight'
      /\ \A n \in flight' :
            \/ n \in flight /\ n # m
            \/ /\ n.via = "orphan" /\ n.at = "sent"
               /\ n.question = m.question /\ n.edit = m.edit
  BY GiveUpIs DEF FlushFails
<1>2. \A g \in Flushers : flush'[g] = IF g = f THEN Idle ELSE flush[g]
  BY DEF FlushFails, IInv, TypeOK
<1>3. TypeOK'
  BY <1>1 DEF FlushFails, IInv, TypeOK
<1>4. Bounded' /\ Recorded' /\ Delivered'
  BY <1>1, <1>2 DEF FlushFails, IInv, Bounded, Recorded, Delivered
<1>5. OneAtATime'
  BY <1>1, <1>2 DEF FlushFails, IInv, OneAtATime
<1>6. AnswersAccounted'
  BY <1>1 DEF FlushFails, IInv, AnswersAccounted, OnItsWay
<1> QED
  BY <1>3, <1>4, <1>5, <1>6 DEF FlushFails, IInv, Current, HandedOver

LEMMA ReloadStep ==
    ASSUME IInv, Reload
    PROVE  IInv'
<1> USE PageAssumption
<1>1. \A n \in flight' :
         /\ n \in Sends /\ n.via = "orphan" /\ n.at = "sent"
         /\ \E m \in flight : n.question = m.question /\ n.edit = m.edit
  BY DEF Reload, Orphan, Request, Sends, IInv, TypeOK
<1>2. lost \subseteq lost' /\ lost' \subseteq Questions
  BY DEF Reload, Waiting, IInv, TypeOK, Sends, Answers
<1>3. Blank \in Sheets /\ \A q \in Questions : handed'[q] = 0
  BY DEF Reload, Blank, Sheets, Edits
<1>4. TypeOK'
  BY <1>1, <1>2, <1>3 DEF Reload, IInv, TypeOK
<1>5. \A g \in Flushers : flush'[g] = Idle
  BY DEF Reload
<1>6. Bounded' /\ Recorded' /\ Delivered' /\ OneAtATime'
  BY <1>1, <1>5 DEF Reload, IInv, Bounded, Recorded, Delivered, OneAtATime
<1>7. AnswersAccounted'
  <2> SUFFICES ASSUME NEW q \in Questions, q \notin lost'
               PROVE  server'[q] = chosen'[q] \/ OnItsWay(q)'
    BY DEF AnswersAccounted
  <2>1. timer # [question |-> q, edit |-> chosen[q]]
    BY DEF Reload, IInv, TypeOK, Sheets, Edits
  <2>2. \A m \in flight : m.via \in {"save", "clear"} => m.question # q
    BY DEF Reload, Waiting
  <2> QED
    BY <1>2, <2>1, <2>2 DEF Reload, IInv, AnswersAccounted, OnItsWay
<1> QED
  BY <1>2, <1>3, <1>4, <1>6, <1>7 DEF Reload, IInv, Current, HandedOver

\* The steps that touch neither answers nor requests.
LEMMA PageStep ==
    ASSUME IInv, \/ ServerCloses \/ FinalSubmitEmpty \/ TimeUp
                 \/ SubmitSucceeds \/ SubmitFails \/ Poll
                 \/ UNCHANGED vars
    PROVE  IInv'
<1> DEFINE answers == <<edits, chosen, timer, flight, queue, flush, server,
                        accepted, lost>>
<1>1. Blank \in Sheets /\ \A q \in Questions : Blank[q] = 0
  BY PageAssumption DEF Blank, Sheets, Edits
<1>2. UNCHANGED answers /\ handed' \in {handed, Blank}
  BY DEF ServerCloses, FinalSubmitEmpty, TimeUp, SubmitSucceeds, SubmitFails,
         Poll, vars
<1>3. /\ saveState' = saveState
      /\ page' \in {"exam", "left"} /\ submit' \in {"none", "posted"}
      /\ timedOut' \in BOOLEAN /\ open' \in BOOLEAN
  BY DEF ServerCloses, FinalSubmitEmpty, TimeUp, SubmitSucceeds, SubmitFails,
         Poll, vars, IInv, TypeOK
<1>4. TypeOK'
  BY <1>1, <1>2, <1>3 DEF IInv, TypeOK
<1>5. Bounded' /\ Recorded' /\ Current' /\ Delivered' /\ OneAtATime'
  BY <1>2 DEF IInv, Bounded, Recorded, Current, Delivered, OneAtATime
<1>6. HandedOver' /\ AnswersAccounted'
  BY <1>1, <1>2 DEF IInv, HandedOver, AnswersAccounted, OnItsWay
<1> QED
  BY <1>4, <1>5, <1>6 DEF IInv

LEMMA NextStep == IInv /\ [Next]_vars => IInv'
<1> SUFFICES ASSUME IInv, [Next]_vars PROVE IInv'
  OBVIOUS
<1>1. ASSUME NEW q \in Questions, ScheduleSave(q) \/ ClearAnswer(q)
      PROVE  IInv'
  BY <1>1, ScheduleStep, ClearStep
<1>2. CASE SendSave
  BY <1>2, SendStep
<1>3. CASE SettleSave
  BY <1>3, SucceedStep, FailStep DEF SettleSave
<1>4. ASSUME NEW m \in flight,
             ServerSaves(m) \/ Vanish(m) \/ ClearSettles(m)
      PROVE  IInv'
  BY <1>4, ServerStep, VanishStep, ClearSettlesStep
<1>5. ASSUME NEW f \in Flushers, NEW q \in Questions,
             Online(f, q) \/ FinalSubmit(f, q)
      PROVE  IInv'
  BY <1>5, StartFlushStep DEF Online, FinalSubmit
<1>6. ASSUME NEW f \in Flushers, NEW m \in flight,
             \/ FlushEnds(f, m) \/ FlushFails(f, m)
             \/ \E q \in Questions : FlushNext(f, m, q)
      PROVE  IInv'
  BY <1>6, FlushEndsStep, FlushFailsStep, FlushNextStep
<1>7. CASE Reload
  BY <1>7, ReloadStep
<1>8. CASE \/ ServerCloses \/ FinalSubmitEmpty \/ TimeUp
           \/ SubmitSucceeds \/ SubmitFails \/ Poll \/ UNCHANGED vars
  BY <1>8, PageStep
<1> QED
  BY <1>1, <1>2, <1>3, <1>4, <1>5, <1>6, <1>7, <1>8 DEF Next

LEMMA PageInvariant == Spec => []IInv
  BY PageInit, NextStep, PTL DEF Spec

-----------------------------------------------------------------------------

(* The variables of the page, the network and the server keep their types  *)
(* (scheduleSave, flushQueue, submit and saveAnswer).                      *)
THEOREM TypeCorrect == Spec => []TypeOK
<1>1. IInv => TypeOK
  BY DEF IInv
<1> QED
  BY <1>1, PageInvariant, PTL

(* The newest edit of every question is saved, on its way or in the retry  *)
(* queue, unless one of the listed losses happened (scheduleSave, enqueue, *)
(* flushQueue), whatever the network delays, reorders or loses.            *)
THEOREM Accounted == Spec => []AnswersAccounted
<1>1. IInv => AnswersAccounted
  BY DEF IInv
<1> QED
  BY <1>1, PageInvariant, PTL

(* submit sends its request only when every answer that flushQueue found   *)
(* in the retry queue has been saved by the server.                        *)
THEOREM SubmitAfterQueue == Spec => []SubmitDelivers
<1>1. IInv => SubmitDelivers
  BY DEF IInv, HandedOver, SubmitDelivers
<1> QED
  BY <1>1, PageInvariant, PTL

(***************************************************************************)
(* The student portal.                                                     *)
(***************************************************************************)

Statuses == {"IN_PROGRESS", "CANCELLED", "UNDER_REVIEW", "EVALUATED"}
Evaluations == {"NONE", "PENDING_REVIEW", "READY", "PUBLISHED"}
Tries == [status : Statuses, createdAt : Nat, expiresAt : Nat, evaluation : Evaluations,
          score : Nat, published : BOOLEAN]
Pages == [step : {"find", "page", "update"}, op : {"detail", "attempt"}, n : Nat,
          published : BOOLEAN, ids : SUBSET Nat, calm : BOOLEAN]
Views == [op : {"none", "detail", "attempt"}, n : Nat, review : BOOLEAN, calm : BOOLEAN]

ExamKept == /\ exam \in ExamRows
            /\ exam.endAt # NoDate => exam.closesAt \in {NoDate, exam.endAt}
PortalTyped ==
    /\ clock \in 1..MaxTime /\ account \in BOOLEAN /\ ExamKept
    /\ tries \in Seq(Tries) /\ allowance \in [resetBefore : Nat, additional : Nat]
    /\ allowance.resetBefore <= clock
    /\ portal \in Pages \cup {IdlePortal} /\ view \in Views
    /\ unpublished \in BOOLEAN

(* What may be shown of an attempt: it is over, and staff published it or  *)
(* its date has come.                                                      *)
Showable(n) == /\ tries[n].status \in {"UNDER_REVIEW", "EVALUATED"}
               /\ n \in staffed \/ VisibilityState

(* An attempt without an evaluation is not over; a published one may be    *)
(* shown; a finished evaluation is that of an evaluated attempt.           *)
TryHolds(n) ==
    /\ tries[n].evaluation = "NONE" <=> tries[n].status \in {"IN_PROGRESS", "CANCELLED"}
    /\ tries[n].published => Showable(n)
    /\ ~unpublished /\ tries[n].evaluation \in {"READY", "PUBLISHED"}
          => tries[n].status = "EVALUATED"
    /\ tries[n].score \in exam.scores \cup {0} /\ tries[n].createdAt <= clock

(* A request that no other one overtook will find its result published.    *)
PageHolds == portal.step # "idle" =>
    /\ portal.n \in Graded /\ portal.ids \subseteq Graded
    /\ portal.published => Showable(portal.n)
    /\ \A n \in portal.ids : Showable(n)
    /\ portal.calm /\ portal.n \in Visible =>
          /\ portal.step = "update" => tries[portal.n].published \/ portal.n \in portal.ids
          /\ portal.step = "page" => tries[portal.n].published

RevealedHold == \A n \in revealed :
    n \in Numbers /\ Showable(n) /\ (~unpublished => tries[n].status # "UNDER_REVIEW")
ViewHolds == DetailComplete /\ view.n \in {0} \cup Numbers

PortalInv == /\ PortalTyped /\ \A n \in Numbers : TryHolds(n)
             /\ PageHolds /\ RevealedHold /\ ViewHolds

\* The attempts, row by row.
LEMMA TryRows ==
  ASSUME tries \in Seq(Tries)
  PROVE  /\ Len(tries) \in Nat /\ Numbers = 1..Len(tries) /\ Numbers \subseteq Nat
         /\ IsFiniteSet(Numbers) /\ \A n \in Numbers : tries[n] \in Tries
<1>1. Len(tries) \in Nat /\ DOMAIN tries = 1..Len(tries)
  OBVIOUS
<1> QED
  BY <1>1, FS_Interval, SMTT(30) DEF Numbers

LEMMA TriesAre ==
  ASSUME tries \in Seq(Tries), tries' \in [Numbers -> Tries]
  PROVE  tries' \in Seq(Tries) /\ Numbers' = Numbers
<1>1. Len(tries) \in Nat /\ Numbers = 1..Len(tries)
  BY TryRows
<1> QED
  BY <1>1 DEF Numbers

\* What dates decide stays decided while time passes.
SameExam == /\ exam'.visibility = exam.visibility /\ exam'.publishAt = exam.publishAt
            /\ exam'.endAt = exam.endAt /\ exam'.closesAt = exam.closesAt
            /\ exam'.scores = exam.scores /\ exam'.scoring = exam.scoring

LEMMA DueStays ==
  ASSUME ExamKept, SameExam, clock \in Nat, clock' \in Nat, clock <= clock', VisibilityState
  PROVE  VisibilityState'
<1>1. exam.publishAt \in Dates /\ exam.endAt \in Dates /\ exam.closesAt \in Dates
  BY DEF ExamKept, ExamRows
<1> QED
  BY <1>1, PortalAssumption DEF SameExam, VisibilityState, EndsAt, Or, Dates

\* The database query and the function agree on what is due.
LEMMA QueryAgrees ==
  ASSUME ExamKept, clock \in Nat, NEW n, tries[n].evaluation \in {"READY", "PUBLISHED"}
  PROVE  VisibleWhere(n) <=> tries[n].published \/ VisibilityState
<1>1. /\ exam.publishAt \in Dates /\ exam.endAt \in Dates /\ exam.closesAt \in Dates
      /\ exam.visibility \in {"NEVER", "AFTER_SUBMISSION", "AFTER_END", "SCHEDULED"}
  BY DEF ExamKept, ExamRows
<1>2. CASE exam.visibility = "AFTER_END"
  <2>1. VisibilityState <=> EndsAt = NoDate \/ EndsAt <= clock
    BY <1>2 DEF VisibilityState
  <2>2. VisibleWhere(n) <=> tries[n].published
          \/ (exam.endAt = NoDate /\ exam.closesAt = NoDate)
          \/ \E date \in {exam.endAt, exam.closesAt} \ {NoDate} : date <= clock
    BY <1>2 DEF VisibleWhere
  <2>3. CASE exam.endAt = NoDate
    <3>1. EndsAt = exam.closesAt
      BY <2>3 DEF EndsAt, Or
    <3> QED
      BY <2>1, <2>2, <2>3, <3>1
  <2>4. CASE exam.endAt # NoDate
    <3>1. EndsAt = exam.endAt /\ {exam.endAt, exam.closesAt} \ {NoDate} = {exam.endAt}
      BY <2>4 DEF EndsAt, Or, ExamKept
    <3> QED
      BY <2>1, <2>2, <2>4, <3>1
  <2> QED
    BY <2>3, <2>4
<1>3. CASE exam.visibility # "AFTER_END"
  BY <1>1, <1>3 DEF VisibilityState, VisibleWhere
<1> QED
  BY <1>2, <1>3

LEMMA ShowableStays ==
  ASSUME ExamKept, SameExam, clock \in Nat, clock' \in Nat, clock <= clock',
         staffed \subseteq staffed', NEW n, Showable(n),
         tries'[n].status \in {"UNDER_REVIEW", "EVALUATED"}
  PROVE  Showable(n)'
<1>1. VisibilityState => VisibilityState'
  BY DueStays
<1> QED
  BY <1>1 DEF Showable

LEMMA VisibleStays ==
  ASSUME ExamKept, ExamKept', SameExam, clock \in Nat, clock' \in Nat, clock <= clock',
         NEW n \in Visible, n \in Numbers',
         tries'[n].evaluation \in {"READY", "PUBLISHED"},
         tries[n].published => tries'[n].published
  PROVE  n \in Visible'
<1>1. VisibleWhere(n) /\ tries[n].evaluation \in {"READY", "PUBLISHED"}
  BY DEF Visible, VisibleWhere
<1>2. tries[n].published \/ VisibilityState
  BY <1>1, QueryAgrees
<1>3. VisibilityState => VisibilityState'
  BY DueStays
<1>4. ASSUME VisibilityState' PROVE VisibleWhere(n)'
  <2>1. exam'.visibility \in {"NEVER", "AFTER_SUBMISSION", "AFTER_END", "SCHEDULED"}
    BY DEF ExamKept, ExamRows
  <2>2. CASE exam'.visibility = "AFTER_END"
    <3>1. EndsAt' = NoDate \/ EndsAt' <= clock'
      BY <1>4, <2>2 DEF VisibilityState
    <3>2. CASE exam'.endAt = NoDate
      BY <2>2, <3>1, <3>2 DEF EndsAt, Or, VisibleWhere
    <3>3. CASE exam'.endAt # NoDate
      BY <2>2, <3>1, <3>3 DEF EndsAt, Or, VisibleWhere
    <3> QED
      BY <3>2, <3>3
  <2>3. CASE exam'.visibility # "AFTER_END"
    BY <1>4, <2>1, <2>3 DEF VisibilityState, VisibleWhere
  <2> QED
    BY <2>2, <2>3
<1>5. tries'[n].published => VisibleWhere(n)'
  BY DEF VisibleWhere
<1> QED
  BY <1>2, <1>3, <1>4, <1>5 DEF Visible

LEMMA PortalRows ==
  ASSUME PortalInv
  PROVE  /\ clock \in Nat /\ ExamKept /\ tries \in Seq(Tries)
         /\ Len(tries) \in Nat /\ Numbers = 1..Len(tries) /\ Numbers \subseteq Nat
         /\ IsFiniteSet(Numbers) /\ \A n \in Numbers : tries[n] \in Tries
         /\ \A n \in Numbers : TryHolds(n)
<1>1. clock \in Nat /\ ExamKept /\ tries \in Seq(Tries)
  BY PortalAssumption DEF PortalInv, PortalTyped
<1> QED
  BY <1>1, TryRows DEF PortalInv

\* Steps that leave the rows and the dates alone.
LEMMA SameRows ==
  ASSUME UNCHANGED <<clock, exam, tries, staffed, unpublished>>
  PROVE  /\ Numbers' = Numbers /\ Visible' = Visible /\ Graded' = Graded
         /\ SameExam /\ (VisibilityState' <=> VisibilityState)
         /\ \A n : (Showable(n)' <=> Showable(n)) /\ (TryHolds(n)' <=> TryHolds(n))
                   /\ (VisibleWhere(n)' <=> VisibleWhere(n))
<1>1. Numbers' = Numbers /\ SameExam
  BY DEF Numbers, SameExam
<1>2. VisibilityState' <=> VisibilityState
  BY DEF VisibilityState, EndsAt, Or
<1>3. ASSUME NEW n PROVE Showable(n)' <=> Showable(n)
  BY <1>2 DEF Showable
<1>4. ASSUME NEW n PROVE TryHolds(n)' <=> TryHolds(n)
  BY <1>3 DEF TryHolds
<1>5. ASSUME NEW n PROVE VisibleWhere(n)' <=> VisibleWhere(n)
  BY DEF VisibleWhere
<1>6. Visible' = Visible /\ Graded' = Graded
  BY <1>1, <1>5 DEF Visible, Graded
<1> QED
  BY <1>1, <1>2, <1>3, <1>4, <1>5, <1>6

\* Rows and request of a portal that does not read.
LEMMA QuietPortal ==
  ASSUME PortalInv, UNCHANGED <<clock, exam, tries, staffed, unpublished, revealed, view>>,
         PortalTyped', PageHolds'
  PROVE  PortalInv'
<1>1. \A n \in Numbers' : TryHolds(n)'
  BY SameRows DEF PortalInv
<1>2. RevealedHold'
  BY SameRows DEF PortalInv, RevealedHold
<1>3. ViewHolds'
  BY SameRows DEF PortalInv, ViewHolds, DetailComplete
<1> QED
  BY <1>1, <1>2, <1>3 DEF PortalInv

LEMMA StaffActs ==
  ASSUME PortalInv, ResetStudentAttempts \/ GrantStudentAttempt \/ BlockStudent
  PROVE  PortalInv'
<1>1. UNCHANGED <<clock, exam, tries, staffed, unpublished, revealed, view, portal>>
  BY DEF ResetStudentAttempts, GrantStudentAttempt, BlockStudent
<1>2. allowance' \in [resetBefore : Nat, additional : Nat] /\ allowance'.resetBefore <= clock
      /\ account' \in BOOLEAN
  <2>1. clock \in Nat /\ allowance \in [resetBefore : Nat, additional : Nat]
        /\ allowance.resetBefore <= clock /\ account \in BOOLEAN
    BY PortalRows DEF PortalInv, PortalTyped
  <2>2. CASE ResetStudentAttempts
    BY <2>1, <2>2 DEF ResetStudentAttempts
  <2>3. CASE GrantStudentAttempt
    BY <2>1, <2>3 DEF GrantStudentAttempt
  <2>4. CASE BlockStudent
    BY <2>1, <2>4 DEF BlockStudent
  <2> QED
    BY <2>2, <2>3, <2>4
<1>3. PortalTyped'
  BY <1>1, <1>2 DEF PortalInv, PortalTyped, ExamKept
<1>4. PageHolds'
  BY <1>1, SameRows DEF PortalInv, PageHolds
<1> QED
  BY <1>1, <1>3, <1>4, QuietPortal

LEMMA OpenPageKeeps ==
  ASSUME PortalInv, NEW n \in Numbers, NEW op \in {"detail", "attempt"}, OpenPage(op, n)
  PROVE  PortalInv'
<1>1. /\ UNCHANGED <<clock, account, exam, tries, allowance, staffed, unpublished, revealed, view>>
      /\ n \in Graded
      /\ portal' = [step |-> "find", op |-> op, n |-> n, published |-> tries[n].published,
                    ids |-> {}, calm |-> TRUE]
  BY DEF OpenPage
<1>2. tries[n] \in Tries /\ n \in Nat /\ TryHolds(n)
  BY PortalRows
<1>3. tries[n].published \in BOOLEAN
  BY <1>2 DEF Tries
<1>4. portal' \in Pages
  BY <1>1, <1>2, <1>3 DEF Pages
<1>5. PortalTyped'
  BY <1>1, <1>4 DEF PortalInv, PortalTyped, ExamKept
<1>6. PageHolds'
  <2>1. /\ portal'.step = "find" /\ portal'.n = n /\ portal'.ids = {}
        /\ portal'.published = tries[n].published
    BY <1>1
  <2>2. tries[n].published => Showable(n)
    BY <1>2 DEF TryHolds
  <2>3. n \in Graded' /\ (Showable(n)' <=> Showable(n))
    BY <1>1, SameRows
  <2> QED
    BY <2>1, <2>2, <2>3 DEF PageHolds
<1> QED
  BY <1>1, <1>5, <1>6, QuietPortal

LEMMA FindEligibleKeeps ==
  ASSUME PortalInv, FindEligible
  PROVE  PortalInv'
<1> DEFINE ids == {n \in Visible : ~tries[n].published}
<1>1. /\ UNCHANGED <<clock, account, exam, tries, allowance, staffed, unpublished, revealed, view>>
      /\ portal.step = "find"
      /\ portal' = [portal EXCEPT !.ids = ids, !.step = IF ids = {} THEN "page" ELSE "update"]
  BY DEF FindEligible
<1>2. portal \in Pages
  BY <1>1 DEF PortalInv, PortalTyped, IdlePortal
<1>3. ids \in SUBSET Nat /\ ids \subseteq Graded
  BY PortalRows DEF Visible, VisibleWhere, Graded
<1>4. ASSUME NEW n \in ids PROVE Showable(n)
  <2>1. n \in Numbers /\ VisibleWhere(n) /\ ~tries[n].published
        /\ tries[n].evaluation \in {"READY", "PUBLISHED"}
    BY DEF Visible, VisibleWhere
  <2>2. VisibilityState
    BY <2>1, PortalRows, QueryAgrees
  <2>3. tries[n].status \in {"UNDER_REVIEW", "EVALUATED"}
    BY <2>1, PortalRows DEF TryHolds, Tries, Statuses
  <2> QED
    BY <2>2, <2>3 DEF Showable
<1>5. \A n : n \in Visible => tries[n].published \/ n \in ids
  OBVIOUS
<1> HIDE DEF ids
<1>6. /\ portal' \in Pages /\ portal'.ids = ids /\ portal'.n = portal.n
      /\ portal'.published = portal.published /\ portal'.calm = portal.calm
      /\ portal'.step = IF ids = {} THEN "page" ELSE "update"
  BY <1>1, <1>2, <1>3 DEF Pages
<1>7. PortalTyped'
  BY <1>1, <1>6 DEF PortalInv, PortalTyped, ExamKept
<1>8. PageHolds'
  <2>1. portal.n \in Graded /\ (portal.published => Showable(portal.n))
    BY <1>1 DEF PortalInv, PageHolds
  <2>2. portal.n \in Graded' /\ ids \subseteq Graded'
    BY <1>1, <1>3, <2>1, SameRows
  <2>3. portal.published => Showable(portal.n)'
    BY <1>1, <2>1, SameRows
  <2>4. \A n \in ids : Showable(n)'
    BY <1>1, <1>4, SameRows
  <2>5. Visible' = Visible /\ tries' = tries
    BY <1>1, SameRows
  <2> QED
    BY <1>5, <1>6, <2>2, <2>3, <2>4, <2>5 DEF PageHolds
<1> QED
  BY <1>1, <1>7, <1>8, QuietPortal

LEMMA AnswerPageKeeps ==
  ASSUME PortalInv, AnswerPage
  PROVE  PortalInv'
<1> DEFINE n == portal.n
           published == IF ReadsRowFirst(portal.op) THEN portal.published ELSE tries[n].published
<1>1. /\ UNCHANGED <<clock, account, exam, tries, allowance, staffed, unpublished>>
      /\ portal.step = "page" /\ portal' = IdlePortal
      /\ IF n \notin Visible THEN view' = NoView /\ revealed' = revealed
         ELSE /\ view' = [op |-> portal.op, n |-> n, review |-> QuestionReview(published),
                          calm |-> portal.calm]
              /\ revealed' = IF QuestionReview(published) THEN revealed \cup {n} ELSE revealed
  BY DEF AnswerPage
<1>2. portal \in Pages
  BY <1>1 DEF PortalInv, PortalTyped, IdlePortal
<1>3. /\ n \in Graded /\ n \in Numbers /\ n \in Nat
      /\ (portal.published => Showable(n))
      /\ (portal.calm /\ n \in Visible => tries[n].published)
  <2>1. portal.step # "idle"
    BY <1>1
  <2> QED
    BY <1>1, <2>1, PortalRows DEF PortalInv, PageHolds, Graded
<1>4. tries[n] \in Tries /\ TryHolds(n)
  BY <1>3, PortalRows
<1>5. published \in BOOLEAN /\ (published => Showable(n))
  BY <1>2, <1>3, <1>4 DEF Pages, Tries, TryHolds
<1>6. n \in Visible => (~unpublished => tries[n].status # "UNDER_REVIEW")
  BY <1>4 DEF TryHolds, Visible, VisibleWhere
<1>7. portal.op \in {"detail", "attempt"} /\ portal.calm \in BOOLEAN
      /\ (portal.op = "detail" => published = tries[n].published)
  BY <1>2 DEF Pages, ReadsRowFirst
<1> HIDE DEF n, published
<1>8. QuestionReview(published) \in BOOLEAN
  BY <1>5 DEF QuestionReview
<1>9. view' \in Views /\ (view'.n = 0 \/ view'.n = n)
      /\ (view'.op = "detail" /\ view'.calm /\ exam.visibility # "NEVER" => view'.review)
  <2>1. CASE n \notin Visible
    <3>1. view' = NoView /\ NoView.n = 0 /\ NoView.op = "none"
      BY <1>1, <2>1 DEF NoView
    <3>2. NoView \in Views
      BY DEF NoView, Views
    <3> QED
      BY <3>1, <3>2
  <2>2. CASE n \in Visible
    <3>1. view' = [op |-> portal.op, n |-> n, review |-> QuestionReview(published),
                   calm |-> portal.calm]
      BY <1>1, <2>2
    <3>2. portal.op = "detail" /\ portal.calm /\ exam.visibility # "NEVER"
             => QuestionReview(published)
      BY <1>3, <1>7, <2>2 DEF QuestionReview, n
    <3>3. view' \in Views
      BY <1>3, <1>7, <1>8, <3>1 DEF Views
    <3> QED
      BY <3>1, <3>2, <3>3
  <2> QED
    BY <2>1, <2>2
<1>10. PortalTyped'
  BY <1>1, <1>9 DEF PortalInv, PortalTyped, ExamKept
<1>11. \A k \in Numbers' : TryHolds(k)'
  BY <1>1, SameRows DEF PortalInv
<1>12. PageHolds'
  BY <1>1 DEF PageHolds, IdlePortal
<1>13. RevealedHold'
  <2>1. \A k \in revealed' : k \in revealed \/ (k = n /\ n \in Visible /\ published)
    BY <1>1 DEF QuestionReview
  <2>2. ASSUME NEW k \in revealed'
        PROVE  k \in Numbers /\ Showable(k) /\ (~unpublished => tries[k].status # "UNDER_REVIEW")
    BY <1>3, <1>5, <1>6, <2>1 DEF PortalInv, RevealedHold
  <2> QED
    BY <1>1, <2>2, SameRows DEF RevealedHold
<1>14. ViewHolds'
  BY <1>1, <1>3, <1>9, SameRows DEF ViewHolds, DetailComplete
<1> QED
  BY <1>10, <1>11, <1>12, <1>13, <1>14 DEF PortalInv

LEMMA TimePassesKeeps ==
  ASSUME PortalInv, TimePasses
  PROVE  PortalInv'
<1>1. /\ clock < MaxTime /\ clock' = clock + 1 /\ portal' = Disturbed(portal)
      /\ UNCHANGED <<account, exam, tries, allowance, view, revealed, staffed, unpublished>>
  BY DEF TimePasses
<1>2. clock \in Nat /\ clock' \in Nat /\ clock <= clock' /\ clock' \in 1..MaxTime
  BY <1>1, PortalRows, PortalAssumption DEF PortalInv, PortalTyped
<1>3. SameExam /\ ExamKept /\ Numbers' = Numbers /\ staffed \subseteq staffed' /\ Graded' = Graded
  BY <1>1, PortalRows DEF SameExam, Numbers, Graded
<1>4. ASSUME NEW n, Showable(n) PROVE Showable(n)'
  <2>1. tries'[n].status \in {"UNDER_REVIEW", "EVALUATED"}
    BY <1>1, <1>4 DEF Showable
  <2> QED
    BY <1>2, <1>3, <1>4, <2>1, ShowableStays
<1>5. portal' \in Pages \cup {IdlePortal} /\ (portal.step = "idle" => portal' = portal)
      /\ (portal.step # "idle" => /\ portal \in Pages /\ portal' \in Pages
            /\ portal'.calm = FALSE /\ portal'.n = portal.n /\ portal'.ids = portal.ids
            /\ portal'.published = portal.published)
  <2>1. CASE portal.step = "idle"
    BY <1>1, <2>1 DEF Disturbed, PortalInv, PortalTyped
  <2>2. CASE portal.step # "idle"
    <3>1. portal \in Pages /\ portal' = [portal EXCEPT !.calm = FALSE]
      BY <1>1, <2>2 DEF Disturbed, PortalInv, PortalTyped, IdlePortal
    <3> QED
      BY <2>2, <3>1 DEF Pages
  <2> QED
    BY <2>1, <2>2
<1>6. PortalTyped'
  <2>1. allowance'.resetBefore <= clock'
    BY <1>1, <1>2 DEF PortalInv, PortalTyped
  <2> QED
    BY <1>1, <1>2, <1>5, <2>1 DEF PortalInv, PortalTyped, ExamKept
<1>7. ASSUME NEW n \in Numbers' PROVE TryHolds(n)'
  <2>1. n \in Numbers /\ TryHolds(n) /\ tries[n] \in Tries
    BY <1>3, <1>7, PortalRows
  <2>2. tries'[n].createdAt <= clock'
    BY <1>1, <1>2, <2>1 DEF TryHolds, Tries
  <2> QED
    BY <1>1, <1>4, <2>1, <2>2 DEF TryHolds
<1>8. PageHolds'
  BY <1>3, <1>4, <1>5 DEF PortalInv, PageHolds
<1>9. RevealedHold'
  BY <1>1, <1>3, <1>4 DEF PortalInv, RevealedHold
<1>10. ViewHolds'
  BY <1>1, <1>3 DEF PortalInv, ViewHolds, DetailComplete
<1> QED
  BY <1>6, <1>7, <1>8, <1>9, <1>10 DEF PortalInv

LEMMA CancelAssessmentKeeps ==
  ASSUME PortalInv, CancelAssessment
  PROVE  PortalInv'
<1>1. /\ exam' = [exam EXCEPT !.status = "CANCELLED"]
      /\ UNCHANGED <<clock, account, tries, allowance, portal, view, revealed, staffed, unpublished>>
  BY DEF CancelAssessment
<1>2. clock \in Nat /\ clock' \in Nat /\ clock <= clock' /\ exam \in ExamRows /\ ExamKept
  BY <1>1, PortalRows DEF ExamKept
<1>3. exam' \in ExamRows /\ SameExam /\ ExamKept'
  BY <1>1, <1>2 DEF ExamRows, SameExam, ExamKept
<1>4. VisibilityState' <=> VisibilityState
  BY <1>1, <1>3 DEF SameExam, VisibilityState, EndsAt, Or
<1>5. ASSUME NEW n
      PROVE  (Showable(n)' <=> Showable(n)) /\ (TryHolds(n)' <=> TryHolds(n))
             /\ (VisibleWhere(n)' <=> VisibleWhere(n))
  <2>1. Showable(n)' <=> Showable(n)
    BY <1>1, <1>4 DEF Showable
  <2>2. TryHolds(n)' <=> TryHolds(n)
    BY <1>1, <1>3, <2>1 DEF TryHolds, SameExam
  <2>3. VisibleWhere(n)' <=> VisibleWhere(n)
    BY <1>1, <1>3 DEF VisibleWhere, SameExam
  <2> QED
    BY <2>1, <2>2, <2>3
<1>6. Numbers' = Numbers /\ Visible' = Visible /\ Graded' = Graded
  BY <1>1, <1>5 DEF Numbers, Visible, Graded
<1>7. PortalTyped'
  BY <1>1, <1>3 DEF PortalInv, PortalTyped
<1>8. \A n \in Numbers' : TryHolds(n)'
  BY <1>5, <1>6 DEF PortalInv
<1>9. PageHolds'
  BY <1>1, <1>5, <1>6 DEF PortalInv, PageHolds
<1>10. RevealedHold'
  BY <1>1, <1>5, <1>6 DEF PortalInv, RevealedHold
<1>11. ViewHolds'
  BY <1>1, <1>3, <1>6 DEF PortalInv, ViewHolds, DetailComplete, SameExam
<1> QED
  BY <1>7, <1>8, <1>9, <1>10, <1>11 DEF PortalInv

\* Steps that write attempts while time stands still: nothing of the request is
\* lost, and what was seen may still be shown.
LEMMA RowsMove ==
  ASSUME PortalInv, UNCHANGED <<clock, exam>>, staffed \subseteq staffed',
         unpublished => unpublished', Numbers \subseteq Numbers',
         \A n \in Graded : /\ tries'[n].status \in {"UNDER_REVIEW", "EVALUATED"}
                           /\ tries'[n].evaluation # "NONE"
                           /\ tries[n].status = "EVALUATED" => tries'[n].status = "EVALUATED"
  PROVE  /\ \A n : Showable(n) /\ n \in Graded => Showable(n)'
         /\ Graded \subseteq Graded' /\ RevealedHold /\ (VisibilityState' <=> VisibilityState)
         /\ revealed' = revealed => \A n \in revealed' :
               n \in Numbers' /\ Showable(n)' /\ (~unpublished => tries'[n].status # "UNDER_REVIEW")
<1>1. ExamKept /\ SameExam /\ clock \in Nat /\ clock' \in Nat /\ clock <= clock' /\ RevealedHold
  BY PortalRows DEF SameExam, PortalInv
<1>2. \A n : Showable(n) /\ n \in Graded => Showable(n)'
  BY <1>1, ShowableStays
<1>3. Graded \subseteq Graded'
  BY DEF Graded
<1>4. VisibilityState' <=> VisibilityState
  BY DEF VisibilityState, EndsAt, Or
<1>5. ASSUME revealed' = revealed, NEW n \in revealed'
      PROVE  n \in Numbers' /\ Showable(n)' /\ (~unpublished => tries'[n].status # "UNDER_REVIEW")
  <2>1. n \in Numbers /\ Showable(n) /\ (~unpublished => tries[n].status # "UNDER_REVIEW")
    BY <1>1, <1>5 DEF RevealedHold
  <2>2. TryHolds(n) /\ tries[n].status \in {"UNDER_REVIEW", "EVALUATED"}
    BY <2>1, PortalRows DEF Showable
  <2>3. n \in Graded
    BY <2>1, <2>2 DEF TryHolds, Graded
  <2> QED
    BY <1>2, <2>1, <2>2, <2>3
<1> QED
  BY <1>1, <1>2, <1>3, <1>4, <1>5

LEMMA WritesKeep ==
  ASSUME PortalInv, UNCHANGED <<clock, exam, account, allowance, revealed, view>>,
         staffed \subseteq staffed', unpublished => unpublished', unpublished' \in BOOLEAN,
         tries' \in Seq(Tries), Numbers \subseteq Numbers',
         \A n \in Graded : /\ tries'[n].status \in {"UNDER_REVIEW", "EVALUATED"}
                           /\ tries'[n].evaluation # "NONE"
                           /\ tries[n].status = "EVALUATED" => tries'[n].status = "EVALUATED",
         \A n \in Numbers' : TryHolds(n)',
         portal' \in Pages \cup {IdlePortal}, PageHolds'
  PROVE  PortalInv'
<1>1. PortalTyped'
  BY DEF PortalInv, PortalTyped, ExamKept
<1>2. RevealedHold'
  BY RowsMove DEF RevealedHold
<1>3. ViewHolds'
  BY DEF PortalInv, ViewHolds, DetailComplete
<1> QED
  BY <1>1, <1>2, <1>3 DEF PortalInv

\* A request that sleeps while rows are written, or is overtaken.
LEMMA PageWaits ==
  ASSUME PortalInv, UNCHANGED <<clock, exam>>, staffed \subseteq staffed',
         unpublished => unpublished', Numbers \subseteq Numbers',
         \A n \in Graded : /\ tries'[n].status \in {"UNDER_REVIEW", "EVALUATED"}
                           /\ tries'[n].evaluation # "NONE"
                           /\ tries[n].status = "EVALUATED" => tries'[n].status = "EVALUATED",
         \/ portal' = Disturbed(portal)
         \/ /\ portal' = portal
            /\ \A n \in Graded : n \in Visible' =>
                  tries'[n].published \/ (n \in Visible /\ ~tries[n].published)
  PROVE  PageHolds' /\ portal' \in Pages \cup {IdlePortal}
<1>1. CASE portal = IdlePortal
  BY <1>1 DEF Disturbed, IdlePortal, PageHolds
<1>2. CASE portal # IdlePortal
  <2>1. portal \in Pages /\ portal.step # "idle" /\ PageHolds
    BY <1>2 DEF PortalInv, PortalTyped, Pages
  <2>2. /\ portal' \in Pages /\ portal'.step = portal.step /\ portal'.n = portal.n
        /\ portal'.published = portal.published /\ portal'.ids = portal.ids
        /\ portal'.calm => portal' = portal
    <3>1. CASE portal' = portal
      BY <2>1, <3>1
    <3>2. CASE portal' = [portal EXCEPT !.calm = FALSE]
      BY <2>1, <3>2 DEF Pages
    <3> QED
      BY <2>1, <3>1, <3>2 DEF Disturbed
  <2>3. portal.n \in Graded' /\ portal.ids \subseteq Graded'
    BY <2>1, RowsMove DEF PageHolds
  <2>4. portal.published => Showable(portal.n)'
    BY <2>1, <2>2, RowsMove DEF PageHolds
  <2>5. \A n \in portal.ids : Showable(n)'
    BY <2>1, RowsMove DEF PageHolds
  <2>6. ASSUME portal'.calm, portal.n \in Visible'
        PROVE  /\ portal.step = "update" => tries'[portal.n].published \/ portal.n \in portal.ids
               /\ portal.step = "page" => tries'[portal.n].published
    <3>1. portal' = portal /\ portal.calm /\ portal.n \in Graded
      BY <2>1, <2>2, <2>6 DEF PageHolds
    <3>2. tries'[portal.n].published \/ (portal.n \in Visible /\ ~tries[portal.n].published)
      <4>1. CASE portal' = Disturbed(portal)
        BY <2>1, <2>6, <3>1, <4>1 DEF Disturbed, Pages
      <4> QED
        BY <2>6, <3>1, <4>1
    <3> QED
      BY <2>1, <3>1, <3>2 DEF PageHolds
  <2> QED
    BY <2>1, <2>2, <2>3, <2>4, <2>5, <2>6 DEF PageHolds
<1> QED
  BY <1>1, <1>2

LEMMA StartKeeps ==
  ASSUME PortalInv, StartAttempt
  PROVE  PortalInv'
<1> DEFINE ends == Min({clock + Duration} \cup ({EndsAt} \ {NoDate}))
           new == [status |-> "IN_PROGRESS", createdAt |-> clock, expiresAt |-> ends,
                   evaluation |-> "NONE", score |-> 0, published |-> FALSE]
<1>1. /\ tries' = Append(tries, new)
      /\ UNCHANGED <<clock, account, exam, allowance, portal, view, revealed, staffed, unpublished>>
  BY DEF StartAttempt
<1>2. ends \in Nat
  <2>1. clock + Duration \in Nat /\ EndsAt \in Dates
    BY PortalRows, PortalAssumption DEF EndsAt, Or, ExamKept, ExamRows
  <2>2. {clock + Duration} \cup ({EndsAt} \ {NoDate}) \in SUBSET Nat
    BY <2>1 DEF Dates
  <2> QED
    BY <2>2, MinIs
<1> HIDE DEF ends
<1>3. new \in Tries
  BY <1>2, PortalRows DEF Tries, Statuses, Evaluations
<1>4. /\ tries' \in Seq(Tries) /\ Numbers' = 1..(Len(tries) + 1)
      /\ tries'[Len(tries) + 1] = new /\ \A n \in Numbers : tries'[n] = tries[n]
  BY <1>1, <1>3, PortalRows DEF Numbers
<1>5. /\ new.status = "IN_PROGRESS" /\ new.evaluation = "NONE" /\ new.published = FALSE
      /\ new.score = 0 /\ new.createdAt = clock
  OBVIOUS
<1> HIDE DEF new
<1>6. Numbers \subseteq Numbers' /\ \A n \in Numbers' : n \in Numbers \/ n = Len(tries) + 1
  BY <1>4, PortalRows
<1>7. VisibilityState' <=> VisibilityState
  BY <1>1 DEF VisibilityState, EndsAt, Or
<1>8. ASSUME NEW n \in Numbers' PROVE TryHolds(n)'
  <2>1. CASE n = Len(tries) + 1
    BY <1>1, <1>4, <1>5, <2>1, PortalRows DEF TryHolds
  <2>2. CASE n \in Numbers
    BY <1>1, <1>4, <1>7, <2>2, PortalRows DEF TryHolds, Showable
  <2> QED
    BY <1>6, <2>1, <2>2
<1>9. ASSUME NEW n \in Graded
      PROVE  /\ tries'[n] = tries[n] /\ tries[n].status \in {"UNDER_REVIEW", "EVALUATED"}
             /\ tries[n].evaluation # "NONE" /\ (n \in Visible' => n \in Visible)
  BY <1>1, <1>4, PortalRows DEF Graded, TryHolds, Tries, Statuses, Visible, VisibleWhere
<1>10. PageHolds' /\ portal' \in Pages \cup {IdlePortal}
  BY <1>1, <1>6, <1>9, PageWaits
<1>11. unpublished' \in BOOLEAN
  BY <1>1 DEF PortalInv, PortalTyped
<1> QED
  BY <1>1, <1>4, <1>6, <1>8, <1>9, <1>10, <1>11, WritesKeep

\* One attempt is written.
LEMMA OneRow ==
  ASSUME PortalInv, NEW n \in Numbers, NEW r \in Tries, tries' = [tries EXCEPT ![n] = r]
  PROVE  /\ tries' \in Seq(Tries) /\ Numbers' = Numbers /\ tries'[n] = r
         /\ \A k \in Numbers : k # n => tries'[k] = tries[k]
<1>1. tries' \in [Numbers -> Tries]
  BY PortalRows DEF Numbers
<1> QED
  BY <1>1, TriesAre, PortalRows DEF Numbers

LEMMA EndKeeps ==
  ASSUME PortalInv, NEW n \in Numbers, NEW score \in exam.scores, NEW pending \in BOOLEAN,
         NEW auto \in BOOLEAN, EndAttempt(n, score, pending, auto)
  PROVE  PortalInv'
<1>1. PICK r : r = [tries[n] EXCEPT !.status = IF pending THEN "UNDER_REVIEW" ELSE "EVALUATED",
          !.score = score, !.evaluation = IF pending THEN "PENDING_REVIEW" ELSE "READY",
          !.published = ~auto /\ ~pending /\ VisibilityState]
  OBVIOUS
<1>2. /\ tries[n].status = "IN_PROGRESS" /\ tries' = [tries EXCEPT ![n] = r]
      /\ UNCHANGED <<clock, account, exam, allowance, portal, view, revealed, staffed, unpublished>>
  BY <1>1 DEF EndAttempt
<1>3. tries[n] \in Tries /\ TryHolds(n) /\ score \in Nat /\ VisibilityState \in BOOLEAN
  BY PortalRows DEF ExamKept, ExamRows, VisibilityState
<1>4. /\ r \in Tries /\ r.score = score /\ r.createdAt = tries[n].createdAt
      /\ r.status = (IF pending THEN "UNDER_REVIEW" ELSE "EVALUATED")
      /\ r.evaluation = (IF pending THEN "PENDING_REVIEW" ELSE "READY")
      /\ r.published = (~auto /\ ~pending /\ VisibilityState)
  BY <1>1, <1>3 DEF Tries, Statuses, Evaluations
<1>5. /\ tries' \in Seq(Tries) /\ Numbers' = Numbers /\ tries'[n] = r
      /\ \A k \in Numbers : k # n => tries'[k] = tries[k]
  BY <1>2, <1>4, OneRow
<1>6. VisibilityState' <=> VisibilityState
  BY <1>2 DEF VisibilityState, EndsAt, Or
<1>7. ASSUME NEW k \in Numbers' PROVE TryHolds(k)'
  <2>1. CASE k = n
    <3>1. r.status \in {"UNDER_REVIEW", "EVALUATED"} /\ r.evaluation # "NONE"
          /\ (r.evaluation \in {"READY", "PUBLISHED"} => r.status = "EVALUATED")
          /\ (r.published => VisibilityState)
          /\ r.score \in exam.scores \cup {0} /\ r.createdAt <= clock
      BY <1>3, <1>4 DEF TryHolds
    <3> QED
      BY <1>2, <1>5, <1>6, <2>1, <3>1 DEF TryHolds, Showable
  <2>2. CASE k # n
    BY <1>2, <1>5, <1>6, <2>2, PortalRows DEF TryHolds, Showable
  <2> QED
    BY <2>1, <2>2
<1>8. ASSUME NEW k \in Graded
      PROVE  /\ tries'[k] = tries[k] /\ tries[k].status \in {"UNDER_REVIEW", "EVALUATED"}
             /\ tries[k].evaluation # "NONE" /\ (k \in Visible' => k \in Visible)
  <2>1. k \in Numbers /\ k # n /\ tries[k].evaluation # "NONE"
    BY <1>2, <1>3 DEF Graded, TryHolds
  <2> QED
    BY <1>2, <1>5, <2>1, PortalRows DEF TryHolds, Tries, Statuses, Visible, VisibleWhere
<1>9. PageHolds' /\ portal' \in Pages \cup {IdlePortal}
  BY <1>2, <1>5, <1>8, PageWaits
<1>10. unpublished' \in BOOLEAN
  BY <1>2 DEF PortalInv, PortalTyped
<1> QED
  BY <1>2, <1>5, <1>7, <1>8, <1>9, <1>10, WritesKeep

LEMMA ReviewsKeep ==
  ASSUME PortalInv, NEW n \in Numbers, CompleteReviews(n)
  PROVE  PortalInv'
<1>1. PICK r : r = [tries[n] EXCEPT !.status = "EVALUATED", !.evaluation = "READY"]
  OBVIOUS
<1>2. /\ tries[n].status = "UNDER_REVIEW" /\ tries' = [tries EXCEPT ![n] = r]
      /\ portal' = Disturbed(portal)
      /\ UNCHANGED <<clock, account, exam, allowance, view, revealed, staffed, unpublished>>
  BY <1>1 DEF CompleteReviews
<1>3. tries[n] \in Tries /\ TryHolds(n)
  BY PortalRows
<1>4. /\ r \in Tries /\ r.score = tries[n].score /\ r.createdAt = tries[n].createdAt
      /\ r.status = "EVALUATED" /\ r.evaluation = "READY" /\ r.published = tries[n].published
  BY <1>1, <1>3 DEF Tries, Statuses, Evaluations
<1>5. /\ tries' \in Seq(Tries) /\ Numbers' = Numbers /\ tries'[n] = r
      /\ \A k \in Numbers : k # n => tries'[k] = tries[k]
  BY <1>2, <1>4, OneRow
<1>6. VisibilityState' <=> VisibilityState
  BY <1>2 DEF VisibilityState, EndsAt, Or
<1>7. ASSUME NEW k \in Numbers' PROVE TryHolds(k)'
  <2>1. CASE k = n
    BY <1>2, <1>3, <1>4, <1>5, <1>6, <2>1 DEF TryHolds, Showable
  <2>2. CASE k # n
    BY <1>2, <1>5, <1>6, <2>2, PortalRows DEF TryHolds, Showable
  <2> QED
    BY <2>1, <2>2
<1>8. ASSUME NEW k \in Graded
      PROVE  /\ tries'[k].status \in {"UNDER_REVIEW", "EVALUATED"} /\ tries'[k].evaluation # "NONE"
             /\ tries[k].status = "EVALUATED" => tries'[k].status = "EVALUATED"
  <2>1. k \in Numbers /\ tries[k].evaluation # "NONE" /\ TryHolds(k) /\ tries[k] \in Tries
    BY PortalRows DEF Graded
  <2> QED
    BY <1>4, <1>5, <2>1 DEF TryHolds, Tries, Statuses
<1>9. PageHolds' /\ portal' \in Pages \cup {IdlePortal}
  BY <1>2, <1>5, <1>8, PageWaits
<1>10. unpublished' \in BOOLEAN
  BY <1>2 DEF PortalInv, PortalTyped
<1> QED
  BY <1>2, <1>5, <1>7, <1>8, <1>9, <1>10, WritesKeep

LEMMA CancelKeeps ==
  ASSUME PortalInv, NEW n \in Numbers, CancelAttempt(n)
  PROVE  PortalInv'
<1>1. PICK r : r = [tries[n] EXCEPT !.status = "CANCELLED"]
  OBVIOUS
<1>2. /\ tries[n].status = "IN_PROGRESS" /\ tries' = [tries EXCEPT ![n] = r]
      /\ UNCHANGED <<clock, account, exam, allowance, portal, view, revealed, staffed, unpublished>>
  BY <1>1 DEF CancelAttempt
<1>3. tries[n] \in Tries /\ TryHolds(n)
  BY PortalRows
<1>4. /\ r \in Tries /\ r.score = tries[n].score /\ r.createdAt = tries[n].createdAt
      /\ r.status = "CANCELLED" /\ r.evaluation = tries[n].evaluation
      /\ r.published = tries[n].published
  BY <1>1, <1>3 DEF Tries, Statuses, Evaluations
<1>5. /\ tries' \in Seq(Tries) /\ Numbers' = Numbers /\ tries'[n] = r
      /\ \A k \in Numbers : k # n => tries'[k] = tries[k]
  BY <1>2, <1>4, OneRow
<1>6. VisibilityState' <=> VisibilityState
  BY <1>2 DEF VisibilityState, EndsAt, Or
<1>7. ASSUME NEW k \in Numbers' PROVE TryHolds(k)'
  <2>1. CASE k = n
    <3>1. tries[n].evaluation = "NONE" /\ ~tries[n].published
      BY <1>2, <1>3 DEF TryHolds, Showable
    <3> QED
      BY <1>2, <1>3, <1>4, <1>5, <2>1, <3>1 DEF TryHolds
  <2>2. CASE k # n
    BY <1>2, <1>5, <1>6, <2>2, PortalRows DEF TryHolds, Showable
  <2> QED
    BY <2>1, <2>2
<1>8. ASSUME NEW k \in Graded
      PROVE  /\ tries'[k] = tries[k] /\ tries[k].status \in {"UNDER_REVIEW", "EVALUATED"}
             /\ tries[k].evaluation # "NONE" /\ (k \in Visible' => k \in Visible)
  <2>1. k \in Numbers /\ k # n /\ tries[k].evaluation # "NONE"
    BY <1>2, <1>3 DEF Graded, TryHolds
  <2> QED
    BY <1>2, <1>5, <2>1, PortalRows DEF TryHolds, Tries, Statuses, Visible, VisibleWhere
<1>9. PageHolds' /\ portal' \in Pages \cup {IdlePortal}
  BY <1>2, <1>5, <1>8, PageWaits
<1>10. unpublished' \in BOOLEAN
  BY <1>2 DEF PortalInv, PortalTyped
<1> QED
  BY <1>2, <1>5, <1>7, <1>8, <1>9, <1>10, WritesKeep

\* Some attempts are written, to rows computed from their own.
LEMMA ManyRows ==
  ASSUME PortalInv, NEW S, NEW t, \A n \in S \cap Numbers : t[n] \in Tries,
         tries' = [n \in Numbers |-> IF n \in S THEN t[n] ELSE tries[n]]
  PROVE  /\ tries' \in Seq(Tries) /\ Numbers' = Numbers
         /\ \A n \in Numbers : tries'[n] = IF n \in S THEN t[n] ELSE tries[n]
<1>1. tries' \in [Numbers -> Tries]
  BY PortalRows
<1> QED
  BY <1>1, TriesAre, PortalRows

LEMMA PublishKeeps ==
  ASSUME PortalInv, PublishResults
  PROVE  PortalInv'
<1>1. PICK t : t = [n \in Numbers |-> [tries[n] EXCEPT !.published = TRUE,
                                                       !.evaluation = "PUBLISHED"]]
  OBVIOUS
<1>2. /\ \A n \in Numbers : tries[n].status # "UNDER_REVIEW"
      /\ tries' = [n \in Numbers |-> IF n \in Graded THEN t[n] ELSE tries[n]]
      /\ staffed' = staffed \cup Graded
      /\ UNCHANGED <<clock, account, exam, allowance, portal, view, revealed, unpublished>>
  <2>1. tries' = [n \in Numbers |-> IF n \in Graded
             THEN [tries[n] EXCEPT !.published = TRUE, !.evaluation = "PUBLISHED"] ELSE tries[n]]
    BY DEF PublishResults
  <2> QED
    BY <1>1, <2>1 DEF PublishResults
<1>3. ASSUME NEW n \in Numbers
      PROVE  /\ t[n] \in Tries /\ t[n].status = tries[n].status /\ t[n].published = TRUE
             /\ t[n].evaluation = "PUBLISHED" /\ t[n].score = tries[n].score
             /\ t[n].createdAt = tries[n].createdAt
  <2>1. tries[n] \in Tries /\ t[n] = [tries[n] EXCEPT !.published = TRUE, !.evaluation = "PUBLISHED"]
    BY <1>1, PortalRows
  <2> QED
    BY <2>1 DEF Tries, Evaluations
<1>4. /\ tries' \in Seq(Tries) /\ Numbers' = Numbers
      /\ \A n \in Numbers : tries'[n] = IF n \in Graded THEN t[n] ELSE tries[n]
  BY <1>2, <1>3, ManyRows
<1>5. VisibilityState' <=> VisibilityState
  BY <1>2 DEF VisibilityState, EndsAt, Or
<1>6. ASSUME NEW n \in Graded
      PROVE  n \in Numbers /\ TryHolds(n) /\ tries[n].evaluation # "NONE"
             /\ tries[n].status = "EVALUATED"
  BY <1>2, PortalRows DEF Graded, TryHolds, Tries, Statuses
<1>7. ASSUME NEW n \in Numbers' PROVE TryHolds(n)'
  <2>1. CASE n \in Graded
    BY <1>2, <1>3, <1>4, <1>6, <2>1 DEF TryHolds, Showable
  <2>2. CASE n \notin Graded
    <3>1. tries'[n] = tries[n] /\ n \in Numbers /\ TryHolds(n)
      BY <1>4, <2>2, PortalRows
    <3> QED
      BY <1>2, <1>5, <3>1 DEF TryHolds, Showable
  <2> QED
    BY <2>1, <2>2
<1>8. ASSUME NEW n \in Graded
      PROVE  /\ tries'[n].status = "EVALUATED" /\ tries'[n].evaluation # "NONE"
             /\ tries'[n].published
  BY <1>3, <1>4, <1>6
<1>9. PageHolds' /\ portal' \in Pages \cup {IdlePortal}
  BY <1>2, <1>4, <1>8, PageWaits
<1>10. unpublished' \in BOOLEAN
  BY <1>2 DEF PortalInv, PortalTyped
<1> QED
  BY <1>2, <1>4, <1>7, <1>8, <1>9, <1>10, WritesKeep

LEMMA UnpublishKeeps ==
  ASSUME PortalInv, UnpublishResults
  PROVE  PortalInv'
<1>1. PICK t : t = [n \in Numbers |-> [tries[n] EXCEPT !.published = FALSE,
                                                       !.evaluation = "READY"]]
  OBVIOUS
<1>2. /\ tries' = [n \in Numbers |-> IF n \in Graded THEN t[n] ELSE tries[n]]
      /\ portal' = Disturbed(portal) /\ unpublished' = TRUE
      /\ UNCHANGED <<clock, account, exam, allowance, view, revealed, staffed>>
  <2>1. tries' = [n \in Numbers |-> IF n \in Graded
             THEN [tries[n] EXCEPT !.published = FALSE, !.evaluation = "READY"] ELSE tries[n]]
    BY DEF UnpublishResults
  <2> QED
    BY <1>1, <2>1 DEF UnpublishResults
<1>3. ASSUME NEW n \in Numbers
      PROVE  /\ t[n] \in Tries /\ t[n].status = tries[n].status /\ t[n].published = FALSE
             /\ t[n].evaluation = "READY" /\ t[n].score = tries[n].score
             /\ t[n].createdAt = tries[n].createdAt
  <2>1. tries[n] \in Tries /\ t[n] = [tries[n] EXCEPT !.published = FALSE, !.evaluation = "READY"]
    BY <1>1, PortalRows
  <2> QED
    BY <2>1 DEF Tries, Evaluations
<1>4. /\ tries' \in Seq(Tries) /\ Numbers' = Numbers
      /\ \A n \in Numbers : tries'[n] = IF n \in Graded THEN t[n] ELSE tries[n]
  BY <1>2, <1>3, ManyRows
<1>5. VisibilityState' <=> VisibilityState
  BY <1>2 DEF VisibilityState, EndsAt, Or
<1>6. ASSUME NEW n \in Graded
      PROVE  n \in Numbers /\ TryHolds(n) /\ tries[n].evaluation # "NONE"
             /\ tries[n].status \in {"UNDER_REVIEW", "EVALUATED"}
  BY PortalRows DEF Graded, TryHolds, Tries, Statuses
<1>7. ASSUME NEW n \in Numbers' PROVE TryHolds(n)'
  <2>1. CASE n \in Graded
    BY <1>2, <1>3, <1>4, <1>6, <2>1 DEF TryHolds, Showable
  <2>2. CASE n \notin Graded
    <3>1. tries'[n] = tries[n] /\ n \in Numbers /\ TryHolds(n)
      BY <1>4, <2>2, PortalRows
    <3> QED
      BY <1>2, <1>5, <3>1 DEF TryHolds, Showable
  <2> QED
    BY <2>1, <2>2
<1>8. ASSUME NEW n \in Graded
      PROVE  /\ tries'[n].status \in {"UNDER_REVIEW", "EVALUATED"} /\ tries'[n].evaluation # "NONE"
             /\ tries[n].status = "EVALUATED" => tries'[n].status = "EVALUATED"
  BY <1>3, <1>4, <1>6
<1>9. PageHolds' /\ portal' \in Pages \cup {IdlePortal}
  BY <1>2, <1>4, <1>8, PageWaits
<1> QED
  BY <1>2, <1>4, <1>7, <1>8, <1>9, WritesKeep

LEMMA UpdateKeeps ==
  ASSUME PortalInv, UpdateEligible
  PROVE  PortalInv'
<1>1. PICK t : t = [n \in Numbers |-> [tries[n] EXCEPT !.published = TRUE]]
  OBVIOUS
<1>2. /\ tries' = [n \in Numbers |-> IF n \in portal.ids THEN t[n] ELSE tries[n]]
      /\ portal.step = "update" /\ portal' = [portal EXCEPT !.step = "page"]
      /\ UNCHANGED <<clock, account, exam, allowance, view, revealed, staffed, unpublished>>
  <2>1. tries' = [n \in Numbers |-> IF n \in portal.ids
             THEN [tries[n] EXCEPT !.published = TRUE] ELSE tries[n]]
    BY DEF UpdateEligible
  <2> QED
    BY <1>1, <2>1 DEF UpdateEligible
<1>3. ASSUME NEW n \in Numbers
      PROVE  /\ t[n] \in Tries /\ t[n].status = tries[n].status /\ t[n].published = TRUE
             /\ t[n].evaluation = tries[n].evaluation /\ t[n].score = tries[n].score
             /\ t[n].createdAt = tries[n].createdAt
  <2>1. tries[n] \in Tries /\ t[n] = [tries[n] EXCEPT !.published = TRUE]
    BY <1>1, PortalRows
  <2> QED
    BY <2>1 DEF Tries
<1>4. /\ tries' \in Seq(Tries) /\ Numbers' = Numbers
      /\ \A n \in Numbers : tries'[n] = IF n \in portal.ids THEN t[n] ELSE tries[n]
  BY <1>2, <1>3, ManyRows
<1>5. VisibilityState' <=> VisibilityState
  BY <1>2 DEF VisibilityState, EndsAt, Or
<1>6. portal \in Pages /\ PageHolds
  BY <1>2 DEF PortalInv, PortalTyped, IdlePortal
<1>7. ASSUME NEW n \in Numbers' PROVE TryHolds(n)'
  <2>1. CASE n \in portal.ids
    <3>1. Showable(n) /\ TryHolds(n) /\ n \in Numbers /\ tries[n] \in Tries
      BY <1>2, <1>4, <1>6, <2>1, PortalRows DEF PageHolds
    <3>2. tries[n].evaluation # "NONE"
      BY <3>1 DEF TryHolds, Showable
    <3> QED
      BY <1>2, <1>3, <1>4, <1>5, <2>1, <3>1, <3>2 DEF TryHolds, Showable
  <2>2. CASE n \notin portal.ids
    <3>1. tries'[n] = tries[n] /\ n \in Numbers /\ TryHolds(n)
      BY <1>4, <2>2, PortalRows
    <3> QED
      BY <1>2, <1>5, <3>1 DEF TryHolds, Showable
  <2> QED
    BY <2>1, <2>2
<1>8. ASSUME NEW n \in Graded
      PROVE  /\ tries'[n].status = tries[n].status /\ tries'[n].evaluation = tries[n].evaluation
             /\ tries[n].status \in {"UNDER_REVIEW", "EVALUATED"} /\ tries[n].evaluation # "NONE"
             /\ (tries[n].published => tries'[n].published)
             /\ (n \in portal.ids => tries'[n].published)
             /\ (n \notin portal.ids => tries'[n] = tries[n])
  <2>1. n \in Numbers /\ tries[n].evaluation # "NONE" /\ TryHolds(n) /\ tries[n] \in Tries
    BY PortalRows DEF Graded
  <2> QED
    BY <1>3, <1>4, <2>1 DEF TryHolds, Tries, Statuses
<1>9. /\ portal' \in Pages /\ portal'.step = "page" /\ portal'.n = portal.n
      /\ portal'.published = portal.published /\ portal'.ids = portal.ids
      /\ portal'.calm = portal.calm
  BY <1>2, <1>6 DEF Pages
<1>10. PageHolds'
  <2>1. portal.n \in Graded' /\ portal.ids \subseteq Graded'
    BY <1>2, <1>4, <1>6, <1>8 DEF PageHolds, Graded
  <2>2. portal.published => Showable(portal.n)'
    BY <1>2, <1>5, <1>6, <1>8, <1>9 DEF PageHolds, Showable
  <2>3. \A n \in portal.ids : Showable(n)'
    BY <1>2, <1>5, <1>6, <1>8 DEF PageHolds, Showable
  <2>4. ASSUME portal.calm, portal.n \in Visible' PROVE tries'[portal.n].published
    <3>1. portal.n \in Graded
      BY <1>2, <1>6 DEF PageHolds
    <3>2. CASE portal.n \in portal.ids
      BY <1>8, <3>1, <3>2
    <3>3. CASE portal.n \notin portal.ids
      <4>1. tries'[portal.n] = tries[portal.n]
        BY <1>8, <3>1, <3>3
      <4>2. portal.n \in Visible
        BY <1>2, <1>4, <2>4, <4>1 DEF Visible, VisibleWhere
      <4> QED
        BY <1>2, <1>6, <2>4, <3>3, <4>1, <4>2 DEF PageHolds
    <3> QED
      BY <3>2, <3>3
  <2> QED
    BY <1>9, <2>1, <2>2, <2>3, <2>4 DEF PageHolds
<1>11. unpublished' \in BOOLEAN
  BY <1>2 DEF PortalInv, PortalTyped
<1> QED
  BY <1>2, <1>4, <1>7, <1>8, <1>9, <1>10, <1>11, WritesKeep, SMTT(30)

\* Every state satisfies the invariant.
LEMMA PortalStarts == PortalInit => PortalInv
<1> SUFFICES ASSUME PortalInit PROVE PortalInv
  OBVIOUS
<1>1. ExamKept
  BY PortalAssumption DEF PortalInit, ExamKept
<1>2. tries = <<>> /\ tries \in Seq(Tries) /\ Numbers = {}
  BY DEF PortalInit, Numbers
<1>3. NoGrant \in [resetBefore : Nat, additional : Nat] /\ NoGrant.resetBefore = 0
  BY DEF NoGrant
<1>4. NoView \in Views /\ NoView.n = 0 /\ NoView.op = "none"
  BY DEF NoView, Views
<1>5. PortalTyped
  <2>0. MaxTime \in Nat /\ MaxTime > 0
    BY PortalAssumption
  <2>1. clock \in 1..MaxTime /\ clock = 1
    BY <2>0 DEF PortalInit
  <2>5. account \in BOOLEAN /\ unpublished \in BOOLEAN
    BY ZenonT(20) DEF PortalInit
  <2>2. allowance \in [resetBefore : Nat, additional : Nat] /\ allowance.resetBefore <= clock
    BY <1>3, <2>1 DEF PortalInit
  <2>3. portal \in Pages \cup {IdlePortal} /\ view \in Views
    BY <1>4 DEF PortalInit
  <2>4. tries \in Seq(Tries)
    BY <1>2
  <2> QED
    BY <1>1, <2>1, <2>2, <2>3, <2>4, <2>5 DEF PortalTyped
<1>6. PageHolds /\ RevealedHold /\ ViewHolds
  BY <1>4 DEF PortalInit, PageHolds, RevealedHold, ViewHolds, DetailComplete, IdlePortal
<1> QED
  BY <1>2, <1>5, <1>6 DEF PortalInv

LEMMA PortalStep == PortalInv /\ [PortalNext]_portalVars => PortalInv'
<1> SUFFICES ASSUME PortalInv, [PortalNext]_portalVars PROVE PortalInv'
  OBVIOUS
<1>1. CASE UNCHANGED portalVars
  <2>1. UNCHANGED <<clock, exam, tries, staffed, unpublished, revealed, view, portal, account,
                    allowance>>
    BY <1>1 DEF portalVars
  <2>2. PortalTyped'
    BY <2>1 DEF PortalInv, PortalTyped, ExamKept
  <2>3. PageHolds'
    BY <2>1, SameRows DEF PortalInv, PageHolds
  <2> QED
    BY <2>1, <2>2, <2>3, QuietPortal
<1>2. CASE StartAttempt
  BY <1>2, StartKeeps
<1>3. CASE PublishResults
  BY <1>3, PublishKeeps
<1>4. CASE UnpublishResults
  BY <1>4, UnpublishKeeps
<1>5. CASE \E n \in Numbers, score \in exam.scores, pending, auto \in BOOLEAN :
              EndAttempt(n, score, pending, auto)
  <2>1. PICK n \in Numbers, score \in exam.scores, pending \in BOOLEAN, auto \in BOOLEAN :
           EndAttempt(n, score, pending, auto)
    BY <1>5
  <2> QED
    BY <2>1, EndKeeps
<1>6. CASE \E n \in Numbers : CompleteReviews(n) \/ CancelAttempt(n)
  <2>1. PICK n \in Numbers : CompleteReviews(n) \/ CancelAttempt(n)
    BY <1>6
  <2> QED
    BY <2>1, ReviewsKeep, CancelKeeps
<1>7. CASE \E n \in Numbers, op \in {"detail", "attempt"} : OpenPage(op, n)
  BY <1>7, OpenPageKeeps
<1>8. CASE FindEligible
  BY <1>8, FindEligibleKeeps
<1>9. CASE UpdateEligible
  BY <1>9, UpdateKeeps
<1>10. CASE AnswerPage
  BY <1>10, AnswerPageKeeps
<1>11. CASE ResetStudentAttempts \/ GrantStudentAttempt \/ BlockStudent
  BY <1>11, StaffActs
<1>12. CASE CancelAssessment
  BY <1>12, CancelAssessmentKeeps
<1>13. CASE TimePasses
  BY <1>13, TimePassesKeeps
<1> QED
  BY <1>1, <1>2, <1>3, <1>4, <1>5, <1>6, <1>7, <1>8, <1>9, <1>10, <1>11, <1>12, <1>13
  DEF PortalNext

THEOREM PortalKeepsInvariant == PortalSpec => []PortalInv
  BY PortalStarts, PortalStep, PTL DEF PortalSpec

-----------------------------------------------------------------------------

LEMMA CardIsHonest ==
  ASSUME PortalInv
  PROVE  CardHonest
<1>1. AssessmentPage.eligible <=> ~StartRefused
  BY DEF AssessmentPage, PublicErrors, StartRefused
<1>2. PICK m \in Nat, a \in Nat, b \in Nat : /\ m = exam.maxAttempts /\ m > 0
         /\ a = allowance.additional /\ b = allowance.resetBefore
  BY DEF PortalInv, PortalTyped, ExamKept, ExamRows
<1>3. UsedAttempts = AttemptCount
  <2>1. {n \in Numbers : /\ tries[n].status \in CountedStatuses
            /\ \/ allowance.resetBefore = 0
               \/ tries[n].createdAt > allowance.resetBefore}
        = {n \in Numbers : tries[n].status \in CountedStatuses
            /\ (allowance.resetBefore # 0 => tries[n].createdAt > allowance.resetBefore)}
    OBVIOUS
  <2> QED
    BY <2>1 DEF UsedAttempts, AttemptCount
<1>4. UsedAttempts \in Nat
  <2>1. IsFiniteSet({n \in Numbers : /\ tries[n].status \in CountedStatuses
            /\ \/ allowance.resetBefore = 0
               \/ tries[n].createdAt > allowance.resetBefore})
    BY PortalRows, FS_Subset
  <2> QED
    BY <2>1, FS_CardinalityType DEF UsedAttempts
<1>5. PICK used \in Nat : used = UsedAttempts /\ used = AttemptCount
  BY <1>3, <1>4
<1>6. Max({0, allowance.additional}) = a
  BY <1>2, MaxOfTwo
<1>7. AttemptsRemaining = IF 0 >= m + a - used THEN 0 ELSE m + a - used
  <2>1. AttemptsRemaining = Max({0, m + a - used})
    BY <1>2, <1>5, <1>6 DEF AttemptsRemaining
  <2>2. m + a - used \in Int
    BY <1>2, <1>5
  <2> QED
    BY <2>1, <2>2, MaxOfTwo
<1>8. Card.remaining > 0 <=> AttemptCount < AttemptLimit
  <2>1. Card.remaining = AttemptsRemaining /\ AttemptLimit = m + a
    BY <1>2 DEF Card, AttemptLimit
  <2> QED
    BY <1>2, <1>5, <1>7, <2>1
<1> QED
  BY <1>1, <1>8 DEF CardHonest

\* An attempt of the largest score, and the last of those.
LEMMA BestIs ==
  ASSUME PortalInv, NEW ns \in SUBSET Numbers, ns # {}
  PROVE  LET best == {n \in ns : \A k \in ns : tries[k].score <= tries[n].score}
         IN  Max(best) \in best
<1> DEFINE best == {n \in ns : \A k \in ns : tries[k].score <= tries[n].score}
           sc == {tries[n].score : n \in ns}
<1>1. \A n \in ns : n \in Nat /\ tries[n].score \in Nat
  BY PortalRows DEF Tries
<1>2. IsFiniteSet(ns)
  BY PortalRows, FS_Subset
<1>3. IsFiniteSet(sc)
  <2> DEFINE f == [n \in ns |-> tries[n].score]
  <2>1. f \in Surjection(ns, sc)
    BY DEF Surjection
  <2> QED
    BY <1>2, <2>1, FS_Surjection
<1>4. sc \in SUBSET Nat /\ sc # {}
  BY <1>1
<1>5. PICK n \in ns : tries[n].score = Max(sc)
  BY <1>3, <1>4, MaxIs
<1>6. \A k \in ns : tries[k].score <= tries[n].score
  <2>1. \A y \in sc : y <= Max(sc)
    BY <1>3, <1>4, MaxIs
  <2> QED
    BY <1>5, <2>1
<1>7. n \in best
  BY <1>6
<1>8. best \in SUBSET Nat /\ IsFiniteSet(best)
  BY <1>1, <1>2, FS_Subset
<1> HIDE DEF best
<1>9. Max(best) \in best
  BY <1>7, <1>8, MaxIs
<1> QED
  BY <1>9 DEF best

\* What the final result is among the visible ones.
FinalHolds == Visible # {} =>
    /\ SelectFinal(Visible) \in Visible
    /\ exam.scoring = "FIRST" => \A n \in Visible : SelectFinal(Visible) <= n
    /\ exam.scoring = "LATEST" => \A n \in Visible : n <= SelectFinal(Visible)
    /\ exam.scoring = "BEST" =>
          \A n \in Visible : tries[n].score <= tries[SelectFinal(Visible)].score

LEMMA FinalIs == PortalInv => FinalHolds
<1> DEFINE ns == Visible
<1> SUFFICES ASSUME PortalInv, ns # {}
             PROVE  /\ SelectFinal(ns) \in ns
                    /\ exam.scoring = "FIRST" => \A n \in ns : SelectFinal(ns) <= n
                    /\ exam.scoring = "LATEST" => \A n \in ns : n <= SelectFinal(ns)
                    /\ exam.scoring = "BEST" =>
                          \A n \in ns : tries[n].score <= tries[SelectFinal(ns)].score
  BY DEF FinalHolds
<1>0. ns \in SUBSET Numbers
  BY DEF Visible
<1> HIDE DEF ns
<1>1. ns \in SUBSET Nat /\ IsFiniteSet(ns)
  BY <1>0, PortalRows, FS_Subset
<1>2. exam.scoring \in {"FIRST", "LATEST", "BEST"}
  BY PortalRows DEF ExamKept, ExamRows
<1>3. CASE exam.scoring = "FIRST"
  <2>1. SelectFinal(ns) = Min(ns)
    BY <1>3 DEF SelectFinal
  <2> QED
    BY <1>1, <1>3, <2>1, MinIs
<1>4. CASE exam.scoring = "LATEST"
  <2>1. SelectFinal(ns) = Max(ns)
    BY <1>4 DEF SelectFinal
  <2> QED
    BY <1>1, <1>4, <2>1, MaxIs
<1>5. CASE exam.scoring = "BEST"
  <2>1. SelectFinal(ns) = Max({n \in ns : \A k \in ns : tries[k].score <= tries[n].score})
    BY <1>5 DEF SelectFinal
  <2> QED
    BY <1>0, <1>5, <2>1, BestIs
<1> QED
  BY <1>2, <1>3, <1>4, <1>5

LEMMA FiltersDoAgree ==
  ASSUME PortalInv
  PROVE  FiltersAgree
<1> SUFFICES ASSUME account /\ Assigned PROVE FiltersAgree
  BY DEF FiltersAgree
<1>1. ASSUME NEW filter PROVE Count(filter) = IF Listed(filter) THEN 1 ELSE 0
  BY FS_EmptySet, FS_Singleton DEF Count, ListPage
<1>2. clock \in Nat /\ exam.startAt \in Dates /\ exam.endAt \in Dates
  BY PortalRows DEF ExamKept, ExamRows
<1>3. Dashboard.upcoming = Count("upcoming") /\ Dashboard.active = Count("active")
      /\ Dashboard.completed = Cardinality(Completed) /\ Dashboard.published = Cardinality(Visible)
  BY DEF Dashboard
<1>4. ASSUME NoDate \notin {exam.startAt, exam.endAt}
      PROVE  /\ Dashboard.upcoming = 1 <=> Card.windowState = "UPCOMING"
             /\ Dashboard.active = 1 <=> Card.windowState = "OPEN"
  <2>1. StartsAt = exam.startAt /\ EndsAt = exam.endAt /\ exam.startAt \in Nat /\ exam.endAt \in Nat
    BY <1>2, <1>4 DEF StartsAt, EndsAt, Or, Dates
  <2>2. Listed("upcoming") <=> exam.startAt > clock
    BY <1>4 DEF Listed
  <2>3. Listed("active") <=> exam.startAt <= clock /\ exam.endAt >= clock
    BY <1>4 DEF Listed
  <2>4. Card.windowState = IF exam.startAt > clock THEN "UPCOMING"
                           ELSE IF exam.endAt < clock THEN "CLOSED" ELSE "OPEN"
    BY <1>4, <2>1 DEF Card, WindowState, Ahead, Passed
  <2>5. (Dashboard.upcoming = 1 <=> Listed("upcoming"))
        /\ (Dashboard.active = 1 <=> Listed("active"))
    BY <1>1, <1>3
  <2> QED
    BY <1>2, <2>1, <2>2, <2>3, <2>4, <2>5
<1>5. ASSUME ~unpublished
      PROVE  /\ Card.final # 0 => Card.final \in Completed
             /\ Dashboard.published <= Dashboard.completed
  <2>1. Visible \subseteq Completed
    BY <1>5, PortalRows DEF Visible, VisibleWhere, Completed, TryHolds
  <2>2. Visible # {} => SelectFinal(Visible) \in Visible
    BY FinalIs DEF FinalHolds
  <2>3. Card.final # 0 => Card.final \in Completed
    BY <2>1, <2>2 DEF Card, SelectFinal
  <2>4. IsFiniteSet(Completed)
    BY PortalRows, FS_Subset DEF Completed
  <2>5. Cardinality(Visible) <= Cardinality(Completed)
    BY <2>1, <2>4, FS_Subset
  <2> QED
    BY <1>3, <2>3, <2>5
<1> QED
  BY <1>4, <1>5 DEF FiltersAgree

LEMMA PortalIsHonest ==
  ASSUME PortalInv
  PROVE  PortalHonest
<1>1. VisibilityAgrees
  BY PortalRows, QueryAgrees DEF VisibilityAgrees
<1>2. ShownWhenDue /\ ShownAfterReview
  BY DEF PortalInv, RevealedHold, Showable, ShownWhenDue, ShownAfterReview
<1>3. DetailComplete
  BY DEF PortalInv, ViewHolds
<1>4. PortalTypeOK
  <2>1. revealed \subseteq Numbers /\ view.n \in {0} \cup Numbers
    BY DEF PortalInv, RevealedHold, ViewHolds
  <2>2. \A n \in Numbers : /\ tries[n].score \in exam.scores \cup {0}
                           /\ tries[n].createdAt <= clock
                           /\ tries[n].evaluation = "NONE" => ~tries[n].published
    BY PortalRows DEF TryHolds, Showable
  <2> QED
    BY <2>1, <2>2 DEF PortalInv, PortalTyped, PortalTypeOK
<1> QED
  BY <1>1, <1>2, <1>3, <1>4, CardIsHonest, FiltersDoAgree DEF PortalHonest

\* What the portal says about starting, windows and results agrees with what the
\* server does, for any assessments, attempts, dates and requests.
THEOREM PortalAgrees == PortalSpec => []PortalHonest
  BY PortalKeepsInvariant, PortalIsHonest, PTL

\* A finished evaluation stays finished and keeps its score; a published result
\* stays published, unless it is unpublished.
Finished(n) == tries[n].evaluation \in {"READY", "PUBLISHED"}

LEMMA RowSteps ==
  ASSUME PortalInv, [PortalNext]_portalVars, NEW n \in Numbers
  PROVE  /\ n \in Numbers' /\ SameExam /\ clock' \in Nat /\ clock <= clock'
         /\ tries[n].published => tries'[n].published \/ UnpublishResults
         /\ Finished(n) => Finished(n)' /\ tries'[n].score = tries[n].score
<1>1. clock \in Nat /\ exam \in ExamRows /\ tries[n] \in Tries /\ TryHolds(n)
  BY PortalRows DEF ExamKept
<1>2. ASSUME UNCHANGED <<clock, exam>>
      PROVE  SameExam /\ clock' \in Nat /\ clock <= clock'
  BY <1>1, <1>2 DEF SameExam
<1>3. ASSUME UNCHANGED tries
      PROVE  /\ n \in Numbers' /\ (tries[n].published => tries'[n].published)
             /\ (Finished(n) => Finished(n)' /\ tries'[n].score = tries[n].score)
  BY <1>3 DEF Numbers, Finished
<1>4. CASE \/ UNCHANGED portalVars \/ FindEligible \/ AnswerPage \/ ResetStudentAttempts
           \/ GrantStudentAttempt \/ BlockStudent
           \/ \E k \in Numbers, op \in {"detail", "attempt"} : OpenPage(op, k)
  <2>1. UNCHANGED <<clock, exam, tries>>
    BY <1>4 DEF portalVars, FindEligible, AnswerPage, ResetStudentAttempts,
       GrantStudentAttempt, BlockStudent, OpenPage
  <2> QED
    BY <1>2, <1>3, <2>1
<1>5. CASE TimePasses
  <2>1. UNCHANGED <<exam, tries>> /\ clock' = clock + 1
    BY <1>5 DEF TimePasses
  <2> QED
    BY <1>1, <1>3, <2>1 DEF SameExam
<1>6. CASE CancelAssessment
  <2>1. UNCHANGED <<clock, tries>> /\ exam' = [exam EXCEPT !.status = "CANCELLED"]
    BY <1>6 DEF CancelAssessment
  <2> QED
    BY <1>1, <1>3, <2>1 DEF SameExam, ExamRows
<1>7. CASE StartAttempt
  <2>1. PICK new : tries' = Append(tries, new) /\ UNCHANGED <<clock, exam>>
    BY <1>7 DEF StartAttempt
  <2>2. n \in Numbers' /\ tries'[n] = tries[n]
    BY <2>1, PortalRows DEF Numbers
  <2> QED
    BY <1>2, <2>1, <2>2 DEF Finished
<1>8. CASE \E k \in Numbers, score \in exam.scores, pending, auto \in BOOLEAN :
              EndAttempt(k, score, pending, auto)
  <2>1. PICK k \in Numbers, score \in exam.scores, pending \in BOOLEAN, auto \in BOOLEAN :
           EndAttempt(k, score, pending, auto)
    BY <1>8
  <2>2. PICK r : tries[k].status = "IN_PROGRESS" /\ tries' = [tries EXCEPT ![k] = r]
                 /\ UNCHANGED <<clock, exam>>
    BY <2>1, ZenonT(60) DEF EndAttempt
  <2>3. n \in Numbers' /\ (n # k => tries'[n] = tries[n])
    BY <2>2, PortalRows DEF Numbers
  <2>4. n = k => ~tries[n].published /\ ~Finished(n)
    BY <1>1, <2>2 DEF TryHolds, Showable, Finished
  <2> QED
    BY <1>2, <2>2, <2>3, <2>4 DEF Finished
<1>9. CASE \E k \in Numbers : CompleteReviews(k) \/ CancelAttempt(k)
  <2>1. PICK k \in Numbers : CompleteReviews(k) \/ CancelAttempt(k)
    BY <1>9
  <2>2. CASE CompleteReviews(k)
    <3>1. PICK r : r = [tries[k] EXCEPT !.status = "EVALUATED", !.evaluation = "READY"]
      OBVIOUS
    <3>2. tries' = [tries EXCEPT ![k] = r] /\ UNCHANGED <<clock, exam>>
      BY <2>2, <3>1 DEF CompleteReviews
    <3>3. r.evaluation = "READY" /\ r.published = tries[k].published /\ r.score = tries[k].score
      BY <3>1, PortalRows DEF Tries
    <3>4. n \in Numbers' /\ tries'[n] = IF n = k THEN r ELSE tries[n]
      BY <3>2, PortalRows DEF Numbers
    <3> QED
      BY <1>2, <3>2, <3>3, <3>4 DEF Finished
  <2>3. CASE CancelAttempt(k)
    <3>1. PICK r : r = [tries[k] EXCEPT !.status = "CANCELLED"]
      OBVIOUS
    <3>2. tries' = [tries EXCEPT ![k] = r] /\ UNCHANGED <<clock, exam>>
      BY <2>3, <3>1 DEF CancelAttempt
    <3>3. r.evaluation = tries[k].evaluation /\ r.published = tries[k].published
          /\ r.score = tries[k].score
      BY <3>1, PortalRows DEF Tries
    <3>4. n \in Numbers' /\ tries'[n] = IF n = k THEN r ELSE tries[n]
      BY <3>2, PortalRows DEF Numbers
    <3> QED
      BY <1>2, <3>2, <3>3, <3>4 DEF Finished
  <2> QED
    BY <2>1, <2>2, <2>3
<1>10. CASE PublishResults
  <2>1. PICK r : r = [tries[n] EXCEPT !.published = TRUE, !.evaluation = "PUBLISHED"]
    OBVIOUS
  <2>2. n \in Numbers' /\ tries'[n] = (IF n \in Graded THEN r ELSE tries[n])
        /\ UNCHANGED <<clock, exam>>
    BY <1>10, <2>1 DEF PublishResults, Numbers
  <2>3. r.evaluation = "PUBLISHED" /\ r.published = TRUE /\ r.score = tries[n].score
    BY <1>1, <2>1 DEF Tries
  <2> QED
    BY <1>2, <2>2, <2>3 DEF Finished
<1>11. CASE UnpublishResults
  <2>1. PICK r : r = [tries[n] EXCEPT !.published = FALSE, !.evaluation = "READY"]
    OBVIOUS
  <2>2. n \in Numbers' /\ tries'[n] = (IF n \in Graded THEN r ELSE tries[n])
        /\ UNCHANGED <<clock, exam>>
    BY <1>11, <2>1 DEF UnpublishResults, Numbers
  <2>3. r.evaluation = "READY" /\ r.score = tries[n].score
    BY <1>1, <2>1 DEF Tries
  <2> QED
    BY <1>2, <1>11, <2>2, <2>3 DEF Finished
<1>12. CASE UpdateEligible
  <2>1. PICK r : r = [tries[n] EXCEPT !.published = TRUE]
    OBVIOUS
  <2>2. n \in Numbers' /\ tries'[n] = (IF n \in portal.ids THEN r ELSE tries[n])
        /\ UNCHANGED <<clock, exam>>
    BY <1>12, <2>1 DEF UpdateEligible, Numbers
  <2>3. r.evaluation = tries[n].evaluation /\ r.published = TRUE /\ r.score = tries[n].score
    BY <1>1, <2>1 DEF Tries
  <2> QED
    BY <1>2, <2>2, <2>3 DEF Finished
<1> QED
  BY <1>4, <1>5, <1>6, <1>7, <1>8, <1>9, <1>10, <1>11, <1>12 DEF PortalNext

\* Whatever is not an unpublication takes no visible result away, for any
\* assessments, attempts and dates.
THEOREM NothingTakenAway == PortalSpec => FinalMonotone
<1>1. PortalInv /\ PortalInv' /\ [PortalNext]_portalVars
         => [Visible \subseteq Visible' \/ UnpublishResults]_portalVars
  <2> SUFFICES ASSUME PortalInv, PortalInv', [PortalNext]_portalVars, ~UnpublishResults,
                      NEW n \in Visible
               PROVE  n \in Visible'
    OBVIOUS
  <2>1. n \in Numbers /\ Finished(n)
    BY DEF Visible, VisibleWhere, Finished
  <2>2. /\ n \in Numbers' /\ SameExam /\ clock' \in Nat /\ clock <= clock' /\ Finished(n)'
        /\ tries[n].published => tries'[n].published
    BY <2>1, RowSteps
  <2>3. ExamKept /\ ExamKept' /\ clock \in Nat
    BY PortalRows DEF PortalInv, PortalTyped
  <2> QED
    BY <2>2, <2>3, VisibleStays DEF Finished
<1> QED
  BY <1>1, PortalKeepsInvariant, PTL DEF PortalSpec, FinalMonotone

\* The final result moves only in the direction of the scoring policy, while no
\* result is taken away, for any assessments, attempts and dates.
THEOREM FinalFollowsPolicy == PortalSpec => FinalByPolicy
<1> DEFINE A == Visible \subseteq Visible' /\ Visible # {} =>
        LET old == SelectFinal(Visible)  new == SelectFinal(Visible)'
        IN CASE exam.scoring = "FIRST" -> new <= old [] exam.scoring = "LATEST" -> new >= old
             [] OTHER -> tries'[new].score >= tries[old].score
<1>1. PortalInv /\ FinalHolds /\ FinalHolds' /\ [PortalNext]_portalVars => [A]_portalVars
  <2> SUFFICES ASSUME PortalInv, FinalHolds, FinalHolds', [PortalNext]_portalVars,
                      Visible \subseteq Visible', Visible # {}
               PROVE  LET old == SelectFinal(Visible)  new == SelectFinal(Visible)'
                      IN CASE exam.scoring = "FIRST" -> new <= old
                           [] exam.scoring = "LATEST" -> new >= old
                           [] OTHER -> tries'[new].score >= tries[old].score
    OBVIOUS
  <2>1. PICK old : old = SelectFinal(Visible)
    OBVIOUS
  <2>2. PICK new : new = SelectFinal(Visible)'
    OBVIOUS
  <2>3. Visible \in SUBSET Numbers /\ Visible' \in SUBSET Numbers' /\ Visible' # {}
    BY DEF Visible
  <2>4. /\ old \in Visible
        /\ exam.scoring = "FIRST" => \A n \in Visible : old <= n
        /\ exam.scoring = "LATEST" => \A n \in Visible : n <= old
        /\ exam.scoring = "BEST" => \A n \in Visible : tries[n].score <= tries[old].score
    BY <2>1, <2>3 DEF FinalHolds
  <2>5. /\ new \in Visible'
        /\ exam'.scoring = "FIRST" => \A n \in Visible' : new <= n
        /\ exam'.scoring = "LATEST" => \A n \in Visible' : n <= new
        /\ exam'.scoring = "BEST" => \A n \in Visible' : tries'[n].score <= tries'[new].score
    BY <2>2, <2>3 DEF FinalHolds
  <2>6. exam'.scoring = exam.scoring /\ tries'[old].score = tries[old].score
    <3>1. old \in Numbers /\ Finished(old)
      BY <2>4 DEF Visible, VisibleWhere, Finished
    <3> QED
      BY <3>1, RowSteps DEF SameExam
  <2>7. old \in Visible' /\ exam.scoring \in {"FIRST", "LATEST", "BEST"}
    BY <2>4, PortalRows DEF ExamKept, ExamRows
  <2> QED
    BY <2>1, <2>2, <2>4, <2>5, <2>6, <2>7
<1> QED
  BY <1>1, FinalIs, PortalKeepsInvariant, PTL DEF PortalSpec, FinalByPolicy

(***************************************************************************)
(* Policies, evidence, reviews and risk.                                   *)
(***************************************************************************)

Statements == {"idle", "default", "upsert", "store", "delete", "select", "reviews", "remove",
               "count", "flag", "record", "decide", "risk", "score"}
ReviewStates == ActiveReview \cup ReviewOutcomes
PolicyRow == [college : Colleges \cup {None}, assessment : Assessments \cup {0},
              default : BOOLEAN, active : BOOLEAN, days : Days \cup {0}]
EvidenceRow == [session : Sessions \cup {None}, hold : BOOLEAN, expired : BOOLEAN,
                days : Days \cup {0}, stored : BOOLEAN]
JobRow == [status : {"NONE", "PROCESSING", "COMPLETED"}, college : Colleges \cup {None},
           count : Nat, removed : Nat, raced : BOOLEAN, orphan : BOOLEAN]
Handlers == [op : Statements, user : Users \cup {None}, session : Sessions \cup {None},
             days : Days \cup {0}, sum : Nat, ids : SUBSET Items, job : Jobs \cup {0},
             after : SUBSET Items, reopened : SUBSET Sessions, then : {"", "evidence"},
             data : ReviewStates \cup {None}]

PolicyTypes == /\ policy \in [Policies -> PolicyRow] /\ recent \in Seq(Policies)
               /\ snapshot \in [Sessions -> Days \cup {0}] /\ doubled \subseteq Colleges
EvidenceTypes == /\ evidence \in [Items -> EvidenceRow] /\ job \in [Jobs -> JobRow]
                 /\ review \in [Sessions -> ReviewStates \cup {"NONE"}]
RiskTypes == /\ riskSum \in [Sessions -> Nat] /\ risk \in [Sessions -> 0..RiskCap]
             /\ unsettled \subseteq Sessions
HandlerTypes == /\ req \in [Requests -> Handlers]
                /\ requests \in 0..MaxRequests /\ crashes \in 0..MaxCrashes

(* The policies that exist are in the order of their updates, once each.   *)
RecentHolds ==
    /\ \A p \in Policies : policy[p].days = 0 <=> \A i \in DOMAIN recent : recent[i] # p
    /\ \A i, j \in DOMAIN recent : recent[i] = recent[j] => i = j
    /\ \A p \in Policies : policy[p].days = 0 => policy[p] = NoPolicy

(* Who is about to create a default has found none.                        *)
DefaultOf(p, c) == policy[p].default /\ policy[p].active /\ policy[p].college = c
DefaultsHold == \A c \in Colleges \ doubled :
    /\ \A p, q \in Policies : DefaultOf(p, c) /\ DefaultOf(q, c) => p = q
    /\ \A r \in Requests, p \in Policies :
          req[r].op = "default" /\ SessionCollege[req[r].session] = c => ~DefaultOf(p, c)

(* Evidence, stored or about to be, has the days of its session's snapshot. *)
Known(h) ==
    /\ h.op \in {"default", "upsert", "store", "flag", "record", "decide", "risk", "score"}
          => h.session \in Sessions
    /\ h.op = "upsert" => h.days # 0
    /\ h.op = "store" => h.days # 0 /\ h.days = snapshot[h.session]
    /\ h.op = "decide" => h.data \in ReviewStates
RowKnown(e) == evidence[e] # NoEvidence =>
    /\ evidence[e].session \in Sessions /\ evidence[e].days # 0
    /\ evidence[e].days = snapshot[evidence[e].session]
SnapshotHolds == (\A r \in Requests : Known(req[r])) /\ \A e \in Items : RowKnown(e)

(* What a deletion has in its list.                                        *)
ListHolds(r) ==
    /\ req[r].op \in {"select", "reviews", "remove", "count"} <=> req[r].job # 0
    /\ req[r].op \notin {"delete", "reviews", "remove", "count"} => req[r].ids = {}
    /\ \A e \in req[r].ids : evidence[e] # NoEvidence
    /\ req[r].op \in {"delete", "reviews", "remove"} =>
          \A e \in req[r].ids : evidence[e].hold => e \in req[r].after
    /\ req[r].op = "remove" => \A e \in req[r].ids :
          review[evidence[e].session] \in ActiveReview => evidence[e].session \in req[r].reopened
    /\ req[r].job # 0 =>
          /\ job[req[r].job].status = "PROCESSING"
          /\ \A q \in Requests : req[q].job = req[r].job => q = r
          /\ req[r].op \in {"reviews", "remove"} /\ ~job[req[r].job].raced =>
                \A e \in req[r].ids : evidence[e].stored
          /\ req[r].op = "count" /\ ~job[req[r].job].raced =>
                job[req[r].job].removed = Cardinality(req[r].ids)
ListsHold == \A r \in Requests : ListHolds(r)
JobsHold == JobTruthful /\ \A j \in Jobs : job[j].status = "NONE" => job[j] = NoJob

(* A risk score that is not the capped sum waits for a recalculation that   *)
(* reads the sum, or has read it.                                          *)
Scored(s) == risk[s] = Min({riskSum[s], RiskCap})
Rescoring(s) == \E r \in Requests : req[r].op = "risk" /\ req[r].session = s
Writing(r, s) == req[r].op = "score" /\ req[r].session = s
RiskHolds(s) ==
    /\ \A q, r \in Requests : Writing(q, s) /\ Writing(r, s) => q = r
    /\ \A r \in Requests : Writing(r, s) => req[r].sum = riskSum[s] \/ Rescoring(s)
    /\ Scored(s) \/ Rescoring(s) \/ \E r \in Requests : Writing(r, s)
RisksHold == \A s \in Sessions \ unsettled : RiskHolds(s)

EvidenceInv == /\ PolicyTypes /\ EvidenceTypes /\ RiskTypes /\ HandlerTypes
               /\ RecentHolds /\ DefaultsHold /\ SnapshotHolds
               /\ ListsHold /\ JobsHold /\ RisksHold

(* The constants.                                                          *)
LEMMA RecordBounds ==
  /\ RiskCap \in Nat /\ Batch \in Nat /\ MaxPolicies \in Nat /\ MaxEvidence \in Nat
  /\ MaxJobs \in Nat /\ MaxRequests \in Nat /\ MaxCrashes \in Nat
<1>1. {RiskCap, Batch, MaxPolicies, MaxEvidence, MaxJobs, MaxRequests, MaxCrashes} \subseteq Nat
  BY EvidenceAssumption
<1> QED
  BY <1>1

LEMMA DaysAndIds ==
  /\ Days \subseteq Nat /\ 0 \notin Days /\ DefaultDays \in Days /\ RiskDeltas \subseteq Nat
  /\ Assessments \subseteq Nat /\ 0 \notin Assessments
  /\ None \notin Sessions /\ None \notin Colleges
  BY EvidenceAssumption

LEMMA SessionColumns ==
  /\ \A s \in Sessions : SessionCollege[s] \in Colleges /\ SessionStudent[s] \in Users
  /\ \A u \in Users : UserCollege[u] \in Colleges \cup {None}
  BY EvidenceAssumption

LEMMA AssessmentIds == \A a \in Assessments \cup {0} : a \in Nat
  BY DaysAndIds

LEMMA SmallSets == IsFiniteSet(Policies) /\ IsFiniteSet(Items) /\ IsFiniteSet(Jobs)
                   /\ Policies \in SUBSET Nat /\ Items \in SUBSET Nat /\ Jobs \in SUBSET Nat
<1>1. MaxPolicies \in Int /\ MaxEvidence \in Int /\ MaxJobs \in Int /\ 1 \in Int
  BY RecordBounds
<1>2. IsFiniteSet(1..MaxPolicies) /\ IsFiniteSet(1..MaxEvidence) /\ IsFiniteSet(1..MaxJobs)
  BY <1>1, FS_Interval
<1> QED
  BY <1>1, <1>2 DEF Policies, Items, Jobs

(* The first free row of a table is a free row of it.                      *)
LEMMA FreeIsFree ==
  ASSUME NEW T, NEW free, DOMAIN T \in SUBSET Nat, HasFree(T, free)
  PROVE  Free(T, free) \in DOMAIN T /\ T[Free(T, free)] = free
<1> DEFINE S == DOMAIN T \ Rows(T, free)
<1>1. S \in SUBSET Nat /\ S # {}
  BY DEF HasFree, Rows
<1>2. Min(S) \in S
  <2> HIDE DEF S
  <2> QED
    BY <1>1, MinIs
<1>3. Free(T, free) = Min(S)
  BY DEF Free
<1> QED
  BY <1>2, <1>3 DEF Rows

-----------------------------------------------------------------------------
(* The order of the updates. *)

LEMMA UpdatedAtIs ==
  ASSUME PolicyTypes, NEW p, NEW i \in DOMAIN recent, recent[i] = p
  PROVE  UpdatedAt(p) \in DOMAIN recent /\ recent[UpdatedAt(p)] = p
  BY DEF UpdatedAt

(* Without(p): the order of the other policies stays.                      *)
LEMMA WithoutIs ==
  ASSUME PolicyTypes, RecentHolds, NEW p \in Policies
  PROVE  /\ Without(p) \in Seq(Policies)
         /\ \A q \in Policies : (\E i \in DOMAIN Without(p) : Without(p)[i] = q)
                <=> q # p /\ \E i \in DOMAIN recent : recent[i] = q
         /\ \A i, j \in DOMAIN Without(p) : Without(p)[i] = Without(p)[j] => i = j
<1>1. recent \in Seq(Policies) /\ Len(recent) \in Nat /\ DOMAIN recent = 1..Len(recent)
      /\ \A i \in 1..Len(recent) : recent[i] \in Policies
  BY LenProperties, ElementOfSeq DEF PolicyTypes
<1>2. \A i, j \in 1..Len(recent) : recent[i] = recent[j] => i = j
  BY <1>1 DEF RecentHolds
<1>3. CASE \A i \in DOMAIN recent : recent[i] # p
  <2>1. Without(p) = recent
    BY <1>3 DEF Without
  <2> QED
    BY <2>1, <1>1, <1>2, <1>3
<1>4. CASE \E i \in DOMAIN recent : recent[i] = p
  <2> DEFINE k == UpdatedAt(p)
             n == Len(recent) - 1
             W == [i \in 1..n |-> IF i < k THEN recent[i] ELSE recent[i + 1]]
  <2>1. k \in 1..Len(recent) /\ recent[k] = p
    BY <1>4, <1>1, UpdatedAtIs
  <2>2. Without(p) = W
    BY <1>4 DEF Without
  <2> HIDE DEF k
  <2>3. n \in Nat /\ \A i \in 1..n : i \in 1..Len(recent) /\ i + 1 \in 1..Len(recent)
    BY <2>1, <1>1
  <2>4. \A i \in 1..n : W[i] = (IF i < k THEN recent[i] ELSE recent[i + 1]) /\ W[i] \in Policies
    BY <1>1, <2>3
  <2>5. W \in Seq(Policies) /\ DOMAIN W = 1..n
    <3>1. W \in [1..n -> Policies]
      BY <2>4
    <3>2. n \in Nat
      BY <2>3
    <3> HIDE DEF W, n
    <3>3. W \in UNION {[1..m -> Policies] : m \in Nat}
      BY <3>1, <3>2, Zenon
    <3>4. DOMAIN W = 1..n
      BY <3>1
    <3>5. Seq(Policies) = UNION {[1..m -> Policies] : m \in Nat}
      BY SeqDef
    <3> QED
      BY <3>3, <3>4, <3>5, Zenon
  <2> HIDE DEF W
  <2>6. ASSUME NEW q \in Policies, NEW i \in 1..n, W[i] = q
        PROVE  q # p /\ \E j \in DOMAIN recent : recent[j] = q
    <3>1. CASE i < k
      <4>1. i \in 1..Len(recent) /\ recent[i] = q /\ i # k
        BY <3>1, <2>6, <2>4, <2>3, <2>1, <1>1
      <4> QED
        BY <4>1, <2>1, <1>1, <1>2
    <3>2. CASE ~(i < k)
      <4>1. i + 1 \in 1..Len(recent) /\ recent[i + 1] = q /\ i + 1 # k
        BY <3>2, <2>6, <2>4, <2>3, <2>1, <1>1
      <4> QED
        BY <4>1, <2>1, <1>1, <1>2
    <3> QED
      BY <3>1, <3>2
  <2>7. ASSUME NEW q \in Policies, q # p, NEW i \in 1..Len(recent), recent[i] = q
        PROVE  \E j \in 1..n : W[j] = q
    <3>1. i # k
      BY <2>7, <2>1
    <3>2. CASE i < k
      <4>1. i \in 1..n
        BY <3>2, <2>1, <1>1
      <4> QED
        BY <4>1, <3>2, <2>4, <2>7
    <3>3. CASE i > k
      <4>1. i - 1 \in 1..n /\ ~(i - 1 < k) /\ (i - 1) + 1 = i
        BY <3>3, <2>1, <1>1
      <4>2. W[i - 1] = recent[(i - 1) + 1]
        BY <4>1, <2>4
      <4> QED
        BY <4>1, <4>2, <2>7
    <3> QED
      BY <3>1, <3>2, <3>3, <2>1, <1>1
  <2>8. ASSUME NEW i \in 1..n, NEW j \in 1..n, W[i] = W[j] PROVE i = j
    BY <2>8, <2>4, <2>3, <2>1, <1>1, <1>2
  <2> QED
    BY <2>2, <2>5, <2>6, <2>7, <2>8, <1>1
<1> QED
  BY <1>3, <1>4

(* A policy that is created or changed goes to the end of the order.       *)
LEMMA TouchHolds ==
  ASSUME PolicyTypes, RecentHolds, NEW p \in Policies, Touch(p),
         policy' \in [Policies -> PolicyRow], policy'[p].days # 0,
         \A q \in Policies \ {p} : policy'[q] = policy[q]
  PROVE  recent' \in Seq(Policies) /\ RecentHolds'
<1> DEFINE W == Without(p)
<1>1. /\ W \in Seq(Policies)
      /\ \A q \in Policies : (\E i \in DOMAIN W : W[i] = q)
             <=> q # p /\ \E i \in DOMAIN recent : recent[i] = q
      /\ \A i, j \in DOMAIN W : W[i] = W[j] => i = j
  BY WithoutIs
<1>2. recent' = Append(W, p)
  BY DEF Touch
<1> HIDE DEF W
<1>3. DOMAIN W = 1..Len(W) /\ Len(W) \in Nat /\ \A i \in 1..Len(W) : W[i] \in Policies
  BY <1>1, LenProperties, ElementOfSeq
<1>4. /\ recent' \in Seq(Policies) /\ Len(recent') = Len(W) + 1 /\ DOMAIN recent' = 1..Len(W) + 1
      /\ \A i \in 1..Len(W) : recent'[i] = W[i]
      /\ recent'[Len(W) + 1] = p
  BY <1>1, <1>2, <1>3
<1>5. \A i \in 1..Len(W) : W[i] # p
  BY <1>1, <1>3
<1>6. \A q \in Policies : (\E i \in DOMAIN recent' : recent'[i] = q) <=> q = p \/ \E i \in DOMAIN W : W[i] = q
  <2>1. \A i \in 1..Len(W) + 1 : i \in 1..Len(W) \/ i = Len(W) + 1
    BY <1>3
  <2>2. 1..Len(W) \subseteq 1..Len(W) + 1 /\ Len(W) + 1 \in 1..Len(W) + 1
    BY <1>3
  <2> QED
    BY <2>1, <2>2, <1>3, <1>4
<1>7. \A i, j \in DOMAIN recent' : recent'[i] = recent'[j] => i = j
  BY <1>1, <1>3, <1>4, <1>5
<1>8. \A q \in Policies : (\E i \in DOMAIN recent' : recent'[i] = q)
          <=> q = p \/ \E i \in DOMAIN recent : recent[i] = q
  BY <1>6, <1>1
<1>9. \A q \in Policies : policy'[q].days = 0 <=> \A i \in DOMAIN recent' : recent'[i] # q
  <2>1. \A q \in Policies : policy[q].days = 0 <=> \A i \in DOMAIN recent : recent[i] # q
    BY DEF RecentHolds
  <2> QED
    BY <2>1, <1>8
<1>10. \A q \in Policies : policy'[q].days = 0 => policy'[q] = NoPolicy
  BY DEF RecentHolds
<1> QED
  BY <1>4, <1>7, <1>9, <1>10 DEF RecentHolds

-----------------------------------------------------------------------------
(* The query of resolvePolicy.                                             *)

LEMMA RowsAreUpdated ==
  ASSUME PolicyTypes, RecentHolds, NEW p \in Rows(policy, NoPolicy)
  PROVE  p \in Policies /\ policy[p] \in PolicyRow /\ policy[p].days # 0
         /\ policy[p].assessment \in Nat
         /\ UpdatedAt(p) \in Nat /\ recent[UpdatedAt(p)] = p
<1>1. p \in Policies /\ policy[p] \in PolicyRow /\ policy[p] # NoPolicy
  BY DEF PolicyTypes, Rows
<1>2. policy[p].days # 0
  BY <1>1 DEF RecentHolds
<1>3. \E i \in DOMAIN recent : recent[i] = p
  BY <1>1, <1>2 DEF RecentHolds
<1>4. DOMAIN recent \subseteq Nat
  BY LenProperties DEF PolicyTypes
<1>5. policy[p].assessment \in Assessments \cup {0}
  BY <1>1 DEF PolicyRow
<1>6. policy[p].assessment \in Nat
  BY <1>5, AssessmentIds
<1> QED
  BY <1>1, <1>2, <1>3, <1>4, <1>5, <1>6, UpdatedAtIs

\* The order of the query is total and transitive.
LEMMA BeforeTotal ==
  ASSUME PolicyTypes, RecentHolds, NEW p \in Rows(policy, NoPolicy),
         NEW q \in Rows(policy, NoPolicy), p # q
  PROVE  Before(p, q) \/ Before(q, p)
<1> DEFINE a == policy[p].assessment
           b == policy[q].assessment
           d == policy[p].default
           e == policy[q].default
           u == UpdatedAt(p)
           v == UpdatedAt(q)
<1>1. u \in Nat /\ v \in Nat /\ u # v
  BY RowsAreUpdated
<1>2. a \in Nat /\ b \in Nat
  BY RowsAreUpdated
<1>5. Before(p, q) <=> \/ a # b /\ (a = 0 \/ (b # 0 /\ a > b))
                       \/ a = b /\ d /\ ~e
                       \/ a = b /\ (d <=> e) /\ u > v
  BY Zenon DEF Before
<1>6. Before(q, p) <=> \/ b # a /\ (b = 0 \/ (a # 0 /\ b > a))
                       \/ b = a /\ e /\ ~d
                       \/ b = a /\ (e <=> d) /\ v > u
  BY Zenon DEF Before
<1> HIDE DEF a, b, d, e, u, v
<1>7. u > v \/ v > u
  BY <1>1
<1>8. a = b \/ (a # b /\ (a = 0 \/ (b # 0 /\ a > b))) \/ (b # a /\ (b = 0 \/ (a # 0 /\ b > a)))
  BY <1>2
<1> QED
  BY <1>5, <1>6, <1>7, <1>8, ZenonT(20)

LEMMA BeforeTransitive ==
  ASSUME PolicyTypes, RecentHolds, NEW p \in Rows(policy, NoPolicy),
         NEW q \in Rows(policy, NoPolicy), NEW r \in Rows(policy, NoPolicy),
         Before(p, q), Before(q, r)
  PROVE  Before(p, r)
<1> DEFINE a == policy[p].assessment
           b == policy[q].assessment
           c == policy[r].assessment
           d == policy[p].default
           e == policy[q].default
           f == policy[r].default
           u == UpdatedAt(p)
           v == UpdatedAt(q)
           w == UpdatedAt(r)
           Above(x, y) == x # y /\ (x = 0 \/ (y # 0 /\ x > y))
<1>1. u \in Nat /\ v \in Nat /\ w \in Nat
  BY RowsAreUpdated
<1>2. a \in Nat /\ b \in Nat /\ c \in Nat
  BY RowsAreUpdated
<1>3. Above(a, b) \/ (a = b /\ d /\ ~e) \/ (a = b /\ (d <=> e) /\ u > v)
  BY Zenon DEF Before
<1>4. Above(b, c) \/ (b = c /\ e /\ ~f) \/ (b = c /\ (e <=> f) /\ v > w)
  BY Zenon DEF Before
<1>5. Before(p, r) <=> Above(a, c) \/ (a = c /\ d /\ ~f) \/ (a = c /\ (d <=> f) /\ u > w)
  BY Zenon DEF Before
<1> HIDE DEF a, b, c, d, e, f, u, v, w
<1>6. Above(a, b) /\ (Above(b, c) \/ b = c) => Above(a, c)
  BY <1>2
<1>7. a = b /\ Above(b, c) => Above(a, c)
  OBVIOUS
<1>8. u > v /\ v > w => u > w
  BY <1>1
<1>9. CASE Above(a, b) \/ Above(b, c)
  BY <1>9, <1>3, <1>4, <1>5, <1>6, <1>7
<1>10. CASE d /\ ~e
  BY <1>10, <1>3, <1>4, <1>5, <1>6
<1>11. CASE (d <=> e) /\ u > v
  BY <1>11, <1>3, <1>4, <1>5, <1>6, <1>7, <1>8
<1> QED
  BY <1>3, <1>9, <1>10, <1>11

\* The first entry is one of the rows.
LEMMA ChosenIs ==
  ASSUME PolicyTypes, RecentHolds, NEW s, Candidates(s) # {}
  PROVE  Chosen(s) \in Candidates(s) /\ policy[Chosen(s)].days \in Days
<1> DEFINE C == Candidates(s)
           G == {T \in SUBSET C : T = {} \/ \E p \in T : \A q \in T \ {p} : Before(p, q)}
<1>1. C \subseteq Rows(policy, NoPolicy) /\ IsFiniteSet(C)
  <2>1. C \subseteq Rows(policy, NoPolicy)
    BY DEF Candidates
  <2>2. Rows(policy, NoPolicy) \subseteq Policies
    BY RowsAreUpdated
  <2> HIDE DEF C
  <2> QED
    BY <2>1, <2>2, SmallSets, FS_Subset
<1>2. ASSUME NEW T \in G, NEW z \in C \ T PROVE T \cup {z} \in G
  <2>1. CASE T = {}
    BY <2>1
  <2>2. CASE T # {}
    <3>1. PICK p \in T : \A q \in T \ {p} : Before(p, q)
      BY <2>2
    <3>2. p # z /\ p \in C /\ T \subseteq C
      BY <1>2
    <3>3. CASE Before(p, z)
      BY <3>1, <3>2, <3>3
    <3>4. CASE Before(z, p)
      <4>1. ASSUME NEW q \in T PROVE Before(z, q)
        <5>1. CASE q = p
          BY <5>1, <3>4
        <5>2. CASE q # p
          <6>1. Before(p, q)
            BY <5>2, <3>1
          <6> QED
            BY <6>1, <3>4, <3>2, <1>1, BeforeTransitive
        <5> QED
          BY <5>1, <5>2
      <4> QED
        BY <4>1, <3>2
    <3> QED
      BY <3>2, <3>3, <3>4, <1>1, BeforeTotal
  <2> QED
    BY <2>1, <2>2
<1>3. C \in G
  <2>1. G \in SUBSET (SUBSET C) /\ {} \in G
    OBVIOUS
  <2> HIDE DEF G, C
  <2> QED
    BY <1>1, <1>2, <2>1, Grows
<1>4. \E p \in C : \A q \in C \ {p} : Before(p, q)
  BY <1>3
<1>5. Chosen(s) \in C
  BY <1>4 DEF Chosen
<1> QED
  BY <1>5, <1>1, RowsAreUpdated DEF PolicyRow

\* A default of the session's college is a entry the query finds.
LEMMA DefaultsAreFound ==
  ASSUME PolicyTypes, NEW s \in Sessions, NEW p \in Policies,
         DefaultOf(p, SessionCollege[s])
  PROVE  p \in Candidates(s)
<1>1. policy[p].default /\ policy[p].active /\ policy[p].college = SessionCollege[s]
  BY DEF DefaultOf
<1>2. policy[p] # NoPolicy
  BY <1>1 DEF NoPolicy
<1> QED
  BY <1>1, <1>2 DEF Candidates, Rows, PolicyTypes

-----------------------------------------------------------------------------
(* What the invariant says.                                                *)

LEMMA RecentCounts ==
  ASSUME PolicyTypes, RecentHolds
  PROVE  /\ {recent[i] : i \in DOMAIN recent} = {p \in Policies : policy[p].days # 0}
         /\ Len(recent) = Cardinality({p \in Policies : policy[p].days # 0})
<1> DEFINE S == {p \in Policies : policy[p].days # 0}
           n == Len(recent)
<1>1. n \in Nat /\ DOMAIN recent = 1..n /\ recent \in [1..n -> Policies]
  BY LenProperties DEF PolicyTypes
<1>2. \A p \in Policies : p \in S <=> \E i \in 1..n : recent[i] = p
  BY <1>1 DEF RecentHolds
<1>3. \A i, j \in 1..n : recent[i] = recent[j] => i = j
  BY <1>1 DEF RecentHolds
<1> HIDE DEF n
<1>4. S \subseteq Policies
  OBVIOUS
<1> HIDE DEF S
<1>5. recent \in [1..n -> S] /\ \A p \in S : \E i \in 1..n : recent[i] = p
  BY <1>1, <1>2, <1>4
<1>6. recent \in Bijection(1..n, S)
  BY <1>5, <1>3 DEF Bijection, Injection, Surjection, IsInjective
<1>7. IsFiniteSet(1..n) /\ Cardinality(1..n) = n
  <2>1. n \in Int /\ 1 \in Int /\ (1 > n => n = 0)
    BY <1>1
  <2> QED
    BY <2>1, FS_Interval
<1>8. Cardinality(S) = n
  BY <1>6, <1>7, FS_Bijection DEF ExistsBijection
<1> QED
  BY <1>1, <1>5, <1>8 DEF S, n

LEMMA AtMostOne ==
  ASSUME NEW S, \A x, y \in S : x = y
  PROVE  Cardinality(S) <= 1
<1>1. CASE S = {}
  BY <1>1, FS_EmptySet
<1>2. CASE S # {}
  <2>1. PICK x \in S : TRUE
    BY <1>2
  <2>2. S = {x}
    BY <2>1
  <2> QED
    BY <2>2, FS_Singleton
<1> QED
  BY <1>1, <1>2

LEMMA EvidenceIsKept == EvidenceInv => RecordsKept
<1> SUFFICES ASSUME EvidenceInv PROVE RecordsKept
  OBVIOUS
<1> USE DEF EvidenceInv
<1>1. EvidenceTypeOK
  <2>1. policy \in [Policies -> PolicyRow] /\ snapshot \in [Sessions -> Days \cup {0}]
        /\ doubled \subseteq Colleges
    BY DEF PolicyTypes
  <2>2. \A e \in Items : evidence[e].stored => evidence[e].session \in Sessions
    <3>1. \A e \in Items : evidence[e] = NoEvidence => ~evidence[e].stored
      BY DEF NoEvidence
    <3> QED
      BY <3>1 DEF SnapshotHolds, RowKnown
  <2>3. review \in [Sessions -> ActiveReview \cup ReviewOutcomes \cup {"NONE"}]
        /\ \A j \in Jobs : job[j].status \in {"NONE", "PROCESSING", "COMPLETED"}
    BY DEF EvidenceTypes, ReviewStates, JobRow
  <2>4. DOMAIN req = Requests /\ requests \in 0..MaxRequests /\ crashes \in 0..MaxCrashes
    BY DEF HandlerTypes
  <2> QED
    BY <2>1, <2>2, <2>3, <2>4, RecentCounts, Zenon DEF EvidenceTypeOK, RiskTypes, PolicyRow
<1>2. RetentionFollowsSnapshot
  <2>1. \A e \in Items : evidence[e] = NoEvidence => evidence[e].session = None
    BY DEF NoEvidence
  <2> QED
    BY <2>1 DEF RetentionFollowsSnapshot, SnapshotHolds, RowKnown
<1>3. OneDefault
  <2>1. ASSUME NEW c \in Colleges \ doubled
        PROVE  Cardinality({p \in Policies : policy[p].default /\ policy[p].active
                                             /\ policy[p].college = c}) <= 1
    <3>1. \A p, q \in Policies : DefaultOf(p, c) /\ DefaultOf(q, c) => p = q
      BY <2>1 DEF DefaultsHold
    <3> DEFINE S == {p \in Policies : policy[p].default /\ policy[p].active
                                      /\ policy[p].college = c}
    <3>2. \A p, q \in S : p = q
      BY <3>1 DEF DefaultOf
    <3> HIDE DEF S
    <3>3. Cardinality(S) <= 1
      BY <3>2, AtMostOne
    <3> QED
      BY <3>3 DEF S
  <2> QED
    BY <2>1 DEF OneDefault
<1>4. HeldKept /\ ReviewedKept
  BY DEF ListsHold, ListHolds, HeldKept, ReviewedKept
<1>5. JobTruthful
  BY DEF JobsHold
<1>6. RiskSettles
  BY DEF RisksHold, RiskHolds, RiskSettles, Scored, Rescoring, Writing
<1> QED
  BY <1>1, <1>2, <1>3, <1>4, <1>5, <1>6 DEF RecordsKept

-----------------------------------------------------------------------------
(* What a statement of one handler leaves alone.                           *)

Plain(h) == /\ h.job = 0 /\ h.ids = {}
            /\ h.op \notin {"delete", "select", "reviews", "remove", "count"}
Scoring(h) == h.op \in {"risk", "score"}

LEMMA NoReqIs == NoReq \in Handlers /\ Plain(NoReq) /\ Known(NoReq) /\ ~Scoring(NoReq)
                 /\ NoReq.op = "idle"
<1>1. NoReq \in Handlers
  BY DEF NoReq, Handlers, Statements
<1> QED
  BY <1>1 DEF NoReq, Plain, Known, Scoring

LEMMA Gone ==
  ASSUME HandlerTypes, NEW r \in Requests, NEW new \in Handlers, Go(r, new)
  PROVE  /\ req' \in [Requests -> Handlers] /\ req'[r] = new
         /\ \A q \in Requests \ {r} : req'[q] = req[q]
  BY DEF HandlerTypes, Go

\* ... of deletions and jobs
LEMMA ListsKept ==
  ASSUME HandlerTypes, ListsHold, JobsHold, NEW r \in Requests, NEW new \in Handlers, Go(r, new),
         req[r].job = 0, Plain(new), UNCHANGED <<evidence, review, job>>
  PROVE  ListsHold' /\ JobsHold'
<1>1. req'[r] = new /\ \A q \in Requests \ {r} : req'[q] = req[q]
  BY Gone
<1>2. ListHolds(r)'
  BY <1>1 DEF ListHolds, Plain
<1>3. ASSUME NEW q \in Requests \ {r} PROVE ListHolds(q)'
  <2>1. req'[q] = req[q] /\ ListHolds(q)
    BY <1>1 DEF ListsHold
  <2>2. \A p \in Requests : req'[p].job = req[q].job /\ req[q].job # 0 => p = q
    BY <2>1, <1>1 DEF ListHolds, Plain
  <2> QED
    BY <2>1, <2>2 DEF ListHolds
<1>4. ListsHold'
  BY <1>2, <1>3 DEF ListsHold
<1>5. JobsHold'
  <2>1. \A j \in Jobs : (\E q \in Requests : req[q].job = j) => \E q \in Requests : req'[q].job = j
    <3>1. \A j \in Jobs : j # 0
      BY DEF Jobs
    <3> QED
      BY <3>1, <1>1
  <2> QED
    BY <2>1 DEF JobsHold, JobTruthful
<1> QED
  BY <1>4, <1>5

\* ... of risks
LEMMA RisksKept ==
  ASSUME RisksHold, UNCHANGED riskRows,
         \A q \in Requests : Scoring(req[q]) \/ Scoring(req'[q]) =>
             /\ req'[q].op = req[q].op /\ req'[q].session = req[q].session
             /\ req'[q].sum = req[q].sum
  PROVE  RisksHold'
<1>1. UNCHANGED <<riskSum, risk, unsettled>>
  BY DEF riskRows
<1>2. ASSUME NEW s \in Sessions, RiskHolds(s) PROVE RiskHolds(s)'
  <2>1. \A q \in Requests : (req'[q].op = "risk" /\ req'[q].session = s)
                               <=> (req[q].op = "risk" /\ req[q].session = s)
    BY DEF Scoring
  <2>2. \A q \in Requests : Writing(q, s)' <=> Writing(q, s)
    BY DEF Scoring, Writing
  <2>3. \A q \in Requests : Writing(q, s) => req'[q].sum = req[q].sum
    BY DEF Scoring, Writing
  <2>4. Rescoring(s)' <=> Rescoring(s)
    BY <2>1 DEF Rescoring
  <2>5. Scored(s)' <=> Scored(s)
    BY <1>1 DEF Scored
  <2> QED
    BY <1>1, <1>2, <2>2, <2>3, <2>4, <2>5 DEF RiskHolds
<1> QED
  BY <1>1, <1>2 DEF RisksHold

\* ... of policies
LEMMA DefaultsKept ==
  ASSUME DefaultsHold, UNCHANGED <<policy, doubled>>,
         \A q \in Requests : req'[q].op = "default" =>
             \/ req[q].op = "default" /\ req'[q].session = req[q].session
             \/ \A p \in Policies : ~DefaultOf(p, SessionCollege[req'[q].session])
  PROVE  DefaultsHold'
  BY DEF DefaultsHold, DefaultOf

LEMMA SnapshotsKept ==
  ASSUME HandlerTypes, SnapshotHolds, NEW r \in Requests, NEW new \in Handlers, Go(r, new),
         Known(new), UNCHANGED <<snapshot, evidence>>
  PROVE  SnapshotHolds'
<1>1. req'[r] = new /\ \A q \in Requests \ {r} : req'[q] = req[q]
  BY Gone
<1>2. \A q \in Requests : Known(req'[q])
  BY <1>1 DEF SnapshotHolds
<1>3. \A q \in Requests : Known(req[q])'
  BY <1>2 DEF Known
<1> QED
  BY <1>3 DEF SnapshotHolds, RowKnown

\* A handler that writes neither policies nor evidence goes on.
LEMMA PoliciesKept ==
  ASSUME EvidenceInv, NEW r \in Requests, NEW new \in Handlers, Go(r, new), Known(new),
         new.op = "default" => \A p \in Policies : ~DefaultOf(p, SessionCollege[new.session]),
         UNCHANGED <<policyRows, evidence>>
  PROVE  PolicyTypes' /\ RecentHolds' /\ DefaultsHold' /\ SnapshotHolds'
<1> USE DEF EvidenceInv
<1>1. UNCHANGED <<policy, recent, snapshot, doubled>>
  BY DEF policyRows
<1>2. req'[r] = new /\ \A q \in Requests \ {r} : req'[q] = req[q]
  BY Gone
<1>3. PolicyTypes' /\ RecentHolds'
  BY <1>1 DEF PolicyTypes, RecentHolds
<1>4. DefaultsHold'
  BY <1>1, <1>2, DefaultsKept
<1>5. SnapshotHolds'
  BY <1>1, SnapshotsKept
<1> QED
  BY <1>3, <1>4, <1>5

\* One that recalculates no risk score either.
LEMMA QuietlyOn ==
  ASSUME EvidenceInv, NEW r \in Requests, NEW new \in Handlers, Go(r, new), Known(new),
         new.op = "default" => \A p \in Policies : ~DefaultOf(p, SessionCollege[new.session]),
         ~Scoring(new), ~Scoring(req[r]), req[r].job = 0, Plain(new),
         UNCHANGED <<policyRows, riskRows, evidence, review, job>>,
         requests' \in 0..MaxRequests, crashes' \in 0..MaxCrashes
  PROVE  EvidenceInv'
<1> USE DEF EvidenceInv
<1>1. PolicyTypes' /\ RecentHolds' /\ DefaultsHold' /\ SnapshotHolds'
  BY PoliciesKept
<1>2. ListsHold' /\ JobsHold'
  BY ListsKept
<1>3. req' \in [Requests -> Handlers] /\ req'[r] = new
      /\ \A q \in Requests \ {r} : req'[q] = req[q]
  BY Gone
<1>4. RisksHold'
  BY <1>3, RisksKept
<1>5. EvidenceTypes' /\ RiskTypes' /\ HandlerTypes'
  BY <1>3 DEF EvidenceTypes, RiskTypes, HandlerTypes, riskRows
<1> QED
  BY <1>1, <1>2, <1>4, <1>5

-----------------------------------------------------------------------------
(* Policies and sessions. *)

LEMMA Called ==
  ASSUME EvidenceInv, NEW r \in Requests, NEW u, NEW routes, NEW route,
         Call(r, u, routes, route), UNCHANGED crashes
  PROVE  /\ requests' \in 0..MaxRequests /\ crashes' \in 0..MaxCrashes
         /\ req[r] = NoReq /\ req[r].job = 0 /\ ~Scoring(req[r])
<1>1. requests \in 0..MaxRequests /\ crashes \in 0..MaxCrashes
  BY DEF EvidenceInv, HandlerTypes
<1>2. req[r] = NoReq /\ requests < MaxRequests /\ requests' = requests + 1
  BY DEF Call, Budget
<1>3. requests' \in 0..MaxRequests
  BY <1>1, <1>2, RecordBounds
<1> QED
  BY <1>1, <1>2, <1>3, NoReqIs DEF Plain

LEMMA Stayed ==
  ASSUME EvidenceInv, UNCHANGED <<requests, crashes>>
  PROVE  requests' \in 0..MaxRequests /\ crashes' \in 0..MaxCrashes
  BY DEF EvidenceInv, HandlerTypes

LEMMA ResolvePolicyGoes ==
  ASSUME EvidenceInv, NEW r \in Requests, NEW u \in Users, NEW s \in Sessions,
         NEW then \in {"", "evidence"}, ResolvePolicy(r, u, s, then)
  PROVE  \E new \in Handlers :
             /\ Go(r, new) /\ Known(new) /\ ~Scoring(new) /\ Plain(new)
             /\ new.op = "default" =>
                    \A p \in Policies : ~DefaultOf(p, SessionCollege[new.session])
<1> USE DEF EvidenceInv
<1>1. CASE Candidates(s) # {}
  <2> DEFINE d == policy[Chosen(s)].days
  <2>1. d \in Days /\ d # 0
    BY <1>1, ChosenIs, DaysAndIds
  <2>2. Go(r, [NoReq EXCEPT !.op = "upsert", !.user = u, !.session = s, !.then = then, !.days = d])
    BY <1>1 DEF ResolvePolicy
  <2> HIDE DEF d
  <2> DEFINE new == [NoReq EXCEPT !.op = "upsert", !.user = u, !.session = s, !.then = then,
                                  !.days = d]
  <2>3. new \in Handlers
    BY <2>1 DEF NoReq, Handlers, Statements
  <2>4. new.op = "upsert" /\ new.session = s /\ new.days = d /\ new.job = 0 /\ new.ids = {}
    BY DEF NoReq
  <2> HIDE DEF new
  <2>5. Known(new) /\ ~Scoring(new) /\ Plain(new) /\ new.op # "default"
    BY <2>1, <2>4 DEF Known, Scoring, Plain
  <2> QED
    BY <2>2, <2>3, <2>5 DEF new
<1>2. CASE Candidates(s) = {}
  <2> DEFINE new == [NoReq EXCEPT !.op = "default", !.user = u, !.session = s, !.then = then]
  <2>1. Go(r, new)
    BY <1>2 DEF ResolvePolicy
  <2>2. new \in Handlers
    BY DEF NoReq, Handlers, Statements
  <2>3. new.op = "default" /\ new.session = s /\ new.job = 0 /\ new.ids = {}
    BY DEF NoReq
  <2> HIDE DEF new
  <2>4. Known(new) /\ ~Scoring(new) /\ Plain(new)
    BY <2>3 DEF Known, Scoring, Plain
  <2>5. \A p \in Policies : ~DefaultOf(p, SessionCollege[s])
    BY <1>2, DefaultsAreFound
  <2> QED
    BY <2>1, <2>2, <2>3, <2>4, <2>5
<1> QED
  BY <1>1, <1>2

LEMMA StartSessionKeeps ==
  ASSUME EvidenceInv, NEW r \in Requests, NEW u \in Users, NEW s \in Sessions,
         StartSession(r, u, s)
  PROVE  EvidenceInv'
<1>1. /\ requests' \in 0..MaxRequests /\ crashes' \in 0..MaxCrashes
      /\ req[r].job = 0 /\ ~Scoring(req[r])
  BY Called DEF StartSession
<1>2. ResolvePolicy(r, u, s, "") /\ UNCHANGED <<policyRows, riskRows, evidence, review, job>>
  BY DEF StartSession
<1> QED
  BY <1>1, <1>2, ResolvePolicyGoes, QuietlyOn

LEMMA UploadEvidenceKeeps ==
  ASSUME EvidenceInv, NEW r \in Requests, NEW u \in Users, NEW s \in Sessions,
         UploadEvidence(r, u, s)
  PROVE  EvidenceInv'
<1>1. /\ requests' \in 0..MaxRequests /\ crashes' \in 0..MaxCrashes
      /\ req[r].job = 0 /\ ~Scoring(req[r])
  BY Called DEF UploadEvidence
<1>2. UNCHANGED <<policyRows, riskRows, evidence, review, job>>
  BY DEF UploadEvidence
<1>3. CASE snapshot[s] # 0
  <2> DEFINE new == [NoReq EXCEPT !.op = "store", !.user = u, !.session = s, !.days = snapshot[s]]
  <2>1. Go(r, new)
    BY <1>3 DEF UploadEvidence
  <2>2. snapshot[s] \in Days \cup {0}
    BY DEF EvidenceInv, PolicyTypes
  <2>3. new \in Handlers
    BY <2>2 DEF NoReq, Handlers, Statements
  <2>4. new.op = "store" /\ new.session = s /\ new.days = snapshot[s] /\ new.job = 0 /\ new.ids = {}
    BY DEF NoReq
  <2> HIDE DEF new
  <2>5. Known(new) /\ ~Scoring(new) /\ Plain(new) /\ new.op # "default"
    BY <1>3, <2>4 DEF Known, Scoring, Plain
  <2> QED
    BY <1>1, <1>2, <2>1, <2>3, <2>5, QuietlyOn
<1>4. CASE snapshot[s] = 0
  <2>1. ResolvePolicy(r, u, s, "evidence")
    BY <1>4 DEF UploadEvidence
  <2> QED
    BY <1>1, <1>2, <2>1, ResolvePolicyGoes, QuietlyOn
<1> QED
  BY <1>3, <1>4

\* A write of policies that leaves everything else as it was.
LEMMA PoliciesWritten ==
  ASSUME EvidenceInv, UNCHANGED <<snapshot, riskRows, evidence, review, job, req>>,
         requests' \in 0..MaxRequests, crashes' \in 0..MaxCrashes,
         NEW p \in Policies, NEW entry \in PolicyRow, policy' = [policy EXCEPT ![p] = entry],
         entry.days # 0, Touch(p), doubled' \subseteq Colleges, doubled \subseteq doubled',
         \A c \in Colleges \ doubled' :
             entry.default /\ entry.active /\ entry.college = c => DefaultOf(p, c)
  PROVE  EvidenceInv'
<1> USE DEF EvidenceInv
<1>1. policy' \in [Policies -> PolicyRow] /\ policy'[p] = entry
      /\ \A q \in Policies \ {p} : policy'[q] = policy[q]
  BY DEF PolicyTypes
<1>2. recent' \in Seq(Policies) /\ RecentHolds'
  BY <1>1, TouchHolds
<1>3. DefaultsHold'
  <2>1. \A c \in Colleges \ doubled', q \in Policies : DefaultOf(q, c)' => DefaultOf(q, c)
    BY <1>1 DEF DefaultOf
  <2> QED
    BY <2>1 DEF DefaultsHold
<1>4. SnapshotHolds'
  <2>1. UNCHANGED <<req, snapshot, evidence>>
    OBVIOUS
  <2> QED
    BY <2>1 DEF SnapshotHolds, Known, RowKnown
<1>5. ListsHold' /\ JobsHold'
  <2>1. UNCHANGED <<req, evidence, review, job>>
    OBVIOUS
  <2> QED
    BY <2>1 DEF ListsHold, ListHolds, JobsHold, JobTruthful
<1>6. RisksHold'
  BY RisksKept
<1>7. PolicyTypes' /\ EvidenceTypes' /\ RiskTypes' /\ HandlerTypes'
  BY <1>1, <1>2 DEF PolicyTypes, EvidenceTypes, RiskTypes, HandlerTypes, riskRows
<1> QED
  BY <1>2, <1>3, <1>4, <1>5, <1>6, <1>7

LEMMA PolicyTableFree ==
  ASSUME PolicyTypes, HasFree(policy, NoPolicy)
  PROVE  Free(policy, NoPolicy) \in Policies /\ policy[Free(policy, NoPolicy)] = NoPolicy
<1>1. DOMAIN policy = Policies
  BY DEF PolicyTypes
<1> QED
  BY <1>1, SmallSets, FreeIsFree

LEMMA CreatePolicyKeeps ==
  ASSUME EvidenceInv, NEW r \in Requests, NEW u \in Users,
         NEW a \in Assessments \cup {0}, NEW d \in Days, CreatePolicy(r, u, a, d)
  PROVE  EvidenceInv'
<1>1. requests' \in 0..MaxRequests /\ crashes' \in 0..MaxCrashes
  BY Called DEF CreatePolicy
<1>2. UNCHANGED <<snapshot, doubled, riskRows, evidence, review, job, req>>
  BY DEF CreatePolicy
<1> DEFINE p == Free(policy, NoPolicy)
           c == IF UserRole[u] = "SUPER_ADMIN" THEN None ELSE UserCollege[u]
           entry == [college |-> c, assessment |-> a, default |-> FALSE, active |-> TRUE, days |-> d]
<1>3. p \in Policies
  BY PolicyTableFree DEF CreatePolicy, EvidenceInv
<1>4. policy' = [policy EXCEPT ![p] = entry] /\ Touch(p)
  BY DEF CreatePolicy
<1>5. c \in Colleges \cup {None}
  BY SessionColumns
<1> HIDE DEF p, c
<1>6. entry \in PolicyRow
  BY <1>5 DEF PolicyRow
<1>7. entry.days # 0 /\ ~entry.default
  BY DaysAndIds
<1>8. doubled' \subseteq Colleges /\ doubled \subseteq doubled'
  BY <1>2 DEF EvidenceInv, PolicyTypes
<1> HIDE DEF entry
<1> QED
  BY <1>1, <1>2, <1>3, <1>4, <1>6, <1>7, <1>8, PoliciesWritten

LEMMA ChangeIs ==
  ASSUME EvidenceInv, NEW r, NEW u, NEW p \in Policies, NEW new, ChangePolicy(r, u, p, new)
  PROVE  /\ policy[p] \in PolicyRow /\ policy[p].days # 0
         /\ policy' = [policy EXCEPT ![p] = new] /\ Touch(p)
         /\ UNCHANGED <<snapshot, riskRows, evidence, review, job, req>> /\ UNCHANGED crashes
<1>1. p \in Rows(policy, NoPolicy) /\ PolicyTypes /\ RecentHolds
  BY DEF ChangePolicy, EvidenceInv
<1> QED
  BY <1>1, RowsAreUpdated DEF ChangePolicy

LEMMA UpdatePolicyKeeps ==
  ASSUME EvidenceInv, NEW r \in Requests, NEW u \in Users, NEW p \in Policies,
         NEW a \in {policy[p].assessment} \cup Assessments, NEW d \in Days,
         UpdatePolicy(r, u, p, a, d)
  PROVE  EvidenceInv'
<1> DEFINE entry == [policy[p] EXCEPT !.assessment = a, !.days = d]
<1>1. ChangePolicy(r, u, p, entry) /\ UNCHANGED doubled
  BY DEF UpdatePolicy
<1>2. /\ policy[p] \in PolicyRow
      /\ policy' = [policy EXCEPT ![p] = entry] /\ Touch(p)
      /\ UNCHANGED <<snapshot, riskRows, evidence, review, job, req>> /\ UNCHANGED crashes
  BY <1>1, ChangeIs
<1>3. requests' \in 0..MaxRequests /\ crashes' \in 0..MaxCrashes
  BY <1>2, Called DEF UpdatePolicy
<1>4. a \in Assessments \cup {0}
  BY <1>2 DEF PolicyRow
<1>5. entry \in PolicyRow
  BY <1>2, <1>4 DEF PolicyRow
<1>6. entry.days = d /\ entry.college = policy[p].college
      /\ entry.default = policy[p].default /\ entry.active = policy[p].active
  BY <1>2 DEF PolicyRow
<1>7. d # 0
  BY DaysAndIds
<1>8. doubled' \subseteq Colleges /\ doubled \subseteq doubled'
  BY <1>1 DEF EvidenceInv, PolicyTypes
<1> HIDE DEF entry
<1>9. \A c : entry.default /\ entry.active /\ entry.college = c => DefaultOf(p, c)
  BY <1>6 DEF DefaultOf
<1> QED
  BY <1>2, <1>3, <1>5, <1>6, <1>7, <1>8, <1>9, PoliciesWritten

LEMMA SetPolicyActiveKeeps ==
  ASSUME EvidenceInv, NEW r \in Requests, NEW u \in Users, NEW p \in Policies,
         NEW active \in BOOLEAN, SetPolicyActive(r, u, p, active)
  PROVE  EvidenceInv'
<1> DEFINE entry == [policy[p] EXCEPT !.active = active]
<1>1. ChangePolicy(r, u, p, entry)
  BY DEF SetPolicyActive
<1>2. /\ policy[p] \in PolicyRow /\ policy[p].days # 0
      /\ policy' = [policy EXCEPT ![p] = entry] /\ Touch(p)
      /\ UNCHANGED <<snapshot, riskRows, evidence, review, job, req>> /\ UNCHANGED crashes
  BY <1>1, ChangeIs
<1>3. requests' \in 0..MaxRequests /\ crashes' \in 0..MaxCrashes
  BY <1>2, Called DEF SetPolicyActive
<1>5. entry \in PolicyRow
  BY <1>2 DEF PolicyRow
<1>6. entry.days = policy[p].days /\ entry.college = policy[p].college
      /\ entry.default = policy[p].default /\ entry.active = active
  BY <1>2 DEF PolicyRow
<1>7. policy[p].college \in Colleges \cup {None} /\ doubled \subseteq Colleges
  BY <1>2 DEF PolicyRow, EvidenceInv, PolicyTypes
<1>8. doubled' = IF active THEN doubled \cup ({policy[p].college} \ {None}) ELSE doubled
  BY DEF SetPolicyActive
<1> HIDE DEF entry
<1>9. doubled' \subseteq Colleges /\ doubled \subseteq doubled'
      /\ (active => \A c \in Colleges \ doubled' : policy[p].college # c)
  BY <1>7, <1>8, DaysAndIds
<1>10. \A c \in Colleges \ doubled' :
           entry.default /\ entry.active /\ entry.college = c => DefaultOf(p, c)
  BY <1>6, <1>9
<1> QED
  BY <1>2, <1>3, <1>5, <1>6, <1>9, <1>10, PoliciesWritten

\* A handler whose statement is no deletion's has no list and no job.
LEMMA NoList ==
  ASSUME ListsHold, NEW r \in Requests,
         req[r].op \notin {"delete", "select", "reviews", "remove", "count"}
  PROVE  req[r].job = 0 /\ req[r].ids = {} /\ Plain(req[r])
<1>1. ListHolds(r)
  BY DEF ListsHold
<1> QED
  BY <1>1 DEF ListHolds, Plain

LEMMA CreateDefaultKeeps ==
  ASSUME EvidenceInv, NEW r \in Requests, CreateDefault(r)
  PROVE  EvidenceInv'
<1> USE DEF EvidenceInv
<1> DEFINE s == req[r].session
           c == SessionCollege[s]
           p == Free(policy, NoPolicy)
           entry == [college |-> c, assessment |-> 0, default |-> TRUE, active |-> TRUE,
                   days |-> DefaultDays]
           new == [req[r] EXCEPT !.op = "upsert", !.days = DefaultDays]
<1>1. req[r].op = "default" /\ req[r] \in Handlers
  BY DEF CreateDefault, HandlerTypes
<1>2. UNCHANGED <<snapshot, riskRows, evidence, review, job, requests, crashes>>
  BY DEF CreateDefault
<1>3. s \in Sessions /\ c \in Colleges
  BY <1>1, SessionColumns DEF SnapshotHolds, Known
<1>4. p \in Policies /\ policy[p] = NoPolicy
  BY PolicyTableFree DEF CreateDefault
<1>5. policy' = [policy EXCEPT ![p] = entry] /\ Touch(p)
  BY DEF CreateDefault
<1>6. req' = [req EXCEPT ![r].op = "upsert", ![r].days = DefaultDays]
  BY DEF CreateDefault
<1>7. Go(r, new)
  BY <1>6 DEF Go, HandlerTypes
<1>8. doubled' = IF \E q \in Requests \ {r} :
                        req[q].op = "default" /\ SessionCollege[req[q].session] = c
                 THEN doubled \cup {c} ELSE doubled
  BY DEF CreateDefault
<1>9. req[r].job = 0 /\ req[r].ids = {}
  BY <1>1, NoList
<1>10. DefaultDays \in Days /\ DefaultDays # 0
  BY DaysAndIds
<1>11. new \in Handlers
  BY <1>1, <1>10 DEF Handlers, Statements
<1>12. new.op = "upsert" /\ new.session = s /\ new.days = DefaultDays /\ new.job = 0 /\ new.ids = {}
  BY <1>1, <1>9 DEF Handlers
<1>13. entry \in PolicyRow
  BY <1>3, <1>10 DEF PolicyRow
<1>14. entry.default /\ entry.active /\ entry.college = c /\ entry.days = DefaultDays
  OBVIOUS
<1> HIDE DEF s, c, p, entry, new
<1>15. policy' \in [Policies -> PolicyRow] /\ policy'[p] = entry
       /\ \A q \in Policies \ {p} : policy'[q] = policy[q]
  BY <1>4, <1>5, <1>13 DEF PolicyTypes
<1>16. recent' \in Seq(Policies) /\ RecentHolds'
  BY <1>4, <1>5, <1>10, <1>14, <1>15, TouchHolds
<1>17. req' \in [Requests -> Handlers] /\ req'[r] = new
       /\ \A q \in Requests \ {r} : req'[q] = req[q]
  BY <1>7, <1>11, Gone
<1>18. Known(new) /\ Plain(new) /\ ~Scoring(new) /\ ~Scoring(req[r])
  BY <1>1, <1>3, <1>10, <1>12 DEF Known, Plain, Scoring
<1>19. DefaultsHold'
  <2>1. ASSUME NEW d \in Colleges \ doubled'
        PROVE  /\ \A q, t \in Policies : DefaultOf(q, d)' /\ DefaultOf(t, d)' => q = t
               /\ \A q \in Requests, t \in Policies :
                     req'[q].op = "default" /\ SessionCollege[req'[q].session] = d
                         => ~DefaultOf(t, d)'
    <3>1. d \in Colleges \ doubled
      BY <1>8, <2>1
    <3>2. \A t \in Policies \ {p} : DefaultOf(t, d)' <=> DefaultOf(t, d)
      BY <1>15 DEF DefaultOf
    <3>3. \A q \in Requests : req'[q].op = "default" => q # r /\ req'[q] = req[q]
      BY <1>17, <1>12
    <3>4. CASE d = c
      <4>1. \A q \in Requests \ {r} : ~(req[q].op = "default" /\ SessionCollege[req[q].session] = c)
        BY <3>4, <1>8, <2>1
      <4>2. \A t \in Policies : ~DefaultOf(t, d)
        BY <3>1, <3>4, <1>1 DEF DefaultsHold, s, c
      <4> QED
        BY <4>1, <4>2, <3>2, <3>3, <3>4
    <3>5. CASE d # c
      <4>1. \A t \in Policies : t = p => ~DefaultOf(t, d)'
        BY <3>5, <1>14, <1>15 DEF DefaultOf
      <4> QED
        BY <4>1, <3>1, <3>2, <3>3 DEF DefaultsHold
    <3> QED
      BY <3>4, <3>5
  <2> QED
    BY <2>1 DEF DefaultsHold
<1>20. SnapshotHolds'
  BY <1>2, <1>7, <1>11, <1>18, SnapshotsKept
<1>21. ListsHold' /\ JobsHold'
  BY <1>2, <1>7, <1>9, <1>11, <1>18, ListsKept
<1>22. RisksHold'
  BY <1>2, <1>17, <1>18, RisksKept
<1>23. doubled' \subseteq Colleges
  BY <1>3, <1>8 DEF PolicyTypes
<1>24. PolicyTypes' /\ EvidenceTypes' /\ RiskTypes' /\ HandlerTypes'
  BY <1>2, <1>15, <1>16, <1>17, <1>23
     DEF PolicyTypes, EvidenceTypes, RiskTypes, HandlerTypes, riskRows
<1> QED
  BY <1>16, <1>19, <1>20, <1>21, <1>22, <1>24

LEMMA UpsertSessionKeeps ==
  ASSUME EvidenceInv, NEW r \in Requests, UpsertSession(r)
  PROVE  EvidenceInv'
<1> USE DEF EvidenceInv
<1> DEFINE s == req[r].session
           days == IF snapshot[s] = 0 THEN req[r].days ELSE snapshot[s]
           new == IF req[r].then = "evidence"
                  THEN [req[r] EXCEPT !.op = "store", !.days = days] ELSE NoReq
<1>1. req[r].op = "upsert" /\ req[r] \in Handlers
  BY DEF UpsertSession, HandlerTypes
<1>2. UNCHANGED <<policy, recent, doubled, riskRows, evidence, review, job, requests, crashes>>
  BY DEF UpsertSession
<1>3. s \in Sessions /\ req[r].days # 0 /\ req[r].days \in Days \cup {0}
  BY <1>1 DEF SnapshotHolds, Known, Handlers
<1>4. snapshot[s] \in Days \cup {0}
  BY <1>3 DEF PolicyTypes
<1>5. days \in Days /\ days # 0 /\ (snapshot[s] # 0 => days = snapshot[s])
  BY <1>3, <1>4
<1>6. snapshot' = [snapshot EXCEPT ![s] = days]
  BY DEF UpsertSession
<1>7. Go(r, new)
  BY DEF UpsertSession, Done, Go, HandlerTypes
<1>8. req[r].job = 0 /\ req[r].ids = {}
  BY <1>1, NoList
<1> HIDE DEF s, days
<1>9. new \in Handlers /\ Plain(new) /\ ~Scoring(new) /\ new.op # "default"
      /\ (new.op = "store" => new.session = s /\ new.days = days)
      /\ new.op \in {"store", "idle"}
  <2>1. CASE req[r].then = "evidence"
    <3>1. [req[r] EXCEPT !.op = "store", !.days = days] \in Handlers
      BY <1>1, <1>5 DEF Handlers, Statements
    <3>2. new.op = "store" /\ new.session = s /\ new.days = days /\ new.job = 0 /\ new.ids = {}
      BY <1>1, <1>8, <2>1 DEF Handlers, s
    <3>3. new \in Handlers
      BY <2>1, <3>1
    <3> HIDE DEF new
    <3> QED
      BY <3>2, <3>3 DEF Plain, Scoring
  <2>2. CASE req[r].then # "evidence"
    BY <2>2, NoReqIs
  <2> QED
    BY <2>1, <2>2
<1> HIDE DEF new
<1>10. req' \in [Requests -> Handlers] /\ req'[r] = new
       /\ \A q \in Requests \ {r} : req'[q] = req[q]
  BY <1>7, <1>9, Gone
<1>11. snapshot' \in [Sessions -> Days \cup {0}] /\ snapshot'[s] = days
       /\ \A t \in Sessions : t # s \/ snapshot[s] # 0 => snapshot'[t] = snapshot[t]
  BY <1>3, <1>5, <1>6 DEF PolicyTypes
<1>12. ASSUME NEW t \in Sessions, snapshot[t] # 0 PROVE snapshot'[t] = snapshot[t]
  BY <1>11, <1>12
<1>13. SnapshotHolds'
  <2>1. ASSUME NEW q \in Requests \ {r} PROVE Known(req[q])'
    <3>1. Known(req[q]) /\ req'[q] = req[q]
      BY <1>10 DEF SnapshotHolds
    <3>2. req[q].op = "store" => snapshot'[req[q].session] = snapshot[req[q].session]
      BY <3>1, <1>12 DEF Known
    <3> QED
      BY <3>1, <3>2 DEF Known
  <2>2. Known(req[r])'
    BY <1>3, <1>5, <1>9, <1>10, <1>11 DEF Known
  <2>3. ASSUME NEW e \in Items PROVE RowKnown(e)'
    <3>1. RowKnown(e) /\ evidence' = evidence
      BY <1>2 DEF SnapshotHolds
    <3>2. evidence[e] # NoEvidence =>
              snapshot'[evidence[e].session] = snapshot[evidence[e].session]
      BY <3>1, <1>12 DEF RowKnown
    <3> QED
      BY <3>1, <3>2 DEF RowKnown
  <2> QED
    BY <2>1, <2>2, <2>3 DEF SnapshotHolds
<1>14. DefaultsHold'
  BY <1>2, <1>9, <1>10, DefaultsKept
<1>15. ListsHold' /\ JobsHold'
  BY <1>2, <1>7, <1>8, <1>9, ListsKept
<1>16. ~Scoring(req[r])
  BY <1>1 DEF Scoring
<1>17. RisksHold'
  BY <1>2, <1>9, <1>10, <1>16, RisksKept
<1>18. PolicyTypes' /\ RecentHolds'
  BY <1>2, <1>11 DEF PolicyTypes, RecentHolds
<1>19. EvidenceTypes' /\ RiskTypes' /\ HandlerTypes'
  BY <1>2, <1>10 DEF EvidenceTypes, RiskTypes, HandlerTypes, riskRows
<1> QED
  BY <1>13, <1>14, <1>15, <1>17, <1>18, <1>19

-----------------------------------------------------------------------------
(* Evidence. *)

LEMMA StoreEvidenceKeeps ==
  ASSUME EvidenceInv, NEW r \in Requests, NEW valid \in BOOLEAN, StoreEvidence(r, valid)
  PROVE  EvidenceInv'
<1> USE DEF EvidenceInv
<1> DEFINE f == Free(evidence, NoEvidence)
           entry == [session |-> req[r].session, hold |-> FALSE, expired |-> FALSE,
                   days |-> req[r].days, stored |-> TRUE]
<1>1. req[r].op = "store" /\ req[r] \in Handlers /\ Go(r, NoReq)
  BY DEF StoreEvidence, HandlerTypes, Done, Go
<1>2. UNCHANGED <<policyRows, riskRows, review, job, requests, crashes>>
      /\ UNCHANGED <<policy, recent, snapshot, doubled>>
  BY DEF StoreEvidence, policyRows
<1>3. req[r].session \in Sessions /\ req[r].days # 0 /\ req[r].days \in Days \cup {0}
      /\ req[r].days = snapshot[req[r].session]
  BY <1>1 DEF SnapshotHolds, Known, Handlers
<1>4. f \in Items /\ evidence[f] = NoEvidence
  <2>1. DOMAIN evidence = Items
    BY DEF EvidenceTypes
  <2> QED
    BY <2>1, SmallSets, FreeIsFree DEF StoreEvidence
<1>5. evidence' = IF ~valid THEN evidence ELSE [evidence EXCEPT ![f] = entry]
  BY DEF StoreEvidence
<1>6. entry \in EvidenceRow
  BY <1>3 DEF EvidenceRow
<1>7. entry.session = req[r].session /\ entry.days = req[r].days
  OBVIOUS
<1> HIDE DEF f, entry
<1>8. evidence' \in [Items -> EvidenceRow] /\ (evidence'[f] = entry \/ evidence'[f] = evidence[f])
      /\ \A e \in Items \ {f} : evidence'[e] = evidence[e]
  BY <1>4, <1>5, <1>6 DEF EvidenceTypes
<1>9. \A e \in Items : evidence[e] # NoEvidence => evidence'[e] = evidence[e]
  BY <1>4, <1>8
<1>10. req' \in [Requests -> Handlers] /\ req'[r] = NoReq
       /\ \A q \in Requests \ {r} : req'[q] = req[q]
  BY <1>1, NoReqIs, Gone
<1>11. req[r].job = 0 /\ req[r].ids = {} /\ ~Scoring(req[r])
  BY <1>1, NoList DEF Scoring
<1>12. SnapshotHolds'
  <2>1. \A q \in Requests : Known(req'[q])
    BY <1>10, NoReqIs DEF SnapshotHolds
  <2>2. \A q \in Requests : Known(req[q])'
    BY <2>1, <1>2 DEF Known
  <2>3. \A e \in Items : RowKnown(e)'
    BY <1>2, <1>3, <1>4, <1>7, <1>8 DEF SnapshotHolds, RowKnown
  <2> QED
    BY <2>2, <2>3 DEF SnapshotHolds
<1>13. ListsHold'
  <2>1. ListHolds(r)'
    BY <1>10, NoReqIs DEF ListHolds, Plain
  <2>2. ASSUME NEW q \in Requests \ {r} PROVE ListHolds(q)'
    <3>1. req'[q] = req[q] /\ ListHolds(q)
      BY <1>10 DEF ListsHold
    <3>2. \A e \in req[q].ids : e \in Items /\ evidence'[e] = evidence[e]
      <4>1. req[q] \in Handlers
        BY DEF HandlerTypes
      <4>2. req[q].ids \subseteq Items
        BY <4>1 DEF Handlers
      <4>3. \A e \in req[q].ids : evidence[e] # NoEvidence
        BY <3>1 DEF ListHolds
      <4> QED
        BY <4>2, <4>3, <1>9
    <3>3. \A p \in Requests : req'[p].job = req[q].job /\ req[q].job # 0 => p = q
      BY <3>1, <1>10, NoReqIs DEF ListHolds, Plain
    <3> QED
      BY <3>1, <3>2, <3>3, <1>2 DEF ListHolds
  <2> QED
    BY <2>1, <2>2 DEF ListsHold
<1>14. JobsHold'
  <2>1. \A j \in Jobs : (\E q \in Requests : req[q].job = j) => \E q \in Requests : req'[q].job = j
    <3>1. \A j \in Jobs : j # 0
      BY DEF Jobs
    <3> QED
      BY <3>1, <1>10, <1>11
  <2> QED
    BY <2>1, <1>2 DEF JobsHold, JobTruthful
<1>15. RisksHold'
  BY <1>2, <1>10, <1>11, NoReqIs, RisksKept
<1>16. DefaultsHold'
  BY <1>2, <1>10, NoReqIs, DefaultsKept
<1>17. PolicyTypes' /\ RecentHolds'
  BY <1>2 DEF PolicyTypes, RecentHolds
<1>18. EvidenceTypes' /\ RiskTypes' /\ HandlerTypes'
  BY <1>2, <1>8, <1>10 DEF EvidenceTypes, RiskTypes, HandlerTypes, riskRows
<1> QED
  BY <1>12, <1>13, <1>14, <1>15, <1>16, <1>17, <1>18

\* A deletion's statement leaves policies, sessions and risks as they were.
SameWork(g, h) == /\ h.op = g.op /\ h.session = g.session /\ h.days = g.days
                  /\ h.sum = g.sum /\ h.data = g.data
Deleting(h) == h.op \in {"idle", "delete", "select", "reviews", "remove", "count"}
SameRow(e) == /\ evidence'[e].session = evidence[e].session /\ evidence'[e].days = evidence[e].days
              /\ evidence'[e] = NoEvidence <=> evidence[e] = NoEvidence

LEMMA OnlyLists ==
  ASSUME EvidenceInv, UNCHANGED <<policyRows, riskRows>>,
         \A q \in Requests : SameWork(req[q], req'[q]) \/ (Deleting(req[q]) /\ Deleting(req'[q])),
         \A e \in Items : SameRow(e),
         EvidenceTypes', HandlerTypes', ListsHold', JobsHold'
  PROVE  EvidenceInv'
<1> USE DEF EvidenceInv
<1>1. UNCHANGED <<policy, recent, snapshot, doubled, riskSum, risk, unsettled>>
  BY DEF policyRows, riskRows
<1>2. PolicyTypes' /\ RecentHolds' /\ RiskTypes'
  BY <1>1 DEF PolicyTypes, RecentHolds, RiskTypes
<1>3. DefaultsHold'
  BY <1>1, DefaultsKept DEF SameWork, Deleting
<1>4. RisksHold'
  <2>1. \A q \in Requests : Scoring(req[q]) \/ Scoring(req'[q]) => SameWork(req[q], req'[q])
    BY DEF Deleting, Scoring
  <2> QED
    BY <2>1, RisksKept DEF SameWork
<1>5. SnapshotHolds'
  <2>1. ASSUME NEW q \in Requests PROVE Known(req[q])'
    <3>1. Known(req[q])
      BY DEF SnapshotHolds
    <3>2. CASE SameWork(req[q], req'[q])
      BY <3>1, <3>2, <1>1 DEF Known, SameWork
    <3>3. CASE Deleting(req'[q])
      BY <3>3 DEF Known, Deleting
    <3> QED
      BY <3>2, <3>3
  <2>2. \A e \in Items : RowKnown(e)'
    BY <1>1 DEF SnapshotHolds, RowKnown, SameRow
  <2> QED
    BY <2>1, <2>2 DEF SnapshotHolds
<1> QED
  BY <1>2, <1>3, <1>4, <1>5

LEMMA StoredRows ==
  ASSUME EvidenceInv, NEW e \in Items
  PROVE  /\ evidence[e] \in EvidenceRow
         /\ evidence[e].stored => evidence[e] # NoEvidence
         /\ evidence[e] # NoEvidence => evidence[e].session \in Sessions
         /\ NoEvidence.session \notin Sessions
<1>1. evidence[e] \in EvidenceRow /\ RowKnown(e)
  BY DEF EvidenceInv, EvidenceTypes, SnapshotHolds
<1>2. ~NoEvidence.stored /\ NoEvidence.session = None
  BY DEF NoEvidence
<1> QED
  BY <1>1, <1>2, DaysAndIds DEF RowKnown

LEMMA ListedRows ==
  ASSUME EvidenceInv, NEW r \in Requests
  PROVE  req[r] \in Handlers /\ req[r].ids \subseteq Items /\ req[r].job \in Jobs \cup {0}
         /\ ListHolds(r) /\ 0 \notin Jobs
<1>1. req[r] \in Handlers
  BY DEF EvidenceInv, HandlerTypes
<1>2. req[r].ids \subseteq Items /\ req[r].job \in Jobs \cup {0}
  BY <1>1 DEF Handlers
<1>3. ListHolds(r)
  BY DEF EvidenceInv, ListsHold
<1>4. 0 \notin Jobs
  BY DEF Jobs
<1> QED
  BY <1>1, <1>2, <1>3, <1>4

LEMMA SetHoldKeeps ==
  ASSUME EvidenceInv, NEW e \in Items, NEW hold \in BOOLEAN, SetHold(e, hold)
  PROVE  EvidenceInv'
<1>1. UNCHANGED <<policyRows, riskRows, review, job, crashes>> /\ evidence[e].stored
      /\ requests < MaxRequests /\ requests' = requests + 1
  BY DEF SetHold, Budget
<1>2. evidence' = [evidence EXCEPT ![e].hold = hold]
  BY DEF SetHold
<1>3. req' = [r \in Requests |-> IF e \in req[r].ids
                THEN [req[r] EXCEPT !.after = @ \cup {e}] ELSE req[r]]
  BY DEF SetHold
<1>4. \A d \in Items : evidence[d] \in EvidenceRow
  BY StoredRows
<1>5. /\ evidence' \in [Items -> EvidenceRow]
      /\ \A d \in Items : /\ evidence'[d].session = evidence[d].session
                          /\ evidence'[d].days = evidence[d].days
                          /\ evidence'[d].stored = evidence[d].stored
                          /\ d # e => evidence'[d] = evidence[d]
  BY <1>2, <1>4 DEF EvidenceInv, EvidenceTypes, EvidenceRow
<1>6. \A d \in Items : SameRow(d)
  <2>1. evidence[e] # NoEvidence /\ evidence'[e] # NoEvidence
    BY <1>1, <1>5, StoredRows
  <2> QED
    BY <2>1, <1>5 DEF SameRow
<1>7. ASSUME NEW r \in Requests
      PROVE  /\ req'[r] \in Handlers /\ SameWork(req[r], req'[r])
             /\ req'[r].ids = req[r].ids /\ req'[r].job = req[r].job
             /\ req'[r].reopened = req[r].reopened
             /\ req[r].after \subseteq req'[r].after /\ (e \in req[r].ids => e \in req'[r].after)
  <2>1. req[r] \in Handlers
    BY ListedRows
  <2>2. CASE e \in req[r].ids
    <3>1. req'[r] = [req[r] EXCEPT !.after = @ \cup {e}]
      BY <1>3, <2>2
    <3>2. req[r].after \cup {e} \in SUBSET Items
      BY <2>1 DEF Handlers
    <3>3. PICK h \in Handlers : h = req[r]
      BY <2>1
    <3> DEFINE more == h.after \cup {e}
               new == [h EXCEPT !.after = more]
    <3>4. req'[r] = new /\ more \in SUBSET Items
      BY <3>1, <3>2, <3>3
    <3> HIDE DEF more
    <3>5. new \in Handlers
      BY <3>4 DEF Handlers
    <3>6. new.after = more /\ SameWork(h, new) /\ new.ids = h.ids /\ new.job = h.job
          /\ new.reopened = h.reopened
      BY DEF Handlers, SameWork
    <3> QED
      BY <3>3, <3>4, <3>5, <3>6 DEF more
  <2>3. CASE e \notin req[r].ids
    BY <1>3, <2>1, <2>3 DEF SameWork
  <2> QED
    BY <2>2, <2>3
<1>8. EvidenceTypes' /\ HandlerTypes'
  <2>1. req' \in [Requests -> Handlers]
    BY <1>3, <1>7
  <2>2. requests' \in 0..MaxRequests /\ crashes' \in 0..MaxCrashes
    BY <1>1, RecordBounds DEF EvidenceInv, HandlerTypes
  <2> QED
    BY <2>1, <2>2, <1>1, <1>5 DEF EvidenceInv, EvidenceTypes, HandlerTypes
<1>9. ListsHold'
  <2>1. ASSUME NEW r \in Requests PROVE ListHolds(r)'
    <3>1. ListHolds(r) /\ req[r].ids \subseteq Items
      BY ListedRows
    <3>2. req'[r].op = req[r].op
      BY <1>7 DEF SameWork
    <3>3. \A d \in req[r].ids : evidence'[d] # NoEvidence
      BY <3>1, <1>6 DEF SameRow, ListHolds
    <3>4. req[r].op \in {"delete", "reviews", "remove"} =>
              \A d \in req[r].ids : evidence'[d].hold => d \in req'[r].after
      BY <3>1, <1>5, <1>7 DEF ListHolds
    <3>5. \A q \in Requests : req'[q].job = req[q].job
      BY <1>7
    <3>6. \A d \in req[r].ids : evidence'[d].session = evidence[d].session
                                /\ evidence'[d].stored = evidence[d].stored
      BY <3>1, <1>5
    <3> QED
      BY <3>1, <3>2, <3>3, <3>4, <3>5, <3>6, <1>1, <1>7 DEF ListHolds
  <2> QED
    BY <2>1 DEF ListsHold
<1>10. JobsHold'
  BY <1>1, <1>7 DEF EvidenceInv, JobsHold, JobTruthful
<1> QED
  BY <1>1, <1>6, <1>7, <1>8, <1>9, <1>10, OnlyLists

LEMMA ExpireKeeps ==
  ASSUME EvidenceInv, NEW e \in Items, Expire(e)
  PROVE  EvidenceInv'
<1>1. UNCHANGED <<policyRows, riskRows, review, job, req, crashes>> /\ evidence[e].stored
      /\ requests < MaxRequests /\ requests' = requests + 1
  BY DEF Expire, Budget
<1>2. evidence' = [evidence EXCEPT ![e].expired = TRUE]
  BY DEF Expire
<1>3. \A d \in Items : evidence[d] \in EvidenceRow
  BY StoredRows
<1>4. /\ evidence' \in [Items -> EvidenceRow]
      /\ \A d \in Items : /\ evidence'[d].session = evidence[d].session
                          /\ evidence'[d].days = evidence[d].days
                          /\ evidence'[d].stored = evidence[d].stored
                          /\ evidence'[d].hold = evidence[d].hold
                          /\ d # e => evidence'[d] = evidence[d]
  BY <1>2, <1>3 DEF EvidenceInv, EvidenceTypes, EvidenceRow
<1>5. \A d \in Items : SameRow(d)
  <2>1. evidence[e] # NoEvidence /\ evidence'[e] # NoEvidence
    BY <1>1, <1>4, StoredRows
  <2> QED
    BY <2>1, <1>4 DEF SameRow
<1>6. \A q \in Requests : SameWork(req[q], req'[q])
  BY <1>1 DEF SameWork
<1>7. EvidenceTypes' /\ HandlerTypes'
  <2>1. requests' \in 0..MaxRequests /\ crashes' \in 0..MaxCrashes
    BY <1>1, RecordBounds DEF EvidenceInv, HandlerTypes
  <2> QED
    BY <2>1, <1>1, <1>4 DEF EvidenceInv, EvidenceTypes, HandlerTypes
<1>8. ListsHold'
  <2>1. ASSUME NEW r \in Requests PROVE ListHolds(r)'
    <3>1. ListHolds(r) /\ req[r].ids \subseteq Items
      BY ListedRows
    <3>2. \A d \in req[r].ids : /\ evidence'[d].session = evidence[d].session
                                /\ evidence'[d].stored = evidence[d].stored
                                /\ evidence'[d].hold = evidence[d].hold
                                /\ evidence'[d] # NoEvidence
      BY <3>1, <1>4, <1>5 DEF SameRow, ListHolds
    <3> QED
      BY <3>1, <3>2, <1>1 DEF ListHolds
  <2> QED
    BY <2>1 DEF ListsHold
<1>9. JobsHold'
  BY <1>1 DEF EvidenceInv, JobsHold, JobTruthful
<1> QED
  BY <1>1, <1>5, <1>6, <1>7, <1>8, <1>9, OnlyLists

\* A deletion that goes on without a write.
LEMMA ListMoves ==
  ASSUME EvidenceInv, NEW r \in Requests, NEW new \in Handlers, Go(r, new),
         UNCHANGED <<policyRows, riskRows, evidence, review, job>>,
         requests' \in 0..MaxRequests, crashes' \in 0..MaxCrashes,
         Deleting(req[r]), Deleting(new), new.job = req[r].job, ListHolds(r)'
  PROVE  EvidenceInv'
<1>1. req' \in [Requests -> Handlers] /\ req'[r] = new
      /\ \A q \in Requests \ {r} : req'[q] = req[q]
  BY Gone DEF EvidenceInv
<1>2. \A q \in Requests : req'[q].job = req[q].job
  BY <1>1
<1>3. \A q \in Requests : SameWork(req[q], req'[q]) \/ (Deleting(req[q]) /\ Deleting(req'[q]))
  BY <1>1 DEF SameWork
<1>4. \A e \in Items : SameRow(e)
  BY DEF SameRow
<1>5. EvidenceTypes' /\ HandlerTypes'
  BY <1>1 DEF EvidenceInv, EvidenceTypes, HandlerTypes
<1>6. ListsHold'
  <2>1. ASSUME NEW q \in Requests \ {r} PROVE ListHolds(q)'
    <3>1. req'[q] = req[q] /\ ListHolds(q)
      BY <1>1, ListedRows
    <3> QED
      BY <3>1, <1>2 DEF ListHolds
  <2> QED
    BY <2>1 DEF ListsHold
<1>7. JobsHold'
  BY <1>2 DEF EvidenceInv, JobsHold, JobTruthful
<1> QED
  BY <1>3, <1>4, <1>5, <1>6, <1>7, OnlyLists

LEMMA DeleteEvidenceKeeps ==
  ASSUME EvidenceInv, NEW r \in Requests, NEW u \in Users, NEW e \in Items,
         DeleteEvidence(r, u, e)
  PROVE  EvidenceInv'
<1> DEFINE new == [NoReq EXCEPT !.op = "delete", !.user = u, !.ids = {e}]
<1>1. /\ requests' \in 0..MaxRequests /\ crashes' \in 0..MaxCrashes
      /\ req[r] = NoReq /\ req[r].job = 0
  BY Called DEF DeleteEvidence
<1>2. UNCHANGED <<policyRows, riskRows, evidence, review, job>> /\ Go(r, new)
      /\ evidence[e].stored /\ ~evidence[e].hold
  BY DEF DeleteEvidence
<1>3. new \in Handlers
  BY DEF NoReq, Handlers, Statements
<1>4. new.op = "delete" /\ new.ids = {e} /\ new.job = 0
  BY DEF NoReq
<1> HIDE DEF new
<1>5. req'[r] = new
  BY <1>2, <1>3, Gone DEF EvidenceInv
<1>6. evidence[e] # NoEvidence
  BY <1>2, StoredRows
<1>7. ListHolds(r)'
  BY <1>2, <1>4, <1>5, <1>6 DEF ListHolds
<1>8. Deleting(req[r]) /\ Deleting(new)
  BY <1>1, <1>4, NoReqIs DEF Deleting
<1> QED
  BY <1>1, <1>2, <1>3, <1>4, <1>7, <1>8, ListMoves

LEMMA RetentionSelectKeeps ==
  ASSUME EvidenceInv, NEW r \in Requests, RetentionSelect(r)
  PROVE  EvidenceInv'
<1> DEFINE all == Removable(UserCollege[req[r].user])
<1>1. /\ req[r].op = "select"
      /\ UNCHANGED <<policyRows, riskRows, evidence, review, job, requests, crashes>>
  BY DEF RetentionSelect
<1>2. PICK ids \in SUBSET all :
          req' = [req EXCEPT ![r].op = "reviews", ![r].ids = ids]
  BY DEF RetentionSelect, kSubset
<1>3. \A e \in ids : e \in Items /\ evidence[e].stored /\ ~evidence[e].hold
  BY <1>2 DEF Removable
<1>4. req[r] \in Handlers /\ ListHolds(r) /\ req \in [Requests -> Handlers]
  BY ListedRows DEF EvidenceInv, HandlerTypes
<1> DEFINE new == [req[r] EXCEPT !.op = "reviews", !.ids = ids]
<1>5. Go(r, new)
  BY <1>2, <1>4 DEF Go
<1>6. new \in Handlers
  BY <1>3, <1>4 DEF Handlers, Statements
<1>7. new.op = "reviews" /\ new.ids = ids /\ new.job = req[r].job
  BY <1>4 DEF Handlers
<1> HIDE DEF new, all
<1>8. req'[r] = new /\ \A q \in Requests \ {r} : req'[q] = req[q]
  BY <1>5, <1>6, Gone DEF EvidenceInv
<1>9. \A e \in ids : evidence[e] # NoEvidence
  BY <1>3, StoredRows
<1>10. ListHolds(r)'
  BY <1>1, <1>3, <1>4, <1>7, <1>8, <1>9 DEF ListHolds
<1>11. Deleting(req[r]) /\ Deleting(new)
  BY <1>1, <1>7 DEF Deleting
<1> QED
  BY <1>1, <1>5, <1>6, <1>7, <1>10, <1>11, Stayed, ListMoves

LEMMA RetentionReviewsKeeps ==
  ASSUME EvidenceInv, NEW r \in Requests, RetentionReviews(r)
  PROVE  EvidenceInv'
<1> DEFINE ids == {e \in req[r].ids : review[evidence[e].session] \notin ActiveReview}
           new == [req[r] EXCEPT !.op = "remove", !.ids = ids]
<1>1. /\ req[r].op = "reviews"
      /\ UNCHANGED <<policyRows, riskRows, evidence, review, job, requests, crashes>>
  BY DEF RetentionReviews
<1>2. req[r] \in Handlers /\ ListHolds(r) /\ req \in [Requests -> Handlers]
      /\ req[r].ids \subseteq Items
  BY ListedRows DEF EvidenceInv, HandlerTypes
<1>3. Go(r, new)
  BY <1>2 DEF RetentionReviews, Go
<1>4. ids \subseteq req[r].ids /\ \A e \in ids : review[evidence[e].session] \notin ActiveReview
  OBVIOUS
<1> HIDE DEF ids
<1>5. new \in Handlers
  BY <1>2, <1>4 DEF Handlers, Statements
<1>6. new.op = "remove" /\ new.ids = ids /\ new.job = req[r].job /\ new.after = req[r].after
  BY <1>2 DEF Handlers
<1> HIDE DEF new
<1>7. req'[r] = new /\ \A q \in Requests \ {r} : req'[q] = req[q]
  BY <1>3, <1>5, Gone DEF EvidenceInv
<1>8. ListHolds(r)'
  BY <1>1, <1>2, <1>4, <1>6, <1>7 DEF ListHolds
<1>9. Deleting(req[r]) /\ Deleting(new)
  BY <1>1, <1>6 DEF Deleting
<1> QED
  BY <1>1, <1>3, <1>5, <1>6, <1>8, <1>9, Stayed, ListMoves

LEMMA RetentionKeeps ==
  ASSUME EvidenceInv, NEW r \in Requests, NEW u \in Users, Retention(r, u)
  PROVE  EvidenceInv'
<1> DEFINE j == Free(job, NoJob)
           new == [NoReq EXCEPT !.op = "select", !.user = u, !.job = j]
<1>1. /\ requests' \in 0..MaxRequests /\ crashes' \in 0..MaxCrashes
      /\ req[r] = NoReq /\ req[r].job = 0
  BY Called DEF Retention
<1>2. UNCHANGED <<policyRows, riskRows, evidence, review>> /\ Go(r, new)
      /\ job' = [job EXCEPT ![j].status = "PROCESSING", ![j].college = UserCollege[u]]
  BY DEF Retention
<1>3. j \in Jobs /\ job[j] = NoJob
  <2>1. DOMAIN job = Jobs
    BY DEF EvidenceInv, EvidenceTypes
  <2> QED
    BY <2>1, SmallSets, FreeIsFree DEF Retention
<1> HIDE DEF j
<1>4. new \in Handlers
  BY <1>3 DEF NoReq, Handlers, Statements
<1>5. new.op = "select" /\ new.ids = {} /\ new.job = j
  BY DEF NoReq
<1> HIDE DEF new
<1>6. req' \in [Requests -> Handlers] /\ req'[r] = new
      /\ \A q \in Requests \ {r} : req'[q] = req[q]
  BY <1>2, <1>4, Gone DEF EvidenceInv
<1>7. /\ job' \in [Jobs -> JobRow] /\ job'[j].status = "PROCESSING"
      /\ \A k \in Jobs \ {j} : job'[k] = job[k]
  <2>1. UserCollege[u] \in Colleges \cup {None} /\ job \in [Jobs -> JobRow]
    BY SessionColumns DEF EvidenceInv, EvidenceTypes
  <2>2. job[j] \in JobRow
    BY <1>3, <2>1
  <2>3. [job[j] EXCEPT !.status = "PROCESSING", !.college = UserCollege[u]] \in JobRow
    BY <2>1, <2>2 DEF JobRow
  <2>4. job' = [job EXCEPT ![j] = [job[j] EXCEPT !.status = "PROCESSING", !.college = UserCollege[u]]]
    BY <1>2, <1>3, <2>1
  <2>5. job'[j] = [job[j] EXCEPT !.status = "PROCESSING", !.college = UserCollege[u]]
    BY <1>3, <2>1, <2>4
  <2>6. job'[j].status = "PROCESSING"
    BY <2>2, <2>5 DEF JobRow
  <2> QED
    BY <1>3, <2>1, <2>3, <2>4, <2>6
<1>8. \A q \in Requests : req[q].job # j
  <2>1. ASSUME NEW q \in Requests, req[q].job = j PROVE FALSE
    <3>1. ListHolds(q) /\ j # 0
      BY <1>3, ListedRows
    <3>2. job[j].status = "PROCESSING"
      BY <2>1, <3>1 DEF ListHolds
    <3> QED
      BY <1>3, <3>2 DEF NoJob
  <2> QED
    BY <2>1
<1>9. ListsHold'
  <2>1. ListHolds(r)'
    BY <1>3, <1>5, <1>6, <1>7, <1>8, ListedRows DEF ListHolds
  <2>2. ASSUME NEW q \in Requests \ {r} PROVE ListHolds(q)'
    <3>1. req'[q] = req[q] /\ ListHolds(q) /\ req[q].job \in Jobs \cup {0}
      BY <1>6, ListedRows
    <3>2. req[q].job # 0 => job'[req[q].job] = job[req[q].job]
      BY <3>1, <1>7, <1>8
    <3>3. \A p \in Requests : req'[p].job = req[q].job /\ req[q].job # 0 => p = q
      <4>1. \A p \in Requests : req[p].job = req[q].job /\ req[q].job # 0 => p = q
        BY <3>1 DEF ListHolds
      <4> QED
        BY <4>1, <1>5, <1>6, <1>8
    <3> QED
      BY <3>1, <3>2, <3>3, <1>2 DEF ListHolds
  <2> QED
    BY <2>1, <2>2 DEF ListsHold
<1>10. JobsHold'
  <2>1. ASSUME NEW k \in Jobs \ {j}, NEW q \in Requests, req[q].job = k
        PROVE  \E p \in Requests : req'[p].job = k
    <3>1. k # 0
      BY DEF Jobs
    <3> QED
      BY <3>1, <2>1, <1>1, <1>6
  <2>2. \E p \in Requests : req'[p].job = j
    BY <1>5, <1>6
  <2> QED
    BY <2>1, <2>2, <1>3, <1>7 DEF EvidenceInv, JobsHold, JobTruthful
<1>11. EvidenceTypes' /\ HandlerTypes'
  BY <1>1, <1>2, <1>6, <1>7 DEF EvidenceInv, EvidenceTypes, HandlerTypes
<1>12. \A q \in Requests : SameWork(req[q], req'[q]) \/ (Deleting(req[q]) /\ Deleting(req'[q]))
  BY <1>1, <1>5, <1>6, NoReqIs DEF SameWork, Deleting
<1>13. \A e \in Items : SameRow(e)
  BY <1>2 DEF SameRow
<1> QED
  BY <1>2, <1>9, <1>10, <1>11, <1>12, <1>13, OnlyLists

LEMMA RetentionDoneKeeps ==
  ASSUME EvidenceInv, NEW r \in Requests, RetentionDone(r)
  PROVE  EvidenceInv'
<1> DEFINE j == req[r].job
           n == Cardinality(req[r].ids)
<1>1. /\ req[r].op = "count" /\ Go(r, NoReq)
      /\ UNCHANGED <<policyRows, riskRows, evidence, review, requests, crashes>>
      /\ job' = [job EXCEPT ![j].status = "COMPLETED", ![j].count = n]
  BY DEF RetentionDone, Done, Go
<1>2. req[r].ids \subseteq Items /\ ListHolds(r) /\ j \in Jobs \cup {0} /\ 0 \notin Jobs
  BY ListedRows
<1>3. j \in Jobs
  BY <1>1, <1>2 DEF ListHolds
<1>4. n \in Nat
  BY <1>2, SmallSets, FS_Subset, FS_CardinalityType
<1>5. /\ \A q \in Requests \ {r} : req[q].job # j
      /\ ~job[j].raced => job[j].removed = n
  BY <1>1, <1>2, <1>3 DEF ListHolds
<1> HIDE DEF n, j
<1>6. req' \in [Requests -> Handlers] /\ req'[r] = NoReq
      /\ \A q \in Requests \ {r} : req'[q] = req[q]
  BY <1>1, NoReqIs, Gone DEF EvidenceInv
<1>7. /\ job' \in [Jobs -> JobRow] /\ job'[j].status = "COMPLETED" /\ job'[j].count = n
      /\ job'[j].removed = job[j].removed /\ job'[j].raced = job[j].raced
      /\ \A k \in Jobs \ {j} : job'[k] = job[k]
  <2>1. job \in [Jobs -> JobRow]
    BY DEF EvidenceInv, EvidenceTypes
  <2>2. PICK entry \in JobRow : entry = job[j]
    BY <1>3, <2>1
  <2> DEFINE new == [entry EXCEPT !.status = "COMPLETED", !.count = n]
  <2>3. new \in JobRow
    BY <1>4, <2>2 DEF JobRow
  <2>4. new.status = "COMPLETED" /\ new.count = n /\ new.removed = entry.removed /\ new.raced = entry.raced
    BY <2>2 DEF JobRow
  <2>5. job' = [job EXCEPT ![j] = new]
    BY <1>1, <1>3, <2>1, <2>2
  <2> HIDE DEF new
  <2> QED
    BY <1>3, <2>1, <2>2, <2>3, <2>4, <2>5
<1>8. ListsHold'
  <2>1. ListHolds(r)'
    BY <1>6, NoReqIs DEF ListHolds, Plain
  <2>2. ASSUME NEW q \in Requests \ {r} PROVE ListHolds(q)'
    <3>1. req'[q] = req[q] /\ ListHolds(q) /\ req[q].job \in Jobs \cup {0}
      BY <1>6, ListedRows
    <3>2. req[q].job # 0 => job'[req[q].job] = job[req[q].job]
      BY <3>1, <1>5, <1>7
    <3>3. \A p \in Requests : req'[p].job = req[q].job /\ req[q].job # 0 => p = q
      <4>1. \A p \in Requests : req[p].job = req[q].job /\ req[q].job # 0 => p = q
        BY <3>1 DEF ListHolds
      <4> QED
        BY <4>1, <1>6, NoReqIs DEF Plain
    <3> QED
      BY <3>1, <3>2, <3>3, <1>1 DEF ListHolds
  <2> QED
    BY <2>1, <2>2 DEF ListsHold
<1>9. JobsHold'
  <2>1. ASSUME NEW k \in Jobs \ {j}, NEW q \in Requests, req[q].job = k
        PROVE  \E p \in Requests : req'[p].job = k
    <3>1. q # r
      BY <2>1 DEF j
    <3> QED
      BY <3>1, <2>1, <1>6
  <2> QED
    BY <2>1, <1>3, <1>5, <1>7 DEF EvidenceInv, JobsHold, JobTruthful
<1>10. EvidenceTypes' /\ HandlerTypes'
  BY <1>1, <1>6, <1>7 DEF EvidenceInv, EvidenceTypes, HandlerTypes
<1>11. \A q \in Requests : SameWork(req[q], req'[q]) \/ (Deleting(req[q]) /\ Deleting(req'[q]))
  BY <1>1, <1>6, NoReqIs DEF SameWork, Deleting
<1>12. \A e \in Items : SameRow(e)
  BY <1>1 DEF SameRow
<1> QED
  BY <1>1, <1>8, <1>9, <1>10, <1>11, <1>12, OnlyLists

LEMMA RowsRemoved ==
  ASSUME EvidenceInv, NEW ids \in SUBSET Items, RemoveRows(ids),
         \A e \in ids : evidence[e] # NoEvidence
  PROVE  /\ evidence' \in [Items -> EvidenceRow]
         /\ \A e \in Items : SameRow(e) /\ evidence'[e].hold = evidence[e].hold
         /\ \A e \in Items \ ids : evidence'[e] = evidence[e]
<1>1. ASSUME NEW e \in Items
      PROVE  /\ evidence'[e] \in EvidenceRow /\ SameRow(e) /\ evidence'[e].hold = evidence[e].hold
             /\ e \notin ids => evidence'[e] = evidence[e]
  <2>1. evidence[e] \in EvidenceRow
    BY StoredRows
  <2>2. CASE e \in ids
    <3>1. evidence'[e] = [evidence[e] EXCEPT !.stored = FALSE]
      BY <2>2 DEF RemoveRows
    <3>2. /\ evidence'[e] \in EvidenceRow /\ evidence'[e].hold = evidence[e].hold
          /\ evidence'[e].session = evidence[e].session /\ evidence'[e].days = evidence[e].days
      BY <2>1, <3>1 DEF EvidenceRow
    <3>3. evidence[e] # NoEvidence /\ evidence'[e] # NoEvidence
      BY <2>2, <3>2, StoredRows
    <3> QED
      BY <2>2, <3>2, <3>3 DEF SameRow
  <2>3. CASE e \notin ids
    <3>1. evidence'[e] = evidence[e]
      BY <2>3 DEF RemoveRows
    <3> QED
      BY <2>1, <2>3, <3>1 DEF SameRow
  <2> QED
    BY <2>2, <2>3
<1>2. DOMAIN evidence' = Items /\ evidence' = [e \in Items |-> evidence'[e]]
  BY DEF RemoveRows
<1> QED
  BY <1>1, <1>2

\* A job whose rows another deletion took is marked; the other jobs are not touched.
CaughtUp(j, ids) == /\ job' \in [Jobs -> JobRow]
                     /\ \A k \in Jobs \ {j} :
                           /\ job'[k].status = job[k].status /\ job'[k].removed = job[k].removed
                           /\ job'[k].count = job[k].count /\ job'[k].orphan = job[k].orphan
                           /\ job'[k].raced <=> (job[k].raced \/ k \in Raced(j, ids))
                           /\ job'[k] = job[k] \/ k \in Raced(j, ids)

LEMMA RacedMarked ==
  ASSUME NEW entry \in JobRow
  PROVE  LET new == [entry EXCEPT !.raced = TRUE] IN
         /\ new \in JobRow /\ new.raced /\ new.status = entry.status /\ new.removed = entry.removed
         /\ new.count = entry.count /\ new.orphan = entry.orphan
  BY DEF JobRow

\* The lists of the others stay true when rows of this one's list leave.
LEMMA OthersLists ==
  ASSUME EvidenceInv, NEW r \in Requests, NEW new \in Handlers, Go(r, new),
         new.job \in {0, req[r].job}, NEW ids \in SUBSET Items, RemoveRows(ids),
         \A e \in ids : evidence[e] # NoEvidence,
         CaughtUp(req[r].job, ids), UNCHANGED review, NEW q \in Requests \ {r}
  PROVE  ListHolds(q)'
<1> DEFINE k == req[q].job
<1>1. req'[r] = new /\ \A p \in Requests \ {r} : req'[p] = req[p]
  BY Gone DEF EvidenceInv
<1>2. req'[q] = req[q] /\ ListHolds(q) /\ k \in Jobs \cup {0} /\ 0 \notin Jobs
      /\ req[q].ids \subseteq Items
  BY <1>1, ListedRows
<1>3. \A p \in Requests : req[p].job = k /\ k # 0 => p = q
  BY <1>2 DEF ListHolds
<1>4. \A p \in Requests : req'[p].job = k /\ k # 0 => p = q
  BY <1>1, <1>3
<1>5. \A e \in req[q].ids : /\ evidence'[e] # NoEvidence /\ evidence'[e].hold = evidence[e].hold
                            /\ evidence'[e].session = evidence[e].session
  BY <1>2, RowsRemoved DEF SameRow, ListHolds
<1>6. \A e \in req[q].ids : evidence[e].stored /\ e \notin ids => evidence'[e].stored
  BY <1>2, RowsRemoved
<1>7. k # 0 => /\ k \in Jobs \ {req[r].job}
               /\ k \notin Raced(req[r].job, ids) => req[q].ids \cap ids = {}
  BY <1>2, <1>3 DEF Raced
<1> HIDE DEF k
<1>8. k # 0 => /\ job'[k].status = job[k].status /\ job'[k].removed = job[k].removed
               /\ ~job'[k].raced => ~job[k].raced /\ k \notin Raced(req[r].job, ids)
  BY <1>7 DEF CaughtUp
<1>9. k # 0 /\ req[q].op \in {"reviews", "remove"} /\ ~job'[k].raced =>
          \A e \in req[q].ids : evidence'[e].stored
  <2>1. SUFFICES ASSUME k # 0, req[q].op \in {"reviews", "remove"}, ~job'[k].raced,
                        NEW e \in req[q].ids
                 PROVE  evidence'[e].stored
    OBVIOUS
  <2>2. ~job[k].raced /\ e \notin ids
    BY <2>1, <1>7, <1>8
  <2>3. evidence[e].stored
    BY <2>1, <2>2, <1>2 DEF ListHolds, k
  <2> QED
    BY <2>2, <2>3, <1>6
<1> QED
  BY <1>2, <1>4, <1>5, <1>8, <1>9 DEF ListHolds, k

LEMMA DeleteRowKeeps ==
  ASSUME EvidenceInv, NEW r \in Requests, DeleteRow(r)
  PROVE  EvidenceInv'
<1> DEFINE ids == req[r].ids
<1>1. /\ req[r].op = "delete" /\ RemoveRows(ids) /\ Go(r, NoReq)
      /\ UNCHANGED <<policyRows, riskRows, review, requests, crashes>>
      /\ job' = [j \in Jobs |-> IF j \in Raced(0, ids)
                   THEN [job[j] EXCEPT !.raced = TRUE] ELSE job[j]]
  BY DEF DeleteRow, Done, Go
<1>2. ids \in SUBSET Items /\ ListHolds(r) /\ 0 \notin Jobs
  BY ListedRows
<1>3. req[r].job = 0 /\ \A e \in ids : evidence[e] # NoEvidence
  BY <1>1, <1>2 DEF ListHolds
<1>4. CaughtUp(0, ids)
  <2>1. \A j \in Jobs : job[j] \in JobRow
    BY DEF EvidenceInv, EvidenceTypes
  <2>2. ASSUME NEW j \in Jobs
        PROVE  /\ job'[j] \in JobRow
               /\ job'[j].status = job[j].status /\ job'[j].removed = job[j].removed
               /\ job'[j].count = job[j].count /\ job'[j].orphan = job[j].orphan
               /\ job'[j].raced <=> (job[j].raced \/ j \in Raced(0, ids))
               /\ job'[j] = job[j] \/ j \in Raced(0, ids)
    <3>1. CASE j \in Raced(0, ids)
      BY <1>1, <2>1, <3>1, RacedMarked
    <3>2. CASE j \notin Raced(0, ids)
      <4>1. job'[j] = job[j]
        BY <1>1, <3>2
      <4> QED
        BY <2>1, <3>2, <4>1
    <3> QED
      BY <3>1, <3>2
  <2>3. DOMAIN job' = Jobs /\ job' = [j \in Jobs |-> job'[j]]
    BY <1>1
  <2>4. job' \in [Jobs -> JobRow]
    BY <2>2, <2>3
  <2> QED
    BY <2>2, <2>4 DEF CaughtUp
<1>5. req' \in [Requests -> Handlers] /\ req'[r] = NoReq
      /\ \A q \in Requests \ {r} : req'[q] = req[q]
  BY <1>1, NoReqIs, Gone DEF EvidenceInv
<1> HIDE DEF ids
<1>6. ListsHold'
  <2>1. ListHolds(r)'
    BY <1>5, NoReqIs DEF ListHolds, Plain
  <2>2. NoReq \in Handlers /\ NoReq.job \in {0, req[r].job}
    BY NoReqIs DEF Plain
  <2>3. ASSUME NEW q \in Requests \ {r} PROVE ListHolds(q)'
    BY <2>2, <1>1, <1>2, <1>3, <1>4, OthersLists
  <2> QED
    BY <2>1, <2>3 DEF ListsHold
<1>7. JobsHold'
  <2>1. \A k \in Jobs : (\E q \in Requests : req[q].job = k) => \E q \in Requests : req'[q].job = k
    BY <1>2, <1>3, <1>5
  <2>2. ASSUME NEW k \in Raced(0, ids) PROVE k \in Jobs /\ job[k].status = "PROCESSING"
    <3>1. PICK q \in Requests : req[q].job = k /\ k \in Jobs
      BY <2>2 DEF Raced
    <3>2. ListHolds(q)
      BY ListedRows
    <3> QED
      BY <3>1, <3>2, <1>2 DEF ListHolds
  <2>3. ASSUME NEW k \in Jobs, job'[k].status = "NONE" PROVE job'[k] = NoJob
    <3>1. job[k].status = "NONE" /\ job'[k] = job[k]
      BY <2>2, <2>3, <1>2, <1>4 DEF CaughtUp
    <3> QED
      BY <3>1 DEF EvidenceInv, JobsHold
  <2>4. JobTruthful'
    BY <2>1, <1>2, <1>4 DEF CaughtUp, EvidenceInv, JobsHold, JobTruthful
  <2> QED
    BY <2>3, <2>4 DEF JobsHold
<1>8. EvidenceTypes' /\ HandlerTypes'
  BY <1>1, <1>2, <1>3, <1>4, <1>5, RowsRemoved DEF CaughtUp, EvidenceInv, EvidenceTypes, HandlerTypes
<1>9. \A q \in Requests : SameWork(req[q], req'[q]) \/ (Deleting(req[q]) /\ Deleting(req'[q]))
  BY <1>1, <1>5, NoReqIs DEF SameWork, Deleting
<1>10. \A e \in Items : SameRow(e)
  BY <1>1, <1>2, <1>3, RowsRemoved
<1> QED
  BY <1>1, <1>6, <1>7, <1>8, <1>9, <1>10, OnlyLists

LEMMA RetentionRemoveKeeps ==
  ASSUME EvidenceInv, NEW r \in Requests, RetentionRemove(r)
  PROVE  EvidenceInv'
<1> DEFINE ids == {e \in req[r].ids : evidence[e].stored}
           j == req[r].job
           n == Cardinality(ids)
           new == [req[r] EXCEPT !.op = "count"]
<1>1. /\ req[r].op = "remove" /\ RemoveRows(ids)
      /\ UNCHANGED <<policyRows, riskRows, review, requests, crashes>>
      /\ job' = [k \in Jobs |-> CASE k = j -> [job[k] EXCEPT !.removed = n]
                                  [] k \in Raced(j, ids) -> [job[k] EXCEPT !.raced = TRUE]
                                  [] OTHER -> job[k]]
  BY DEF RetentionRemove
<1>2. req[r].ids \subseteq Items /\ ListHolds(r) /\ j \in Jobs \cup {0} /\ 0 \notin Jobs
      /\ req[r] \in Handlers
  BY ListedRows
<1>3. Go(r, new)
  BY DEF RetentionRemove, Step, Go, EvidenceInv, HandlerTypes
<1>4. new \in Handlers /\ new.op = "count" /\ new.ids = req[r].ids /\ new.job = j
  BY <1>2 DEF Handlers, Statements
<1>5. j \in Jobs /\ job[j].status = "PROCESSING"
      /\ (\A q \in Requests : req[q].job = j => q = r)
      /\ (~job[j].raced => ids = req[r].ids)
  BY <1>1, <1>2 DEF ListHolds
<1>6. ids \in SUBSET Items /\ \A e \in ids : evidence[e] # NoEvidence
  BY <1>2 DEF ListHolds
<1>7. n \in Nat
  BY <1>6, SmallSets, FS_Subset, FS_CardinalityType
<1>8. ~job[j].raced => n = Cardinality(req[r].ids)
  BY <1>5
<1> HIDE DEF ids, n, new
<1>9. job[j] \in JobRow /\ \A k \in Jobs : job[k] \in JobRow
  BY <1>5 DEF EvidenceInv, EvidenceTypes
<1>10. /\ job'[j] \in JobRow /\ job'[j].status = "PROCESSING" /\ job'[j].removed = n
       /\ job'[j].raced = job[j].raced
  <2>1. job'[j] = [job[j] EXCEPT !.removed = n]
    <3>1. ASSUME NEW k \in Jobs, k = j PROVE job'[k] = [job[k] EXCEPT !.removed = n]
      <4>1. job'[k] = CASE k = j -> [job[k] EXCEPT !.removed = n]
                        [] k \in Raced(j, ids) -> [job[k] EXCEPT !.raced = TRUE]
                        [] OTHER -> job[k]
        BY <1>1
      <4>2. k \notin Raced(j, ids)
        BY <3>1 DEF Raced
      <4> HIDE DEF j
      <4> QED
        BY <3>1, <4>1, <4>2
    <3> QED
      BY <3>1, <1>5
  <2>2. PICK entry \in JobRow : entry = job[j]
    BY <1>9
  <2> DEFINE next == [entry EXCEPT !.removed = n]
  <2>3. next \in JobRow
    BY <1>7, <2>2 DEF JobRow
  <2>4. next.status = entry.status /\ next.removed = n /\ next.raced = entry.raced
    BY <2>2 DEF JobRow
  <2> HIDE DEF next
  <2>5. job'[j] = next
    BY <2>1, <2>2 DEF next
  <2> QED
    BY <2>2, <2>3, <2>4, <2>5, <1>5
<1>11. CaughtUp(j, ids)
  <2>1. ASSUME NEW k \in Jobs \ {j}
        PROVE  /\ job'[k] \in JobRow
               /\ job'[k].status = job[k].status /\ job'[k].removed = job[k].removed
               /\ job'[k].count = job[k].count /\ job'[k].orphan = job[k].orphan
               /\ job'[k].raced <=> (job[k].raced \/ k \in Raced(j, ids))
               /\ job'[k] = job[k] \/ k \in Raced(j, ids)
    <3>1. CASE k \in Raced(j, ids)
      <4>1. job'[k] = [job[k] EXCEPT !.raced = TRUE]
        BY <1>1, <3>1
      <4> QED
        BY <1>9, <3>1, <4>1, RacedMarked
    <3>2. CASE k \notin Raced(j, ids)
      <4>1. job'[k] = job[k]
        BY <1>1, <3>2
      <4> QED
        BY <1>9, <3>2, <4>1
    <3> QED
      BY <3>1, <3>2
  <2>2. DOMAIN job' = Jobs /\ job' = [k \in Jobs |-> job'[k]]
    BY <1>1
  <2>3. job' \in [Jobs -> JobRow]
    BY <2>1, <2>2, <1>10
  <2> QED
    BY <2>1, <2>3 DEF CaughtUp
<1>12. req' \in [Requests -> Handlers] /\ req'[r] = new
       /\ \A q \in Requests \ {r} : req'[q] = req[q]
  BY <1>3, <1>4, Gone DEF EvidenceInv
<1>13. \A q \in Requests : req'[q].job = req[q].job
  BY <1>4, <1>12
<1> HIDE DEF j
<1>14. ListsHold'
  <2>1. ListHolds(r)'
    <3>1. \A e \in new.ids : evidence'[e] # NoEvidence
      BY <1>1, <1>2, <1>4, <1>6, RowsRemoved DEF SameRow, ListHolds
    <3>2. new.job # 0 /\ job'[new.job].status = "PROCESSING"
          /\ (\A q \in Requests : req'[q].job = new.job => q = r)
          /\ (~job'[new.job].raced => job'[new.job].removed = Cardinality(new.ids))
      BY <1>2, <1>4, <1>5, <1>8, <1>10, <1>13
    <3> QED
      BY <3>1, <3>2, <1>4, <1>12 DEF ListHolds
  <2>2. new.job \in {0, req[r].job}
    BY <1>4 DEF j
  <2>3. ASSUME NEW q \in Requests \ {r} PROVE ListHolds(q)'
    <3>1. CaughtUp(req[r].job, ids)
      BY <1>11 DEF j
    <3>2. UNCHANGED review
      BY <1>1
    <3> QED
      BY <3>1, <3>2, <2>2, <1>1, <1>3, <1>4, <1>6, OthersLists
  <2> QED
    BY <2>1, <2>3 DEF ListsHold
<1>15. JobsHold'
  <2>1. ASSUME NEW k \in Raced(j, ids) PROVE k \in Jobs /\ job[k].status = "PROCESSING"
    <3>1. PICK q \in Requests : req[q].job = k /\ k \in Jobs
      BY <2>1 DEF Raced
    <3>2. ListHolds(q)
      BY ListedRows
    <3> QED
      BY <3>1, <3>2, <1>2 DEF ListHolds
  <2>2. ASSUME NEW k \in Jobs, job'[k].status = "NONE" PROVE job'[k] = NoJob
    <3>1. k # j
      BY <2>2, <1>10
    <3>2. job[k].status = "NONE" /\ job'[k] = job[k]
      BY <2>1, <2>2, <3>1, <1>11 DEF CaughtUp
    <3> QED
      BY <3>2 DEF EvidenceInv, JobsHold
  <2>3. ASSUME NEW k \in Jobs
        PROVE  /\ job'[k].status = "COMPLETED" /\ ~job'[k].raced => job'[k].count = job'[k].removed
               /\ job'[k].status = "PROCESSING" =>
                      job'[k].orphan \/ \E q \in Requests : req'[q].job = k
    <3>1. CASE k = j
      <4>1. req'[r].job = j
        BY <1>4, <1>12
      <4> QED
        BY <3>1, <4>1, <1>10
    <3>2. CASE k # j
      BY <3>2, <1>11, <1>13 DEF CaughtUp, EvidenceInv, JobsHold, JobTruthful
    <3> QED
      BY <3>1, <3>2
  <2> QED
    BY <2>2, <2>3 DEF JobsHold, JobTruthful
<1>16. EvidenceTypes' /\ HandlerTypes'
  BY <1>1, <1>6, <1>11, <1>12, RowsRemoved DEF CaughtUp, EvidenceInv, EvidenceTypes, HandlerTypes
<1>17. \A q \in Requests : SameWork(req[q], req'[q]) \/ (Deleting(req[q]) /\ Deleting(req'[q]))
  BY <1>1, <1>4, <1>12 DEF SameWork, Deleting
<1>18. \A e \in Items : SameRow(e)
  BY <1>1, <1>6, RowsRemoved
<1> QED
  BY <1>1, <1>14, <1>15, <1>16, <1>17, <1>18, OnlyLists

-----------------------------------------------------------------------------
(* Reviews. *)

\* A handler goes on with one of its session's statements.
LEMMA FlagKeeps ==
  ASSUME EvidenceInv, NEW r \in Requests, NEW u \in Users, NEW s \in Sessions, Flag(r, u, s)
  PROVE  EvidenceInv'
<1> DEFINE new == [NoReq EXCEPT !.op = "flag", !.user = u, !.session = s]
<1>1. /\ requests' \in 0..MaxRequests /\ crashes' \in 0..MaxCrashes
      /\ req[r].job = 0 /\ ~Scoring(req[r])
  BY Called DEF Flag
<1>2. Go(r, new) /\ UNCHANGED <<policyRows, riskRows, evidence, review, job>>
  BY DEF Flag
<1>3. new \in Handlers
  BY DEF NoReq, Handlers, Statements
<1>4. new.op = "flag" /\ new.session = s /\ new.job = 0 /\ new.ids = {}
  BY DEF NoReq
<1> HIDE DEF new
<1>5. Known(new) /\ ~Scoring(new) /\ Plain(new) /\ new.op # "default"
  BY <1>4 DEF Known, Scoring, Plain
<1> QED
  BY <1>1, <1>2, <1>3, <1>5, QuietlyOn

LEMMA ReportKeeps ==
  ASSUME EvidenceInv, NEW r \in Requests, NEW u \in Users, NEW s \in Sessions,
         NEW warn \in BOOLEAN, Report(r, u, s, warn)
  PROVE  EvidenceInv'
<1> DEFINE new == [NoReq EXCEPT !.op = "record", !.user = u, !.session = s]
<1>1. Call(r, u, InvigilatorRoutes, "warn") \/ Call(r, u, ProctoredRoutes, "recordEvents")
  BY DEF Report
<1>2. Go(r, new) /\ UNCHANGED <<policyRows, riskRows, evidence, review, job, crashes>>
  BY DEF Report
<1>3. /\ requests' \in 0..MaxRequests /\ crashes' \in 0..MaxCrashes
      /\ req[r].job = 0 /\ ~Scoring(req[r])
  BY <1>1, <1>2, Called
<1>4. new \in Handlers
  BY DEF NoReq, Handlers, Statements
<1>5. new.op = "record" /\ new.session = s /\ new.job = 0 /\ new.ids = {}
  BY DEF NoReq
<1> HIDE DEF new
<1>6. Known(new) /\ ~Scoring(new) /\ Plain(new) /\ new.op # "default"
  BY <1>5 DEF Known, Scoring, Plain
<1> QED
  BY <1>2, <1>3, <1>4, <1>6, QuietlyOn

\* A review becomes status: the deletions that have read the reviews are told.
LEMMA ReviewSet ==
  ASSUME EvidenceInv, NEW r \in Requests, NEW s \in Sessions, NEW status \in ReviewStates,
         NEW new \in Handlers, SetReview(r, s, status, new),
         Plain(new), Known(new), ~Scoring(new), new.op # "default",
         req[r].job = 0, ~Scoring(req[r]),
         UNCHANGED <<policyRows, riskRows, evidence, job>>,
         requests' \in 0..MaxRequests, crashes' \in 0..MaxCrashes
  PROVE  EvidenceInv'
<1> USE DEF EvidenceInv
<1>1. UNCHANGED <<policy, recent, snapshot, doubled, riskSum, risk, unsettled, evidence, job>>
  BY DEF policyRows, riskRows
<1>2. review' = [review EXCEPT ![s] = status]
      /\ req' = [q \in Requests |->
             CASE q = r -> new
               [] req[q].op = "remove" /\ status \in ActiveReview ->
                    [req[q] EXCEPT !.reopened = @ \cup {s}]
               [] OTHER -> req[q]]
  BY DEF SetReview
<1>3. req'[r] = new
  <2>1. ASSUME NEW q \in Requests, q = r, req[r].op # "remove" PROVE req'[q] = new
    BY <1>2, <2>1
  <2>2. req[r].op # "remove"
    BY ListedRows DEF ListHolds
  <2> QED
    BY <2>1, <2>2
<1>4. ASSUME NEW q \in Requests \ {r}
      PROVE  /\ req'[q] \in Handlers /\ SameWork(req[q], req'[q])
             /\ req'[q].ids = req[q].ids /\ req'[q].job = req[q].job
             /\ req'[q].after = req[q].after /\ req[q].reopened \subseteq req'[q].reopened
             /\ req[q].op = "remove" /\ status \in ActiveReview => s \in req'[q].reopened
  <2>1. req[q] \in Handlers
    BY ListedRows
  <2>2. CASE req[q].op = "remove" /\ status \in ActiveReview
    <3>1. req'[q] = [req[q] EXCEPT !.reopened = @ \cup {s}]
      BY <1>2, <1>4, <2>2
    <3>2. req[q].reopened \cup {s} \in SUBSET Sessions
      BY <2>1 DEF Handlers
    <3>3. PICK h \in Handlers : h = req[q]
      BY <2>1
    <3> DEFINE more == h.reopened \cup {s}
               next == [h EXCEPT !.reopened = more]
    <3>4. req'[q] = next /\ more \in SUBSET Sessions
      BY <3>1, <3>2, <3>3
    <3> HIDE DEF more
    <3>5. next \in Handlers
      BY <3>4, ZenonT(120) DEF Handlers
    <3>6. next.reopened = more /\ SameWork(h, next) /\ next.ids = h.ids /\ next.job = h.job
          /\ next.after = h.after
      BY DEF Handlers, SameWork
    <3> QED
      BY <3>3, <3>4, <3>5, <3>6 DEF more
  <2>3. CASE ~(req[q].op = "remove" /\ status \in ActiveReview)
    <3>1. req'[q] = req[q]
      BY <1>2, <1>4, <2>3
    <3> QED
      BY <2>1, <2>3, <3>1 DEF SameWork
  <2> QED
    BY <2>2, <2>3
<1>5. req' \in [Requests -> Handlers]
  <2>1. \A q \in Requests : req'[q] \in Handlers
    BY <1>3, <1>4
  <2>2. DOMAIN req' = Requests /\ req' = [q \in Requests |-> req'[q]]
    BY <1>2
  <2> QED
    BY <2>1, <2>2
<1>6. ListsHold'
  <2>1. ListHolds(r)'
    BY <1>3 DEF ListHolds, Plain
  <2>2. ASSUME NEW q \in Requests \ {r} PROVE ListHolds(q)'
    <3>1. ListHolds(q) /\ req[q].ids \subseteq Items /\ req'[q].op = req[q].op
      BY <1>4, ListedRows DEF SameWork
    <3>2. \A p \in Requests : req'[p].job = req[q].job /\ req[q].job # 0 => p = q
      BY <3>1, <1>3, <1>4 DEF ListHolds, Plain
    <3>3. req[q].op = "remove" => \A e \in req[q].ids :
              review'[evidence[e].session] \in ActiveReview =>
                  evidence[e].session \in req'[q].reopened
      <4>1. SUFFICES ASSUME req[q].op = "remove", NEW e \in req[q].ids,
                            review'[evidence[e].session] \in ActiveReview
                     PROVE  evidence[e].session \in req'[q].reopened
        OBVIOUS
      <4>2. evidence[e].session \in Sessions
        BY <3>1, StoredRows DEF ListHolds
      <4>3. CASE evidence[e].session = s
        <5>1. review'[s] = status
          BY <1>2 DEF EvidenceTypes
        <5> QED
          BY <4>1, <4>3, <5>1, <1>4
      <4>4. CASE evidence[e].session # s
        <5>1. review'[evidence[e].session] = review[evidence[e].session]
          BY <1>2, <4>2, <4>4 DEF EvidenceTypes
        <5>2. evidence[e].session \in req[q].reopened
          BY <3>1, <4>1, <5>1 DEF ListHolds
        <5> QED
          BY <5>2, <1>4
      <4> QED
        BY <4>3, <4>4
    <3> QED
      BY <3>1, <3>2, <3>3, <1>1, <1>4 DEF ListHolds
  <2> QED
    BY <2>1, <2>2 DEF ListsHold
<1>7. JobsHold'
  <2>1. \A j \in Jobs : (\E q \in Requests : req[q].job = j) => \E q \in Requests : req'[q].job = j
    BY <1>4, ListedRows
  <2> QED
    BY <2>1, <1>1 DEF JobsHold, JobTruthful
<1>8. SnapshotHolds'
  <2>1. ASSUME NEW q \in Requests PROVE Known(req[q])'
    <3>1. CASE q = r
      <4>1. Known(req'[q])
        BY <3>1, <1>3
      <4> QED
        BY <4>1, <1>1 DEF Known
    <3>2. CASE q # r
      <4>1. Known(req[q]) /\ SameWork(req[q], req'[q])
        BY <3>2, <1>4 DEF SnapshotHolds
      <4> QED
        BY <4>1, <1>1 DEF Known, SameWork
    <3> QED
      BY <3>1, <3>2
  <2> QED
    BY <2>1, <1>1 DEF SnapshotHolds, RowKnown
<1>9. DefaultsHold'
  BY <1>1, <1>3, <1>4, DefaultsKept DEF SameWork
<1>10. RisksHold'
  <2>1. \A q \in Requests : Scoring(req[q]) \/ Scoring(req'[q]) => SameWork(req[q], req'[q])
    BY <1>3, <1>4
  <2> QED
    BY <2>1, RisksKept DEF SameWork
<1>11. PolicyTypes' /\ RecentHolds' /\ RiskTypes'
  BY <1>1 DEF PolicyTypes, RecentHolds, RiskTypes
<1>12. EvidenceTypes' /\ HandlerTypes'
  BY <1>1, <1>2, <1>5 DEF EvidenceTypes, HandlerTypes
<1> QED
  BY <1>6, <1>7, <1>8, <1>9, <1>10, <1>11, <1>12

LEMMA FlagReviewKeeps ==
  ASSUME EvidenceInv, NEW r \in Requests, FlagReview(r)
  PROVE  EvidenceInv'
<1> DEFINE s == req[r].session
           new == [NoReq EXCEPT !.op = "record", !.user = req[r].user, !.session = s]
<1>1. /\ req[r].op = "flag" /\ SetReview(r, s, "PENDING", new)
      /\ UNCHANGED <<policyRows, riskRows, evidence, job, requests, crashes>>
  BY DEF FlagReview
<1>2. req[r] \in Handlers /\ Known(req[r])
  BY ListedRows DEF EvidenceInv, SnapshotHolds
<1>3. s \in Sessions /\ req[r].user \in Users \cup {None}
  BY <1>1, <1>2 DEF Known, Handlers
<1>4. new \in Handlers
  BY <1>3 DEF NoReq, Handlers, Statements
<1>5. new.op = "record" /\ new.session = s /\ new.job = 0 /\ new.ids = {}
  BY DEF NoReq
<1> HIDE DEF new, s
<1>6. Known(new) /\ ~Scoring(new) /\ Plain(new) /\ new.op # "default"
  BY <1>3, <1>5 DEF Known, Scoring, Plain
<1>7. req[r].job = 0 /\ ~Scoring(req[r])
  BY <1>1, NoList DEF EvidenceInv, Scoring
<1>8. "PENDING" \in ReviewStates
  BY DEF ReviewStates, ActiveReview
<1> QED
  BY <1>1, <1>3, <1>4, <1>6, <1>7, <1>8, Stayed, ReviewSet

LEMMA DecideKeeps ==
  ASSUME EvidenceInv, NEW r \in Requests, NEW u \in Users, NEW s \in Sessions,
         NEW decision \in ActiveReview \cup ReviewOutcomes, Decide(r, u, s, decision)
  PROVE  EvidenceInv'
<1> DEFINE new == [NoReq EXCEPT !.op = "decide", !.user = u, !.session = s, !.data = decision]
<1>1. /\ requests' \in 0..MaxRequests /\ crashes' \in 0..MaxCrashes
      /\ req[r].job = 0 /\ ~Scoring(req[r])
  BY Called DEF Decide
<1>2. SetReview(r, s, "PENDING", new) /\ UNCHANGED <<policyRows, riskRows, evidence, job>>
  BY DEF Decide
<1>3. decision \in ReviewStates /\ "PENDING" \in ReviewStates
  BY DEF ReviewStates, ActiveReview
<1>4. new \in Handlers
  BY <1>3 DEF NoReq, Handlers, Statements
<1>5. new.op = "decide" /\ new.session = s /\ new.data = decision /\ new.job = 0 /\ new.ids = {}
  BY DEF NoReq
<1> HIDE DEF new
<1>6. Known(new) /\ ~Scoring(new) /\ Plain(new) /\ new.op # "default"
  BY <1>3, <1>5 DEF Known, Scoring, Plain
<1> QED
  BY <1>1, <1>2, <1>3, <1>4, <1>6, ReviewSet

LEMMA DecideWriteKeeps ==
  ASSUME EvidenceInv, NEW r \in Requests, DecideWrite(r)
  PROVE  EvidenceInv'
<1>1. /\ req[r].op = "decide" /\ SetReview(r, req[r].session, req[r].data, NoReq)
      /\ UNCHANGED <<policyRows, riskRows, evidence, job, requests, crashes>>
  BY DEF DecideWrite
<1>2. Known(req[r])
  BY DEF EvidenceInv, SnapshotHolds
<1>3. req[r].session \in Sessions /\ req[r].data \in ReviewStates
  BY <1>1, <1>2 DEF Known
<1>4. req[r].job = 0 /\ ~Scoring(req[r])
  BY <1>1, NoList DEF EvidenceInv, Scoring
<1> QED
  BY <1>1, <1>3, <1>4, NoReqIs, Stayed, ReviewSet

-----------------------------------------------------------------------------
(* Risk scores. *)

\* A recalculation goes on, and only risks change.
LEMMA OnlyRisks ==
  ASSUME EvidenceInv, NEW r \in Requests, NEW new \in Handlers, Go(r, new), Known(new),
         new.op # "default", req[r].job = 0, Plain(new),
         UNCHANGED <<policyRows, evidence, review, job, requests, crashes>>,
         RiskTypes', RisksHold'
  PROVE  EvidenceInv'
<1>1. PolicyTypes' /\ RecentHolds' /\ DefaultsHold' /\ SnapshotHolds'
  BY PoliciesKept
<1>2. ListsHold' /\ JobsHold'
  BY ListsKept DEF EvidenceInv
<1>3. req' \in [Requests -> Handlers]
  BY Gone DEF EvidenceInv
<1>4. EvidenceTypes' /\ HandlerTypes'
  BY <1>3 DEF EvidenceInv, EvidenceTypes, HandlerTypes
<1> QED
  BY <1>1, <1>2, <1>4 DEF EvidenceInv

\* The statement after op of a recalculation.
LEMMA NextStatement ==
  ASSUME EvidenceInv, NEW r \in Requests, req[r].op \in {"record", "risk", "score"},
         NEW op \in {"risk", "score"}, NEW sum \in Nat
  PROVE  LET new == [req[r] EXCEPT !.op = op, !.sum = sum] IN
         /\ new \in Handlers /\ Known(new) /\ Plain(new)
         /\ new.op = op /\ new.sum = sum /\ new.session = req[r].session
         /\ req[r].session \in Sessions /\ req[r].job = 0
<1>1. req[r] \in Handlers /\ Known(req[r])
  BY ListedRows DEF EvidenceInv, SnapshotHolds
<1>2. req[r].job = 0 /\ req[r].ids = {}
  BY NoList DEF EvidenceInv
<1>3. req[r].session \in Sessions
  BY <1>1 DEF Known
<1> DEFINE new == [req[r] EXCEPT !.op = op, !.sum = sum]
<1>4. new \in Handlers
  BY <1>1 DEF Handlers, Statements
<1>5. new.op = op /\ new.sum = sum /\ new.session = req[r].session /\ new.job = 0 /\ new.ids = {}
  BY <1>1, <1>2 DEF Handlers
<1> HIDE DEF new
<1>6. Known(new) /\ Plain(new)
  BY <1>3, <1>5 DEF Known, Plain
<1> QED
  BY <1>2, <1>3, <1>4, <1>5, <1>6 DEF new

LEMMA OtherRisks ==
  ASSUME RisksHold, NEW s \in Sessions, s \notin unsettled,
         risk'[s] = risk[s], riskSum'[s] = riskSum[s],
         \A q \in Requests : req'[q] = req[q]
             \/ ((Scoring(req[q]) => req[q].session # s)
                 /\ (Scoring(req'[q]) => req'[q].session # s))
  PROVE  RiskHolds(s)'
<1>1. RiskHolds(s)
  BY DEF RisksHold
<1>2. \A q \in Requests : Writing(q, s)' <=> Writing(q, s)
  BY DEF Writing, Scoring
<1>3. \A q \in Requests : Writing(q, s) => req'[q] = req[q]
  BY DEF Writing, Scoring
<1>4. Rescoring(s)' <=> Rescoring(s)
  BY DEF Rescoring, Scoring
<1>5. Scored(s)' <=> Scored(s)
  BY DEF Scored
<1> QED
  BY <1>1, <1>2, <1>3, <1>4, <1>5 DEF RiskHolds

LEMMA RecordEventKeeps ==
  ASSUME EvidenceInv, NEW r \in Requests, NEW w \in RiskDeltas, RecordEvent(r, w)
  PROVE  EvidenceInv'
<1> DEFINE s == req[r].session
           new == [req[r] EXCEPT !.op = "risk", !.sum = req[r].sum]
<1>1. /\ req[r].op = "record"
      /\ riskSum' = [riskSum EXCEPT ![s] = @ + w]
      /\ UNCHANGED <<policyRows, risk, unsettled, evidence, review, job, requests, crashes>>
  BY DEF RecordEvent
<1>2. req[r] \in Handlers /\ req \in [Requests -> Handlers]
  BY ListedRows DEF EvidenceInv, HandlerTypes
<1>3. req[r].sum \in Nat
  BY <1>2 DEF Handlers
<1>4. /\ new \in Handlers /\ Known(new) /\ Plain(new) /\ new.op = "risk" /\ new.session = s
      /\ s \in Sessions /\ req[r].job = 0
  BY <1>1, <1>3, NextStatement, ZenonT(120)
<1>5. Go(r, new)
  <2>1. [req EXCEPT ![r].op = "risk"] = [req EXCEPT ![r] = new]
    BY <1>2 DEF Handlers
  <2> QED
    BY <2>1 DEF RecordEvent, Step, Go
<1> HIDE DEF s, new
<1>6. req'[r] = new /\ \A q \in Requests \ {r} : req'[q] = req[q]
  BY <1>4, <1>5, Gone DEF EvidenceInv
<1>7. riskSum' \in [Sessions -> Nat] /\ \A t \in Sessions \ {s} : riskSum'[t] = riskSum[t]
  <2>1. w \in Nat /\ riskSum \in [Sessions -> Nat]
    BY DaysAndIds DEF EvidenceInv, RiskTypes
  <2>2. riskSum[s] + w \in Nat
    BY <2>1, <1>4
  <2> QED
    BY <2>1, <2>2, <1>1, <1>4
<1>8. RiskTypes'
  BY <1>1, <1>7 DEF EvidenceInv, RiskTypes
<1>9. RisksHold'
  <2>1. ASSUME NEW t \in Sessions \ unsettled PROVE RiskHolds(t)'
    <3>1. CASE t = s
      <4>1. req'[r].op = "risk" /\ req'[r].session = t
        BY <3>1, <1>4, <1>6
      <4>2. Rescoring(t)'
        BY <4>1 DEF Rescoring
      <4>3. \A q \in Requests : Writing(q, t)' => Writing(q, t)
        BY <1>4, <1>6 DEF Writing
      <4>4. \A p, q \in Requests : Writing(p, t) /\ Writing(q, t) => p = q
        BY DEF EvidenceInv, RisksHold, RiskHolds
      <4> QED
        BY <4>2, <4>3, <4>4 DEF RiskHolds
    <3>2. CASE t # s
      <4>1. \A q \in Requests : req'[q] = req[q]
               \/ ((Scoring(req[q]) => req[q].session # t)
                   /\ (Scoring(req'[q]) => req'[q].session # t))
        BY <3>2, <1>4, <1>6 DEF s
      <4>2. risk'[t] = risk[t] /\ riskSum'[t] = riskSum[t] /\ RisksHold
        BY <3>2, <1>1, <1>7 DEF EvidenceInv
      <4> QED
        BY <4>1, <4>2, <2>1, OtherRisks
    <3> QED
      BY <3>1, <3>2
  <2> QED
    BY <2>1, <1>1 DEF RisksHold
<1> QED
  BY <1>1, <1>4, <1>5, <1>8, <1>9, OnlyRisks

LEMMA RiskReadKeeps ==
  ASSUME EvidenceInv, NEW r \in Requests, RiskRead(r)
  PROVE  EvidenceInv'
<1> DEFINE s == req[r].session
           sum == riskSum[s]
           new == [req[r] EXCEPT !.op = "score", !.sum = sum]
<1>1. /\ req[r].op = "risk"
      /\ req' = [req EXCEPT ![r].op = "score", ![r].sum = sum]
      /\ unsettled' = IF \E q \in Requests \ {r} : req[q].op = "score" /\ req[q].session = s
                      THEN unsettled \cup {s} ELSE unsettled
      /\ UNCHANGED <<policyRows, riskSum, risk, evidence, review, job, requests, crashes>>
  BY DEF RiskRead
<1>2. req[r] \in Handlers /\ req \in [Requests -> Handlers] /\ Known(req[r])
  BY ListedRows DEF EvidenceInv, HandlerTypes, SnapshotHolds
<1>3. s \in Sessions
  BY <1>1, <1>2 DEF Known
<1>4. sum \in Nat
  BY <1>3 DEF EvidenceInv, RiskTypes
<1> HIDE DEF sum
<1>5. /\ new \in Handlers /\ Known(new) /\ Plain(new) /\ new.op = "score" /\ new.session = s
      /\ new.sum = sum /\ req[r].job = 0
  BY <1>1, <1>4, NextStatement, ZenonT(60)
<1>6. Go(r, new)
  BY <1>1, <1>2 DEF Go
<1> HIDE DEF s, new
<1>7. req'[r] = new /\ \A q \in Requests \ {r} : req'[q] = req[q]
  BY <1>5, <1>6, Gone DEF EvidenceInv
<1>8. RiskTypes'
  BY <1>1, <1>3 DEF EvidenceInv, RiskTypes
<1>9. RisksHold'
  <2>1. ASSUME NEW t \in Sessions \ unsettled' PROVE RiskHolds(t)'
    <3>1. t \in Sessions \ unsettled
      BY <1>1, <2>1
    <3>2. CASE t = s
      <4>1. \A q \in Requests \ {r} : ~(req[q].op = "score" /\ req[q].session = t)
        BY <3>2, <2>1, <1>1
      <4>2. \A q \in Requests : Writing(q, t)' <=> q = r
        BY <3>2, <4>1, <1>5, <1>7 DEF Writing
      <4>3. req'[r].sum = riskSum'[t]
        BY <3>2, <1>1, <1>5, <1>7 DEF sum
      <4> QED
        BY <4>2, <4>3 DEF RiskHolds
    <3>3. CASE t # s
      <4>1. \A q \in Requests : req'[q] = req[q]
               \/ ((Scoring(req[q]) => req[q].session # t)
                   /\ (Scoring(req'[q]) => req'[q].session # t))
        BY <3>3, <1>5, <1>7 DEF s
      <4>2. risk'[t] = risk[t] /\ riskSum'[t] = riskSum[t] /\ RisksHold
        BY <1>1 DEF EvidenceInv
      <4> QED
        BY <4>1, <4>2, <3>1, OtherRisks
    <3> QED
      BY <3>2, <3>3
  <2> QED
    BY <2>1 DEF RisksHold
<1>10. new.op # "default"
  BY <1>5
<1> QED
  BY <1>1, <1>5, <1>6, <1>8, <1>9, <1>10, OnlyRisks

LEMMA RiskWriteKeeps ==
  ASSUME EvidenceInv, NEW r \in Requests, RiskWrite(r)
  PROVE  EvidenceInv'
<1> DEFINE s == req[r].session
           sum == req[r].sum
<1>1. /\ req[r].op = "score" /\ Go(r, NoReq)
      /\ risk' = [risk EXCEPT ![s] = Min({sum, RiskCap})]
      /\ UNCHANGED <<policyRows, riskSum, unsettled, evidence, review, job, requests, crashes>>
  BY DEF RiskWrite, Done, Go
<1>2. req[r] \in Handlers /\ Known(req[r])
  BY ListedRows DEF EvidenceInv, SnapshotHolds
<1>3. s \in Sessions /\ sum \in Nat
  BY <1>1, <1>2 DEF Known, Handlers
<1>4. req[r].job = 0
  BY <1>1, NoList DEF EvidenceInv
<1> HIDE DEF s, sum
<1>5. req'[r] = NoReq /\ \A q \in Requests \ {r} : req'[q] = req[q]
  BY <1>1, NoReqIs, Gone DEF EvidenceInv
<1>6. RiskTypes'
  <2>1. risk \in [Sessions -> 0..RiskCap] /\ RiskCap \in Nat
    BY RecordBounds DEF EvidenceInv, RiskTypes
  <2>2. Min({sum, RiskCap}) \in 0..RiskCap
    BY <2>1, <1>3, MinOfTwo
  <2>3. risk' \in [Sessions -> 0..RiskCap]
    BY <2>1, <2>2, <1>1
  <2> QED
    BY <2>3, <1>1 DEF EvidenceInv, RiskTypes
<1>7. RisksHold'
  <2>1. ASSUME NEW t \in Sessions \ unsettled PROVE RiskHolds(t)'
    <3>1. CASE t = s
      <4>1. RiskHolds(t) /\ Writing(r, t)
        BY <3>1, <1>1 DEF EvidenceInv, RisksHold, Writing, s
      <4>2. \A q \in Requests : ~Writing(q, t)'
        BY <4>1, <1>5, NoReqIs DEF RiskHolds, Writing
      <4>3. CASE sum = riskSum[t]
        <5>1. risk'[t] = Min({riskSum'[t], RiskCap})
          BY <3>1, <4>3, <1>1, <1>3 DEF EvidenceInv, RiskTypes
        <5> QED
          BY <5>1, <4>2 DEF RiskHolds, Scored
      <4>4. CASE Rescoring(t)
        <5>1. PICK q \in Requests : req[q].op = "risk" /\ req[q].session = t
          BY <4>4 DEF Rescoring
        <5>2. req'[q] = req[q]
          BY <5>1, <1>1, <1>5
        <5>3. Rescoring(t)'
          BY <5>1, <5>2 DEF Rescoring
        <5> QED
          BY <5>3, <4>2 DEF RiskHolds
      <4> QED
        BY <4>1, <4>3, <4>4 DEF RiskHolds, sum
    <3>2. CASE t # s
      <4>1. \A q \in Requests : req'[q] = req[q]
               \/ ((Scoring(req[q]) => req[q].session # t)
                   /\ (Scoring(req'[q]) => req'[q].session # t))
        BY <3>2, <1>5, NoReqIs DEF s
      <4>2. risk'[t] = risk[t] /\ riskSum'[t] = riskSum[t] /\ RisksHold
        BY <3>2, <1>1, <1>3 DEF EvidenceInv, RiskTypes
      <4> QED
        BY <4>1, <4>2, <2>1, OtherRisks
    <3> QED
      BY <3>1, <3>2
  <2> QED
    BY <2>1, <1>1 DEF RisksHold
<1>8. NoReq.op # "default" /\ NoReq \in Handlers /\ Known(NoReq) /\ Plain(NoReq)
  BY NoReqIs
<1> QED
  BY <1>1, <1>4, <1>6, <1>7, <1>8, OnlyRisks

-----------------------------------------------------------------------------
(* Restarts, and the whole. *)

LEMMA EvidenceCrashKeeps ==
  ASSUME EvidenceInv, EvidenceCrash
  PROVE  EvidenceInv'
<1> USE DEF EvidenceInv
<1>1. /\ UNCHANGED <<policyRows, riskSum, risk, evidence, review, requests>>
      /\ UNCHANGED <<policy, recent, snapshot, doubled>>
      /\ crashes < MaxCrashes /\ crashes' = crashes + 1
  BY DEF EvidenceCrash, policyRows
<1>2. req' = [r \in Requests |-> NoReq] /\ \A r \in Requests : req'[r] = NoReq
  BY DEF EvidenceCrash
<1>3. job' = [j \in Jobs |-> IF job[j].status = "PROCESSING"
                THEN [job[j] EXCEPT !.orphan = TRUE] ELSE job[j]]
  BY DEF EvidenceCrash
<1>4. unsettled' = unsettled \cup {req[r].session :
           r \in {q \in Requests : req[q].op \in {"risk", "score"}}}
  BY DEF EvidenceCrash
<1>5. ASSUME NEW j \in Jobs
      PROVE  /\ job'[j] \in JobRow /\ job'[j].status = job[j].status
             /\ job'[j].count = job[j].count /\ job'[j].removed = job[j].removed
             /\ job'[j].raced = job[j].raced
             /\ job[j].status = "PROCESSING" => job'[j].orphan
             /\ job[j].status # "PROCESSING" => job'[j] = job[j]
  <2>1. job[j] \in JobRow
    BY DEF EvidenceTypes
  <2>2. CASE job[j].status = "PROCESSING"
    <3>1. job'[j] = [job[j] EXCEPT !.orphan = TRUE]
      BY <1>3, <2>2
    <3> QED
      BY <2>1, <2>2, <3>1 DEF JobRow
  <2>3. CASE job[j].status # "PROCESSING"
    <3>1. job'[j] = job[j]
      BY <1>3, <2>3
    <3> QED
      BY <2>1, <2>3, <3>1
  <2> QED
    BY <2>2, <2>3
<1>6. JobsHold'
  <2>1. JobTruthful'
    BY <1>5 DEF JobsHold, JobTruthful
  <2>2. \A j \in Jobs : job'[j].status = "NONE" => job'[j] = NoJob
    BY <1>5 DEF JobsHold
  <2> QED
    BY <2>1, <2>2 DEF JobsHold
<1>7. ListsHold'
  BY <1>2, NoReqIs DEF ListsHold, ListHolds, Plain
<1>8. SnapshotHolds'
  <2>1. \A r \in Requests : Known(req[r])'
    BY <1>1, <1>2, NoReqIs DEF Known
  <2> QED
    BY <2>1, <1>1 DEF SnapshotHolds, RowKnown
<1>9. DefaultsHold'
  BY <1>1, <1>2, NoReqIs, DefaultsKept
<1>10. RisksHold'
  <2>1. ASSUME NEW s \in Sessions \ unsettled' PROVE RiskHolds(s)'
    <3>1. RiskHolds(s)
      BY <2>1, <1>4 DEF RisksHold
    <3>2. \A r \in Requests : req[r].op \in {"risk", "score"} => req[r].session # s
      BY <2>1, <1>4
    <3>3. Scored(s)
      BY <3>1, <3>2 DEF RiskHolds, Rescoring, Writing
    <3>4. Scored(s)'
      BY <3>3, <1>1 DEF Scored
    <3>5. \A r \in Requests : ~Writing(r, s)'
      BY <1>2, NoReqIs DEF Writing
    <3> QED
      BY <3>4, <3>5 DEF RiskHolds
  <2> QED
    BY <2>1 DEF RisksHold
<1>11. RiskTypes'
  <2>1. \A r \in Requests : req[r].op \in {"risk", "score"} => req[r].session \in Sessions
    BY DEF SnapshotHolds, Known
  <2>2. unsettled' \subseteq Sessions
    BY <2>1, <1>4 DEF RiskTypes
  <2> QED
    BY <2>2, <1>1 DEF RiskTypes
<1>12. HandlerTypes'
  <2>1. req' \in [Requests -> Handlers]
    BY <1>2, NoReqIs
  <2>2. crashes' \in 0..MaxCrashes
    BY <1>1, RecordBounds DEF HandlerTypes
  <2> QED
    BY <2>1, <2>2, <1>1 DEF HandlerTypes
<1>13. EvidenceTypes'
  <2>1. job' \in [Jobs -> JobRow]
    BY <1>3, <1>5
  <2> QED
    BY <2>1, <1>1 DEF EvidenceTypes
<1>14. PolicyTypes' /\ RecentHolds'
  BY <1>1 DEF PolicyTypes, RecentHolds
<1> QED
  BY <1>6, <1>7, <1>8, <1>9, <1>10, <1>11, <1>12, <1>13, <1>14

LEMMA EvidenceStarts == EvidenceInit => EvidenceInv
<1> SUFFICES ASSUME EvidenceInit PROVE EvidenceInv
  OBVIOUS
<1>1. PolicyTypes
  <2>1. NoPolicy \in PolicyRow
    BY DEF NoPolicy, PolicyRow
  <2>2. recent \in Seq(Policies)
    BY EmptySeq DEF EvidenceInit
  <2> QED
    BY <2>1, <2>2 DEF EvidenceInit, PolicyTypes
<1>2. EvidenceTypes
  <2>1. NoEvidence \in EvidenceRow /\ NoJob \in JobRow
    BY DEF NoEvidence, EvidenceRow, NoJob, JobRow
  <2> QED
    BY <2>1 DEF EvidenceInit, EvidenceTypes
<1>3. RiskTypes
  BY RecordBounds DEF EvidenceInit, RiskTypes
<1>4. HandlerTypes
  BY NoReqIs, RecordBounds DEF EvidenceInit, HandlerTypes
<1>5. RecentHolds
  <2>1. \A p \in Policies : policy[p] = NoPolicy /\ policy[p].days = 0
    BY DEF EvidenceInit, NoPolicy
  <2>2. DOMAIN recent = {}
    BY DEF EvidenceInit
  <2> QED
    BY <2>1, <2>2 DEF RecentHolds
<1>6. \A r \in Requests : req[r] = NoReq
  BY DEF EvidenceInit
<1>7. DefaultsHold
  <2>1. \A p \in Policies, c \in Colleges : ~DefaultOf(p, c)
    BY DEF EvidenceInit, NoPolicy, DefaultOf
  <2> QED
    BY <2>1 DEF DefaultsHold
<1>8. SnapshotHolds
  BY <1>6, NoReqIs DEF EvidenceInit, SnapshotHolds, RowKnown
<1>9. ListsHold
  BY <1>6, NoReqIs DEF ListsHold, ListHolds, Plain
<1>10. JobsHold
  BY DEF EvidenceInit, NoJob, JobsHold, JobTruthful
<1>11. RisksHold
  <2>1. Min({0, RiskCap}) = 0
    BY RecordBounds, MinOfTwo
  <2>2. \A s \in Sessions : Scored(s)
    BY <2>1 DEF EvidenceInit, Scored
  <2>3. \A s \in Sessions, r \in Requests : ~Writing(r, s)
    BY <1>6, NoReqIs DEF Writing
  <2> QED
    BY <2>2, <2>3 DEF RisksHold, RiskHolds
<1> QED
  BY <1>1, <1>2, <1>3, <1>4, <1>5, <1>7, <1>8, <1>9, <1>10, <1>11 DEF EvidenceInv

LEMMA EvidenceSteps == EvidenceInv /\ [EvidenceNext]_evidenceVars => EvidenceInv'
<1> SUFFICES ASSUME EvidenceInv, [EvidenceNext]_evidenceVars PROVE EvidenceInv'
  OBVIOUS
<1>1. CASE PolicyNext
  <2>1. PICK r \in Requests :
           \/ \E u \in Users, s \in Sessions : StartSession(r, u, s) \/ UploadEvidence(r, u, s)
           \/ CreateDefault(r) \/ UpsertSession(r)
           \/ \E valid \in BOOLEAN : StoreEvidence(r, valid)
           \/ \E u \in Users, a \in Assessments \cup {0}, d \in Days : CreatePolicy(r, u, a, d)
           \/ \E u \in Users, p \in Policies : \E a \in {policy[p].assessment} \cup Assessments :
                  \E d \in Days : UpdatePolicy(r, u, p, a, d)
           \/ \E u \in Users, p \in Policies, b \in BOOLEAN : SetPolicyActive(r, u, p, b)
    BY <1>1 DEF PolicyNext
  <2> QED
    BY <2>1, StartSessionKeeps, UploadEvidenceKeeps, CreateDefaultKeeps, UpsertSessionKeeps,
       StoreEvidenceKeeps, CreatePolicyKeeps, UpdatePolicyKeeps, SetPolicyActiveKeeps
<1>2. CASE RetentionNext
  BY <1>2, SetHoldKeeps, ExpireKeeps, RetentionKeeps, DeleteEvidenceKeeps, DeleteRowKeeps,
     RetentionSelectKeeps, RetentionReviewsKeeps, RetentionRemoveKeeps, RetentionDoneKeeps
     DEF RetentionNext
<1>3. CASE ReviewNext
  <2>1. PICK r \in Requests :
           \/ \E u \in Users, s \in Sessions :
              \/ Flag(r, u, s)
              \/ \E d \in ActiveReview \cup ReviewOutcomes : Decide(r, u, s, d)
              \/ \E b \in BOOLEAN : Report(r, u, s, b)
           \/ FlagReview(r) \/ DecideWrite(r)
           \/ \E w \in RiskDeltas : RecordEvent(r, w)
           \/ RiskRead(r) \/ RiskWrite(r)
    BY <1>3 DEF ReviewNext
  <2> QED
    BY <2>1, FlagKeeps, DecideKeeps, ReportKeeps, FlagReviewKeeps, DecideWriteKeeps,
       RecordEventKeeps, RiskReadKeeps, RiskWriteKeeps
<1>4. CASE EvidenceCrash
  BY <1>4, EvidenceCrashKeeps
<1>5. CASE UNCHANGED evidenceVars
  <2>1. UNCHANGED <<policyRows, riskRows, evidence, review, job, req, requests, crashes>>
        /\ UNCHANGED <<policy, recent, snapshot, doubled, riskSum, risk, unsettled>>
    BY <1>5 DEF evidenceVars, policyRows, riskRows
  <2>2. \A q \in Requests : SameWork(req[q], req'[q])
    BY <2>1 DEF SameWork
  <2>3. \A e \in Items : SameRow(e)
    BY <2>1 DEF SameRow
  <2>4. EvidenceTypes' /\ HandlerTypes'
    BY <2>1 DEF EvidenceInv, EvidenceTypes, HandlerTypes
  <2>5. ListsHold' /\ JobsHold'
    BY <2>1 DEF EvidenceInv, ListsHold, ListHolds, JobsHold, JobTruthful
  <2> QED
    BY <2>1, <2>2, <2>3, <2>4, <2>5, OnlyLists
<1> QED
  BY <1>1, <1>2, <1>3, <1>4, <1>5 DEF EvidenceNext

(* The invariant of policies, evidence, retention jobs, reviews and risk    *)
(* scores holds whatever statements of requests interleave and wherever the *)
(* process restarts.                                                        *)
THEOREM EvidenceKeepsInvariant == EvidenceSpec => []EvidenceInv
  BY EvidenceStarts, EvidenceSteps, PTL DEF EvidenceSpec

(* Evidence is kept as its session's snapshot, a hold and an active review   *)
(* say, a college gets one default policy, retention jobs report what they  *)
(* removed and risk scores settle, for every number of requests, policies,   *)
(* rows and restarts.                                                       *)
THEOREM EvidenceKept == EvidenceSpec => []RecordsKept
  BY EvidenceKeepsInvariant, EvidenceIsKept, PTL

-----------------------------------------------------------------------------
(* Grading. *)

ResultRows == [objective : Int, descriptive : Int, total : Int, percent : Int,
    pass : {"PASS", "FAIL", "PENDING"}, correct : Int, incorrect : Int, unanswered : Int,
    attempted : Int, ready : BOOLEAN, sections : Int]
GradingTyped ==
    /\ paper \in [Places -> QuestionPool] /\ sheet \in [Places -> AnswerPool \cup {Unset}]
    /\ task \in [Places -> ReviewMarks \cup {Unset, NoTask}]
    /\ graded \in {"none", "student", "operations", "worker", "review"}
    /\ result \in ResultRows /\ stored \in Int
    /\ graded = "none" => result = NoResultRow

(* Only questions that are graded by hand have a task, and it awards at most *)
(* their marks; before the submission there is none, after it each has one.  *)
TaskOf(t) ==
    /\ t \in [Places -> ReviewMarks \cup {Unset, NoTask}]
    /\ \A i \in Places : t[i] # NoTask => paper[i].type = "manual"
    /\ \A i \in Places : t[i] \in Nat => t[i] <= paper[i].marks
TasksHold ==
    /\ TaskOf(task)
    /\ graded = "none" => \A i \in Places : task[i] = NoTask
    /\ graded # "none" => \A i \in Places : paper[i].type = "manual" => task[i] # NoTask

(* A row of counters that add up, and those of a sheet that the three graders *)
(* read alike.                                                               *)
CountersHold(r) ==
    /\ -SumOver(Objective, Negatives) <= r.objective
    /\ r.objective <= SumOver(Objective, FullMarks)
    /\ r.attempted + r.unanswered = PaperLength /\ r.correct + r.incorrect <= r.attempted
SameCounters(r) == LET c == Counted(ByWorker) IN ~CaseMatters =>
    /\ r.objective = c.objective /\ r.attempted = c.attempted /\ r.unanswered = c.unanswered
    /\ r.correct = c.correct /\ r.incorrect = c.incorrect

(* The total of a result comes from its objective marks and the awarded ones. *)
TotalHolds(r, t) ==
    /\ r.descriptive = Awarded(t) /\ r.ready = NonePending(t)
    /\ r.total <= r.objective + Awarded(t) /\ -SumOver(Objective, Negatives) <= r.total
    /\ r.objective + Awarded(t) <= TotalMarks => r.total = r.objective + Awarded(t)
    /\ r.percent = Percentage(r.total) /\ r.pass = PassStatus(r.total)

ResultHolds == graded # "none" =>
    /\ stored = result.objective
    /\ CountersHold(result) /\ SameCounters(result) /\ TotalHolds(result, task)
    /\ graded = "student" => result.sections = result.objective

GradingInv == GradingTyped /\ TasksHold /\ ResultHolds


LEMMA SumOverIs == \A S, f : SumOver(S, f) = Sum(f, S)
  BY DEF SumOver, Sum

\* The questions of a paper and the places of a sheet.
LEMMA PaperIs ==
  ASSUME GradingTyped
  PROVE  /\ IsFiniteSet(Places) /\ PaperLength \in Nat \ {0} /\ Cardinality(Places) = PaperLength
         /\ Objective \in SUBSET Places
         /\ IsFiniteSet(Objective)
         /\ \A i \in Places : /\ paper[i] \in QuestionPool /\ sheet[i] \in AnswerPool \cup {Unset}
                              /\ paper[i].marks \in Nat /\ paper[i].negative \in Nat
         /\ \A i \in Places : FullMarks[i] = paper[i].marks /\ Negatives[i] = paper[i].negative
<1>1. PaperLength \in Nat \ {0}
  BY GradingAssumption
<1>2. IsFiniteSet(Places) /\ Cardinality(Places) = PaperLength
  BY <1>1, FS_Interval DEF Places
<1>3. Objective \in SUBSET Places
  BY DEF Objective
<1>4. IsFiniteSet(Objective)
  BY <1>2, <1>3, FS_Subset
<1>5. \A i \in Places : paper[i] \in QuestionPool /\ sheet[i] \in AnswerPool \cup {Unset}
  BY DEF GradingTyped
<1>6. \A i \in Places : paper[i].marks \in Nat /\ paper[i].negative \in Nat
  BY <1>5, GradingAssumption
<1> QED
  BY <1>1, <1>2, <1>3, <1>4, <1>5, <1>6 DEF FullMarks, Negatives

(* What an evaluation of one answer gives: marks within those of the question, *)
(* nothing for what was not answered, but for choices without an answer row.   *)
Fair(q, a, e) ==
    /\ e.marks \in Int /\ -q.negative <= e.marks /\ e.marks <= q.marks
    /\ e.correct = TRUE => IsAnswered(a)
    /\ ~IsAnswered(a) => \/ e.marks = 0
                         \/ a = Unset /\ q.type \in {"choice", "multiple"} /\ e.marks = -q.negative

LEMMA MatchAnswers ==
  ASSUME NEW q \in QuestionPool, q.type # "manual", NEW a \in AnswerPool \cup {Unset},
         NEW c \in BOOLEAN, Matches(q, a, c), EvaluatedAsAnswered(q, a, c)
  PROVE  IsAnswered(a)
<1>1. q.type \in {"choice", "multiple", "blank", "number"}
  BY GradingAssumption
<1>2. CASE q.type = "choice"
  <2>1. Len(Selected(a)) = 1
    BY <1>2 DEF Matches
  <2>2. a = Unset => Selected(a) = <<>>
    BY DEF Selected
  <2>3. Len(<<>>) = 0
    OBVIOUS
  <2>4. a # Unset /\ Selected(a) # <<>>
    BY <2>1, <2>2, <2>3
  <2> QED
    BY <2>4 DEF IsAnswered, Selected
<1>3. CASE q.type = "multiple"
  <2>1. SameKeys(Selected(a), q.correct)
    BY <1>3 DEF Matches
  <2>2. Len(Selected(a)) = Cardinality(q.correct)
    BY <2>1 DEF SameKeys
  <2>3. IsFiniteSet(q.correct) /\ q.correct # {}
    BY <1>3, GradingAssumption
  <2>4. Cardinality(q.correct) # 0
    BY <2>3, FS_EmptySet
  <2>5. Len(<<>>) = 0
    OBVIOUS
  <2>6. Selected(a) # <<>>
    BY <2>2, <2>4, <2>5
  <2> QED
    BY <2>6 DEF IsAnswered, Selected
<1>4. CASE q.type = "blank"
  <2>1. NormalizeBlank(Text(a), c) # ""
    BY <1>4 DEF EvaluatedAsAnswered
  <2>2. Text(a) # ""
    BY <2>1 DEF NormalizeBlank, Trim, Lower
  <2> QED
    BY <2>2 DEF IsAnswered, Text
<1>5. CASE q.type = "number"
  BY <1>5 DEF EvaluatedAsAnswered, IsAnswered
<1> QED
  BY <1>1, <1>2, <1>3, <1>4, <1>5

LEMMA EvaluationIsFair ==
  ASSUME NEW q \in QuestionPool, q.type # "manual", NEW a \in AnswerPool \cup {Unset},
         NEW c \in BOOLEAN
  PROVE  Fair(q, a, Evaluation(q, a, c, Matches(q, a, c)))
<1>1. q.type \in {"choice", "multiple", "blank", "number"} /\ q.marks \in Nat /\ q.negative \in Nat
  BY GradingAssumption
<1>2. ~(Unset = TRUE)
  BY GradingAssumption
<1>3. PICK e : e = Evaluation(q, a, c, Matches(q, a, c))
  OBVIOUS
<1>4. CASE ~EvaluatedAsAnswered(q, a, c)
  <2>1. e.correct = Unset /\ e.marks = 0
    BY <1>3, <1>4 DEF Evaluation
  <2>2. Fair(q, a, e)
    BY <1>1, <1>2, <2>1 DEF Fair
  <2> QED
    BY <1>3, <2>2
<1>5. CASE EvaluatedAsAnswered(q, a, c) /\ Matches(q, a, c)
  <2>1. e.marks = q.marks
    BY <1>3, <1>5 DEF Evaluation
  <2>2. IsAnswered(a)
    BY <1>5, MatchAnswers
  <2>3. Fair(q, a, e)
    BY <1>1, <2>1, <2>2 DEF Fair
  <2> QED
    BY <1>3, <2>3
<1>6. CASE EvaluatedAsAnswered(q, a, c) /\ ~Matches(q, a, c)
  <2>1. e.correct = FALSE /\ e.marks = -q.negative
    BY <1>3, <1>6 DEF Evaluation
  <2>2. ~IsAnswered(a) => a = Unset /\ q.type \in {"choice", "multiple"}
    <3>1. ASSUME q.type = "blank", ~IsAnswered(a) PROVE FALSE
      <4>1. NormalizeBlank(Text(a), c) # ""
        BY <1>6, <3>1 DEF EvaluatedAsAnswered
      <4>2. Text(a) # ""
        BY <4>1 DEF NormalizeBlank, Trim, Lower
      <4> QED
        BY <3>1, <4>2 DEF IsAnswered, Text
    <3>2. ASSUME q.type = "number", ~IsAnswered(a) PROVE FALSE
      BY <1>6, <3>2 DEF EvaluatedAsAnswered, IsAnswered
    <3>3. ASSUME q.type \in {"choice", "multiple"}, ~IsAnswered(a) PROVE a = Unset
      BY <1>6, <3>3 DEF EvaluatedAsAnswered
    <3> QED
      BY <1>1, <3>1, <3>2, <3>3
  <2>3. Fair(q, a, e)
    BY <1>1, <2>1, <2>2 DEF Fair
  <2> QED
    BY <1>3, <2>3
<1> QED
  BY <1>4, <1>5, <1>6

\* Only a blank is judged differently with and without case.
LEMMA CaseOnlyInBlanks ==
  ASSUME NEW q \in QuestionPool, q.type # "manual", NEW a,
         q.type # "blank" \/ ~q.caseSensitive
  PROVE  EvaluateObjective(q, a) = WorkerEvaluateObjective(q, a)
<1>1. q.type \in {"choice", "multiple", "blank", "number"} /\ q.caseSensitive \in BOOLEAN
  BY GradingAssumption
<1>2. CASE q.caseSensitive = FALSE
  BY <1>2 DEF EvaluateObjective, WorkerEvaluateObjective
<1>3. CASE q.type # "blank"
  <2>1. Matches(q, a, q.caseSensitive) <=> Matches(q, a, FALSE)
    BY <1>1, <1>3 DEF Matches
  <2>2. EvaluatedAsAnswered(q, a, q.caseSensitive) <=> EvaluatedAsAnswered(q, a, FALSE)
    BY <1>1, <1>3 DEF EvaluatedAsAnswered
  <2> QED
    BY <2>1, <2>2 DEF EvaluateObjective, WorkerEvaluateObjective, Evaluation
<1> QED
  BY <1>1, <1>2, <1>3

FairSheet(ev) == \A i \in Objective : Fair(paper[i], sheet[i], ev[i])

LEMMA SheetsAreFair ==
  ASSUME GradingTyped
  PROVE  FairSheet(ByStudent) /\ FairSheet(ByOperations) /\ FairSheet(ByWorker)
<1> SUFFICES ASSUME NEW i \in Objective
             PROVE  /\ Fair(paper[i], sheet[i], ByStudent[i])
                    /\ Fair(paper[i], sheet[i], ByOperations[i])
                    /\ Fair(paper[i], sheet[i], ByWorker[i])
  BY DEF FairSheet
<1>1. /\ paper[i] \in QuestionPool /\ sheet[i] \in AnswerPool \cup {Unset}
      /\ paper[i].type # "manual"
  BY PaperIs DEF Objective
<1>2. paper[i].caseSensitive \in BOOLEAN /\ FALSE \in BOOLEAN
  BY <1>1, GradingAssumption
<1>3. Fair(paper[i], sheet[i], EvaluateObjective(paper[i], sheet[i]))
  BY <1>1, <1>2, EvaluationIsFair DEF EvaluateObjective
<1>4. Fair(paper[i], sheet[i], ApiEvaluateObjective(paper[i], sheet[i]))
  BY <1>1, <1>2, EvaluationIsFair DEF ApiEvaluateObjective
<1>5. Fair(paper[i], sheet[i], WorkerEvaluateObjective(paper[i], sheet[i]))
  BY <1>1, <1>2, EvaluationIsFair DEF WorkerEvaluateObjective
<1> QED
  BY <1>3, <1>4, <1>5 DEF ByStudent, ByOperations, ByWorker

LEMMA BoundsAre ==
  ASSUME GradingTyped
  PROVE  /\ SumOver(Objective, Negatives) \in Nat /\ SumOver(Objective, FullMarks) \in Nat
         /\ SumOver(Places, FullMarks) \in Nat
<1>1. /\ IsFiniteSet(Objective) /\ IsFiniteSet(Places)
      /\ \A i \in Objective : Negatives[i] \in Nat /\ FullMarks[i] \in Nat
      /\ \A i \in Places : FullMarks[i] \in Nat
  BY PaperIs
<1> QED
  BY <1>1, SumOverIs, SumNat

\* The counters of any grader add up.
LEMMA CountedIs ==
  ASSUME GradingTyped, NEW ev, FairSheet(ev)
  PROVE  /\ Counted(ev).objective \in Int /\ Counted(ev).correct \in Nat
         /\ Counted(ev).incorrect \in Nat /\ Counted(ev).unanswered \in Int
         /\ Counted(ev).attempted \in Nat /\ CountersHold(Counted(ev))
         /\ Counted(ev).objective = SumOver(Objective, Marks(ev))
<1> DEFINE right == {i \in Objective : ev[i].correct = TRUE}
           wrong == {i \in Objective \cap Answered : ev[i].correct = FALSE}
           total == SumOver(Objective, Marks(ev))
<1>1. /\ IsFiniteSet(Places) /\ PaperLength \in Nat /\ IsFiniteSet(Objective)
      /\ Objective \in SUBSET Places
      /\ \A i \in Objective : Negatives[i] = paper[i].negative /\ FullMarks[i] = paper[i].marks
                              /\ Negatives[i] \in Nat /\ FullMarks[i] \in Nat
  BY PaperIs
<1>2. /\ \A i \in Objective : Marks(ev)[i] = ev[i].marks /\ Marks(ev)[i] \in Int
      /\ \A i \in Objective : -Negatives[i] <= Marks(ev)[i] /\ Marks(ev)[i] <= FullMarks[i]
  BY <1>1 DEF FairSheet, Fair, Marks
<1>3. \A i \in Objective : Marks(ev)[i] \in Int /\ Negatives[i] \in Int /\ FullMarks[i] \in Int
  BY <1>1, <1>2
<1>4. -Sum(Negatives, Objective) <= Sum(Marks(ev), Objective)
      /\ Sum(Marks(ev), Objective) <= Sum(FullMarks, Objective)
  BY <1>1, <1>2, <1>3, SumBetween
<1>5. Sum(Marks(ev), Objective) \in Int
  BY <1>1, <1>3, SumInt
<1>6. /\ total \in Int /\ -SumOver(Objective, Negatives) <= total
      /\ total <= SumOver(Objective, FullMarks)
  BY <1>4, <1>5, SumOverIs
<1>7. IsFiniteSet(Answered) /\ right \in SUBSET Answered /\ wrong \in SUBSET Answered
  <2>1. Answered \in SUBSET Places
    BY DEF Answered
  <2>2. \A i \in right : i \in Answered
    BY <1>1 DEF FairSheet, Fair, Answered
  <2> QED
    BY <1>1, <2>1, <2>2, FS_Subset
<1>8. IsFiniteSet(right) /\ IsFiniteSet(wrong) /\ right \cup wrong \in SUBSET Answered
  BY <1>7, FS_Subset
<1>9. right \cap wrong = {}
  <2>1. ~(TRUE = FALSE)
    OBVIOUS
  <2> QED
    BY <2>1
<1> HIDE DEF right, wrong, total
<1>10. /\ Cardinality(right) \in Nat /\ Cardinality(wrong) \in Nat /\ Cardinality(Answered) \in Nat
       /\ Cardinality(right \cup wrong) = Cardinality(right) + Cardinality(wrong)
  <2>1. Cardinality(right \cup wrong) = Cardinality(right) + Cardinality(wrong)
                                       - Cardinality(right \cap wrong)
    BY <1>8, FS_Union
  <2>2. Cardinality(right \cap wrong) = 0
    BY <1>9, FS_EmptySet
  <2>3. Cardinality(right) \in Nat /\ Cardinality(wrong) \in Nat /\ Cardinality(Answered) \in Nat
    BY <1>7, <1>8, FS_CardinalityType
  <2> QED
    BY <2>1, <2>2, <2>3
<1>11. Cardinality(right \cup wrong) <= Cardinality(Answered)
  BY <1>7, <1>8, FS_Subset
<1>12. PICK c : c = Counted(ev)
  OBVIOUS
<1>13. /\ c.objective = total /\ c.attempted = Cardinality(Answered)
       /\ c.unanswered = PaperLength - Cardinality(Answered)
       /\ c.correct = Cardinality(right) /\ c.incorrect = Cardinality(wrong)
  BY <1>12 DEF Counted, right, wrong, total
<1>14. CountersHold(c)
  BY <1>1, <1>6, <1>10, <1>11, <1>13 DEF CountersHold
<1> QED
  BY <1>1, <1>6, <1>10, <1>12, <1>13, <1>14 DEF total

\* Sheets without case-sensitive blanks are read alike.
LEMMA SheetsAgree ==
  ASSUME GradingTyped, ~CaseMatters
  PROVE  ByStudent = ByWorker /\ ByOperations = ByWorker
<1>1. \A i \in Objective : EvaluateObjective(paper[i], sheet[i])
                           = WorkerEvaluateObjective(paper[i], sheet[i])
  <2> TAKE i \in Objective
  <2>1. paper[i] \in QuestionPool /\ i \in Places /\ paper[i].type # "manual"
    BY PaperIs DEF Objective
  <2>2. paper[i].type # "blank" \/ ~paper[i].caseSensitive
    BY <2>1 DEF CaseMatters
  <2> QED
    BY <2>1, <2>2, CaseOnlyInBlanks
<1>2. \A i \in Objective : ApiEvaluateObjective(paper[i], sheet[i])
                           = WorkerEvaluateObjective(paper[i], sheet[i])
  BY DEF ApiEvaluateObjective, WorkerEvaluateObjective
<1> QED
  BY <1>1, <1>2 DEF ByStudent, ByOperations, ByWorker

\* What the tasks award is within the marks of the questions graded by hand.
LEMMA AwardedIs ==
  ASSUME GradingTyped, NEW t, TaskOf(t)
  PROVE  /\ Awarded(t) \in Nat
         /\ SumOver(Objective, FullMarks) + Awarded(t) <= SumOver(Places, FullMarks)
<1> DEFINE awarded == {i \in Places : t[i] \in Nat}
<1>1. /\ IsFiniteSet(Places) /\ IsFiniteSet(Objective) /\ Objective \in SUBSET Places
      /\ \A i \in Places : FullMarks[i] = paper[i].marks /\ FullMarks[i] \in Nat
  BY PaperIs
<1>2. IsFiniteSet(awarded) /\ awarded \in SUBSET Places
  BY <1>1, FS_Subset
<1>3. Objective \cap awarded = {}
  <2>1. \A i \in awarded : paper[i].type = "manual"
    BY GradingAssumption DEF TaskOf
  <2> QED
    BY <2>1 DEF Objective
<1>4. \A i \in awarded : t[i] \in Nat /\ t[i] <= FullMarks[i] /\ FullMarks[i] \in Nat
  BY <1>1 DEF TaskOf
<1> HIDE DEF awarded
<1>5. Sum(t, awarded) \in Nat
  BY <1>2, <1>4, SumNat
<1>6. Sum(t, awarded) <= Sum(FullMarks, awarded)
  <2>1. /\ \A i \in awarded : t[i] \in Int /\ t[i] \in Int /\ FullMarks[i] \in Int
        /\ \A i \in awarded : -t[i] <= t[i] /\ t[i] <= FullMarks[i]
    BY <1>4
  <2> QED
    BY <1>2, <2>1, SumBetween
<1>7. Sum(FullMarks, Objective \cup awarded) = Sum(FullMarks, Objective) + Sum(FullMarks, awarded)
  <2>1. \A i \in Objective \cup awarded : FullMarks[i] \in Int
    BY <1>1, <1>2
  <2> QED
    BY <1>1, <1>2, <1>3, <2>1, SumUnion
<1>8. Sum(FullMarks, Objective \cup awarded) <= Sum(FullMarks, Places)
  <2>1. Objective \cup awarded \in SUBSET Places /\ \A i \in Places : FullMarks[i] \in Nat
    BY <1>1, <1>2
  <2> QED
    BY <1>1, <2>1, SumFewer
<1>9. /\ Sum(FullMarks, Objective) \in Nat /\ Sum(FullMarks, Places) \in Nat
      /\ Sum(FullMarks, awarded) \in Nat
  <2>1. (\A i \in Objective : FullMarks[i] \in Nat) /\ \A i \in awarded : FullMarks[i] \in Nat
    BY <1>1, <1>2
  <2> QED
    BY <1>1, <1>2, <2>1, SumNat
<1>10. Awarded(t) = Sum(t, awarded)
  BY SumOverIs DEF Awarded, awarded
<1>11. SumOver(Objective, FullMarks) = Sum(FullMarks, Objective)
       /\ SumOver(Places, FullMarks) = Sum(FullMarks, Places)
  BY SumOverIs
<1> QED
  BY <1>5, <1>6, <1>7, <1>8, <1>9, <1>10, <1>11

LEMMA ScoreTypes ==
  ASSUME NEW score \in Int
  PROVE  Percentage(score) \in Int /\ PassStatus(score) \in {"PASS", "FAIL", "PENDING"}
<1>1. TotalMarks \in Nat
  BY GradingAssumption
<1>2. CASE TotalMarks = 0
  BY <1>2 DEF Percentage, PassStatus
<1>3. CASE TotalMarks # 0
  <2>1. 20000 * score + TotalMarks \in Int /\ 2 * TotalMarks \in Int /\ 2 * TotalMarks > 0
    BY <1>1, <1>3
  <2>2. \A a, b \in Int : b > 0 => a \div b \in Int
    OBVIOUS
  <2>3. (20000 * score + TotalMarks) \div (2 * TotalMarks) \in Int
    BY <2>1, <2>2
  <2> QED
    BY <1>3, <2>3 DEF Percentage, PassStatus
<1> QED
  BY <1>2, <1>3

(* Counters that a result row is made of.                                   *)
Counters(c) ==
    /\ c.objective \in Int /\ c.correct \in Int /\ c.incorrect \in Int
    /\ c.unanswered \in Int /\ c.attempted \in Int
    /\ CountersHold(c) /\ SameCounters(c)

(* A total that comes from objective and awarded marks.                      *)
Totalled(total, objective, t) ==
    /\ total \in Int /\ total <= objective + Awarded(t)
    /\ -SumOver(Objective, Negatives) <= total
    /\ objective + Awarded(t) <= TotalMarks => total = objective + Awarded(t)

(* A row made of counters and awarded marks.                                 *)
MadeOf(r, c, t, sections) ==
    /\ r \in ResultRows /\ r # NoResultRow /\ r.objective = c.objective
    /\ r.sections = sections /\ Counters(r) /\ TotalHolds(r, t)

\* The row that counters and a total make.
LEMMA ScoreIs ==
  ASSUME GradingTyped, NEW c, Counters(c), NEW t, TaskOf(t), NEW sections \in Int,
         NEW total, Totalled(total, c.objective, t)
  PROVE  MadeOf(Score(total, Awarded(t), c, t, sections), c, t, sections)
<1>0. PICK r : r = Score(total, Awarded(t), c, t, sections)
  OBVIOUS
<1>1. /\ r.objective = c.objective /\ r.descriptive = Awarded(t) /\ r.total = total
      /\ r.percent = Percentage(total) /\ r.pass = PassStatus(total)
      /\ r.correct = c.correct /\ r.incorrect = c.incorrect /\ r.unanswered = c.unanswered
      /\ r.attempted = c.attempted /\ r.sections = sections
  BY <1>0 DEF Score
<1>2. r.ready = NonePending(t)
  BY <1>0 DEF Score
<1>3. Awarded(t) \in Nat
  BY AwardedIs
<1>4. total \in Int /\ Percentage(total) \in Int
      /\ PassStatus(total) \in {"PASS", "FAIL", "PENDING"}
  BY ScoreTypes DEF Totalled
<1>5. NonePending(t) \in BOOLEAN
  BY DEF NonePending
<1>6. r \in ResultRows
  <2>1. Awarded(t) \in Int /\ c.objective \in Int /\ c.correct \in Int /\ c.incorrect \in Int
        /\ c.unanswered \in Int /\ c.attempted \in Int
    BY <1>3 DEF Counters
  <2> QED
    BY <1>0, <1>4, <1>5, <2>1 DEF Score, ResultRows
<1>7. r.attempted + r.unanswered = PaperLength /\ PaperLength # 0
  BY <1>1, PaperIs DEF Counters, CountersHold
<1>8. r # NoResultRow
  <2>1. NoResultRow.attempted + NoResultRow.unanswered = 0
    BY DEF NoResultRow
  <2> QED
    BY <1>7, <2>1
<1>9. Counters(r)
  BY <1>1 DEF Counters, CountersHold, SameCounters
<1>10. TotalHolds(r, t)
  BY <1>1, <1>2 DEF TotalHolds, Totalled
<1> QED
  BY <1>0, <1>1, <1>6, <1>8, <1>9, <1>10 DEF MadeOf

\* The parts of the invariant that speak of the paper and the sheet alone.
LEMMA SamePaper ==
  ASSUME UNCHANGED <<paper, sheet>>
  PROVE  /\ Objective' = Objective /\ Negatives' = Negatives /\ FullMarks' = FullMarks
         /\ CaseMatters' <=> CaseMatters
         /\ Counted(ByWorker)' = Counted(ByWorker)
<1>1. Objective' = Objective /\ Negatives' = Negatives /\ FullMarks' = FullMarks
      /\ Answered' = Answered
  BY DEF Objective, Negatives, FullMarks, Answered
<1>2. CaseMatters' <=> CaseMatters
  BY DEF CaseMatters
<1>3. ByWorker' = ByWorker
  BY <1>1 DEF ByWorker
<1>4. Marks(ByWorker)' = Marks(ByWorker)
  BY <1>1, <1>3 DEF Marks
<1> QED
  BY <1>1, <1>2, <1>3, <1>4 DEF Counted

\* A calculation that makes its row of such counters and such a total keeps the
\* invariant.
LEMMA Settles ==
  ASSUME GradingTyped, UNCHANGED <<paper, sheet>>,
         NEW c, Counters(c), NEW t, TaskOf(t), t = task',
         \A i \in Places : paper[i].type = "manual" => t[i] # NoTask,
         NEW sections \in Int, NEW total, Totalled(total, c.objective, t),
         NEW r, r = Score(total, Awarded(t), c, t, sections), r = result',
         stored' = r.objective, graded' \in {"student", "operations", "worker", "review"},
         graded' = "student" => sections = c.objective
  PROVE  GradingInv'
<1>1. /\ r \in ResultRows /\ r # NoResultRow /\ r.objective = c.objective /\ r.sections = sections
      /\ Counters(r) /\ TotalHolds(r, t)
  <2>1. MadeOf(Score(total, Awarded(t), c, t, sections), c, t, sections)
    BY ScoreIs
  <2>2. MadeOf(r, c, t, sections)
    BY <2>1
  <2> QED
    BY <2>2 DEF MadeOf
<1>2. /\ Objective' = Objective /\ Negatives' = Negatives /\ FullMarks' = FullMarks
      /\ CaseMatters' <=> CaseMatters
      /\ Counted(ByWorker)' = Counted(ByWorker)
  BY SamePaper
<1>3. GradingTyped'
  BY <1>1 DEF GradingTyped, TaskOf, Counters
<1>4. TasksHold'
  BY DEF TasksHold, TaskOf
<1>5. CountersHold(result)'
  BY <1>1, <1>2 DEF CountersHold, Counters
<1>6. SameCounters(result)'
  BY <1>1, <1>2 DEF SameCounters, Counters
<1>7. TotalHolds(result, task)'
  <2>1. Awarded(task)' = Awarded(t) /\ NonePending(task)' = NonePending(t)
    BY DEF Awarded, NonePending
  <2> QED
    BY <1>1, <1>2, <2>1 DEF TotalHolds
<1>8. stored' = result'.objective /\ (graded' = "student" => result'.sections = result'.objective)
  BY <1>1
<1> QED
  BY <1>3, <1>4, <1>5, <1>6, <1>7, <1>8 DEF GradingInv, ResultHolds

LEMMA CountersAre ==
  ASSUME GradingTyped, NEW ev, FairSheet(ev), ~CaseMatters => ev = ByWorker
  PROVE  Counters(Counted(ev))
<1>1. PICK c : c = Counted(ev)
  OBVIOUS
<1>2. /\ c.objective \in Int /\ c.correct \in Int /\ c.incorrect \in Int
      /\ c.unanswered \in Int /\ c.attempted \in Int /\ CountersHold(c)
  BY <1>1, CountedIs
<1>3. ~CaseMatters => c = Counted(ByWorker)
  BY <1>1
<1>4. SameCounters(c)
  BY <1>3 DEF SameCounters
<1> QED
  BY <1>1, <1>2, <1>4 DEF Counters

\* The objective marks and the awarded ones, at most the marks of the assessment.
LEMMA CappedTotal ==
  ASSUME GradingTyped, NEW c, Counters(c), NEW t, TaskOf(t)
  PROVE  Totalled(Min({TotalMarks, c.objective + Awarded(t)}), c.objective, t)
<1>1. /\ TotalMarks \in Nat /\ c.objective \in Int /\ Awarded(t) \in Nat
      /\ SumOver(Objective, Negatives) \in Nat
      /\ -SumOver(Objective, Negatives) <= c.objective
  BY GradingAssumption, AwardedIs, BoundsAre DEF Counters, CountersHold
<1>2. c.objective + Awarded(t) \in Int /\ TotalMarks \in Int
  BY <1>1
<1>3. PICK m : m = Min({TotalMarks, c.objective + Awarded(t)})
  OBVIOUS
<1>4. m = IF TotalMarks <= c.objective + Awarded(t) THEN TotalMarks ELSE c.objective + Awarded(t)
  BY <1>2, <1>3, MinOfTwo
<1>5. Totalled(m, c.objective, t)
  BY <1>1, <1>2, <1>4 DEF Totalled
<1> QED
  BY <1>3, <1>5

\* The upserts of the tasks.
LEMMA WithTasksIs ==
  ASSUME GradingTyped, TasksHold
  PROVE  /\ TaskOf(WithTasks)
         /\ \A i \in Places : paper[i].type = "manual" => WithTasks[i] # NoTask
         /\ graded = "none" => Awarded(WithTasks) = 0
         /\ graded # "none" => WithTasks = task
<1>1. \A i \in Places : WithTasks[i] = IF paper[i].type = "manual" /\ task[i] = NoTask
                                       THEN Unset ELSE task[i]
  BY DEF WithTasks
<1>2. Unset \notin Nat /\ NoTask \notin Nat /\ NoTask # Unset
  BY GradingAssumption
<1>3. task \in [Places -> ReviewMarks \cup {Unset, NoTask}]
  BY DEF GradingTyped
<1>4. WithTasks \in [Places -> ReviewMarks \cup {Unset, NoTask}]
  BY <1>3 DEF WithTasks
<1>5. TaskOf(WithTasks)
  <2>1. \A i \in Places : WithTasks[i] # NoTask => paper[i].type = "manual"
    BY <1>1 DEF TasksHold, TaskOf
  <2>2. \A i \in Places : WithTasks[i] \in Nat => WithTasks[i] <= paper[i].marks
    BY <1>1, <1>2 DEF TasksHold, TaskOf
  <2> QED
    BY <1>4, <2>1, <2>2 DEF TaskOf
<1>6. \A i \in Places : paper[i].type = "manual" => WithTasks[i] # NoTask
  BY <1>1, <1>2
<1>7. ASSUME graded = "none" PROVE Awarded(WithTasks) = 0
  <2>1. \A i \in Places : WithTasks[i] \notin Nat
    BY <1>1, <1>2, <1>7 DEF TasksHold
  <2>2. {i \in Places : WithTasks[i] \in Nat} = {}
    BY <2>1
  <2> QED
    BY <2>2, SumOverIs, SumEmpty DEF Awarded
<1>8. ASSUME graded # "none" PROVE WithTasks = task
  <2>1. \A i \in Places : WithTasks[i] = task[i]
    BY <1>1, <1>8 DEF TasksHold
  <2> QED
    BY <1>3, <1>4, <2>1
<1> QED
  BY <1>5, <1>6, <1>7, <1>8

LEMMA SubmitSheetKeeps ==
  ASSUME GradingInv, SubmitSheet
  PROVE  GradingInv'
<1>1. GradingTyped /\ TasksHold /\ graded = "none"
  BY DEF GradingInv, SubmitSheet
<1>2. PICK c : c = Counted(ByStudent)
  OBVIOUS
<1>3. FairSheet(ByStudent) /\ (~CaseMatters => ByStudent = ByWorker)
  BY <1>1, SheetsAreFair, SheetsAgree
<1>4. Counters(c) /\ c.objective = SumOver(Objective, Marks(ByStudent)) /\ c.objective \in Int
  BY <1>1, <1>2, <1>3, CountersAre, CountedIs
<1>5. PICK t : t = WithTasks
  OBVIOUS
<1>6. TaskOf(t) /\ Awarded(t) = 0 /\ \A i \in Places : paper[i].type = "manual" => t[i] # NoTask
  BY <1>1, <1>5, WithTasksIs
<1>7. Totalled(c.objective, c.objective, t)
  BY <1>4, <1>6 DEF Totalled, Counters, CountersHold
<1>8. PICK r : r = result'
  OBVIOUS
<1>9. r = Score(c.objective, Awarded(t), c, t, c.objective)
  BY <1>2, <1>4, <1>5, <1>6, <1>8 DEF SubmitSheet, EvaluateAttempt
<1>10. t = task' /\ stored' = r.objective /\ graded' = "student" /\ UNCHANGED <<paper, sheet>>
  BY <1>5, <1>8 DEF SubmitSheet
<1> QED
  BY <1>1, <1>4, <1>6, <1>7, <1>8, <1>9, <1>10, Settles

\* A calculation of the operations or of the worker from a sheet and its tasks.
LEMMA CalculationKeeps ==
  ASSUME GradingInv, UNCHANGED <<paper, sheet>>, NEW ev, FairSheet(ev),
         ~CaseMatters => ev = ByWorker,
         NEW t, TaskOf(t), t = task',
         \A i \in Places : paper[i].type = "manual" => t[i] # NoTask,
         result' = CalculateResult(ev, t), stored' = result'.objective,
         graded' \in {"operations", "worker"}
  PROVE  GradingInv'
<1>1. GradingTyped /\ result.sections \in Int
  BY DEF GradingInv, GradingTyped, ResultRows
<1>2. PICK c : c = Counted(ev)
  OBVIOUS
<1>3. Counters(c)
  BY <1>1, <1>2, CountersAre
<1>4. PICK total : total = Min({TotalMarks, c.objective + Awarded(t)})
  OBVIOUS
<1>5. Totalled(total, c.objective, t)
  BY <1>1, <1>3, <1>4, CappedTotal
<1>6. PICK r : r = result'
  OBVIOUS
<1>7. r = Score(total, Awarded(t), c, t, result.sections)
  BY <1>2, <1>4, <1>6 DEF CalculateResult
<1>8. PICK sections : sections = result.sections
  OBVIOUS
<1>9. /\ sections \in Int /\ r = Score(total, Awarded(t), c, t, sections)
      /\ stored' = r.objective /\ graded' \in {"student", "operations", "worker", "review"}
      /\ graded' # "student"
  BY <1>1, <1>6, <1>7, <1>8
<1> QED
  BY <1>1, <1>3, <1>5, <1>6, <1>9, Settles

LEMMA AutoSubmitSheetKeeps ==
  ASSUME GradingInv, AutoSubmitSheet
  PROVE  GradingInv'
<1>1. GradingTyped /\ TasksHold
  BY DEF GradingInv
<1>2. FairSheet(ByOperations) /\ (~CaseMatters => ByOperations = ByWorker)
  BY <1>1, SheetsAreFair, SheetsAgree
<1>3. PICK t : t = WithTasks
  OBVIOUS
<1>4. TaskOf(t) /\ \A i \in Places : paper[i].type = "manual" => t[i] # NoTask
  BY <1>1, <1>3, WithTasksIs
<1>5. /\ t = task' /\ result' = CalculateResult(ByOperations, t) /\ stored' = result'.objective
      /\ graded' = "operations" /\ UNCHANGED <<paper, sheet>>
  BY <1>3 DEF AutoSubmitSheet
<1> QED
  BY <1>2, <1>4, <1>5, CalculationKeeps

LEMMA WorkerKeeps ==
  ASSUME GradingInv, WorkerCalculates
  PROVE  GradingInv'
<1>1. GradingTyped /\ TasksHold
  BY DEF GradingInv
<1>2. FairSheet(ByWorker)
  BY <1>1, SheetsAreFair
<1>3. PICK t : t = WithTasks
  OBVIOUS
<1>4. TaskOf(t) /\ \A i \in Places : paper[i].type = "manual" => t[i] # NoTask
  BY <1>1, <1>3, WithTasksIs
<1>5. /\ t = task' /\ result' = CalculateResult(ByWorker, t) /\ stored' = result'.objective
      /\ graded' = "worker" /\ UNCHANGED <<paper, sheet>>
  BY <1>3 DEF WorkerCalculates
<1> QED
  BY <1>2, <1>4, <1>5, CalculationKeeps

\* A review puts marks in one task.
LEMMA ReviewedTasks ==
  ASSUME GradingInv, graded # "none", NEW i \in Places, NEW marks \in ReviewMarks,
         task[i] # NoTask, marks <= paper[i].marks, NEW t, t = [task EXCEPT ![i] = marks]
  PROVE  TaskOf(t) /\ \A j \in Places : paper[j].type = "manual" => t[j] # NoTask
<1>1. task \in [Places -> ReviewMarks \cup {Unset, NoTask}]
  BY DEF GradingInv, GradingTyped
<1>2. marks \in Nat /\ marks # NoTask
  BY GradingAssumption
<1>3. t \in [Places -> ReviewMarks \cup {Unset, NoTask}]
  BY <1>1
<1>4. \A j \in Places : t[j] = IF j = i THEN marks ELSE task[j]
  BY <1>1
<1>5. \A j \in Places : t[j] # NoTask => paper[j].type = "manual"
  BY <1>4 DEF GradingInv, TasksHold, TaskOf
<1>6. \A j \in Places : t[j] \in Nat => t[j] <= paper[j].marks
  BY <1>4 DEF GradingInv, TasksHold, TaskOf
<1>7. \A j \in Places : paper[j].type = "manual" => t[j] # NoTask
  BY <1>2, <1>4 DEF GradingInv, TasksHold
<1> QED
  BY <1>3, <1>5, <1>6, <1>7 DEF TaskOf

LEMMA CompleteReviewKeeps ==
  ASSUME GradingInv, NEW i \in Places, NEW marks \in ReviewMarks, CompleteReview(i, marks)
  PROVE  GradingInv'
<1>1. FairSheet(ByOperations) /\ (~CaseMatters => ByOperations = ByWorker)
  BY SheetsAreFair, SheetsAgree DEF GradingInv
<1>2. PICK t : t = [task EXCEPT ![i] = marks]
  OBVIOUS
<1>3. TaskOf(t) /\ \A j \in Places : paper[j].type = "manual" => t[j] # NoTask
  BY <1>2, ReviewedTasks DEF CompleteReview
<1>4. /\ t = task' /\ result' = CalculateResult(ByOperations, t) /\ stored' = result'.objective
      /\ graded' = "operations" /\ UNCHANGED <<paper, sheet>>
  BY <1>2 DEF CompleteReview
<1> QED
  BY <1>1, <1>3, <1>4, CalculationKeeps

LEMMA UpdateReviewKeeps ==
  ASSUME GradingInv, NEW i \in Places, NEW marks \in ReviewMarks, UpdateReview(i, marks)
  PROVE  GradingInv'
<1>1. GradingTyped /\ graded # "none" /\ result \in ResultRows
  BY DEF GradingInv, GradingTyped, UpdateReview
<1>2. PICK t : t = [task EXCEPT ![i] = marks]
  OBVIOUS
<1>3. TaskOf(t) /\ \A j \in Places : paper[j].type = "manual" => t[j] # NoTask
  BY <1>2, ReviewedTasks DEF UpdateReview
<1>4. PICK c \in ResultRows : c = result
  BY <1>1
<1>5. Counters(c) /\ stored = c.objective
  <2>1. CountersHold(c) /\ SameCounters(c) /\ stored = c.objective
    BY <1>1, <1>4 DEF GradingInv, ResultHolds
  <2> QED
    BY <2>1 DEF Counters, ResultRows
<1>6. PICK total : total = c.objective + Awarded(t)
  OBVIOUS
<1>7. Totalled(total, c.objective, t)
  <2>1. Awarded(t) \in Nat
    BY <1>1, <1>3, AwardedIs
  <2>2. c.objective \in Int /\ -SumOver(Objective, Negatives) <= c.objective
    BY <1>5 DEF Counters, CountersHold
  <2>3. SumOver(Objective, Negatives) \in Nat
    BY <1>1, BoundsAre
  <2> QED
    BY <1>6, <2>1, <2>2, <2>3 DEF Totalled
<1>8. PICK r : r = result'
  OBVIOUS
<1>9. r = Score(total, Awarded(t), c, t, c.sections)
  <2>1. r = [c EXCEPT !.descriptive = Awarded(t), !.total = total,
        !.percent = Percentage(total), !.pass = PassStatus(total), !.ready = NonePending(t)]
    BY <1>2, <1>4, <1>5, <1>6, <1>8 DEF UpdateReview, RecalculateResult
  <2> QED
    BY <1>4, <2>1 DEF Score, ResultRows
<1>10. PICK sections \in Int : sections = c.sections
  BY <1>4 DEF ResultRows
<1>11. /\ t = task' /\ stored' = r.objective /\ graded' = "review" /\ UNCHANGED <<paper, sheet>>
  <2>1. r.objective = c.objective
    BY <1>9 DEF Score
  <2> QED
    BY <1>2, <1>5, <2>1 DEF UpdateReview
<1>12. r = Score(total, Awarded(t), c, t, sections)
  BY <1>9, <1>10
<1> QED
  BY <1>1, <1>3, <1>5, <1>7, <1>8, <1>11, <1>12, Settles

\* What no step after the submission touches.
LEMMA AfterSubmission ==
  ASSUME GradingInv, graded # "none", GradingNext
  PROVE  UNCHANGED <<paper, sheet>> /\ graded' # "none" /\ result'.sections = result.sections
<1>1. result \in ResultRows
  BY DEF GradingInv, GradingTyped
<1>2. CASE WorkerCalculates
  <2>1. result'.sections = CalculateResult(ByWorker, WithTasks).sections
    BY <1>2 DEF WorkerCalculates
  <2> QED
    BY <1>2, <2>1 DEF WorkerCalculates, CalculateResult, Score
<1>3. ASSUME NEW i \in Places, NEW marks \in ReviewMarks, CompleteReview(i, marks)
      PROVE  UNCHANGED <<paper, sheet>> /\ graded' # "none" /\ result'.sections = result.sections
  <2>1. PICK t : t = task'
    OBVIOUS
  <2>2. result'.sections = CalculateResult(ByOperations, t).sections
    BY <1>3, <2>1 DEF CompleteReview
  <2> QED
    BY <1>3, <2>2 DEF CompleteReview, CalculateResult, Score
<1>4. ASSUME NEW i \in Places, NEW marks \in ReviewMarks, UpdateReview(i, marks)
      PROVE  UNCHANGED <<paper, sheet>> /\ graded' # "none" /\ result'.sections = result.sections
  <2>1. PICK t : t = task'
    OBVIOUS
  <2>2. result'.sections = RecalculateResult(t).sections
    BY <1>4, <2>1 DEF UpdateReview
  <2> QED
    BY <1>1, <1>4, <2>2 DEF UpdateReview, RecalculateResult, ResultRows
<1> QED
  BY <1>2, <1>3, <1>4 DEF GradingNext, SubmitSheet, AutoSubmitSheet

LEMMA GradingStarts == GradingInit => GradingInv
<1> SUFFICES ASSUME GradingInit PROVE GradingInv
  OBVIOUS
<1>1. result \in ResultRows /\ stored \in Int
  BY DEF GradingInit, NoResultRow, ResultRows
<1>2. task \in [Places -> ReviewMarks \cup {Unset, NoTask}] /\ \A i \in Places : task[i] = NoTask
  BY DEF GradingInit
<1>3. GradingTyped
  BY <1>1, <1>2 DEF GradingInit, GradingTyped
<1>4. NoTask \notin Nat
  BY GradingAssumption
<1>5. TasksHold
  BY <1>2, <1>4 DEF GradingInit, TasksHold, TaskOf
<1> QED
  BY <1>3, <1>5 DEF GradingInit, GradingInv, ResultHolds

LEMMA GradingSteps == GradingInv /\ [GradingNext]_gradingVars => GradingInv'
<1> SUFFICES ASSUME GradingInv, [GradingNext]_gradingVars PROVE GradingInv'
  OBVIOUS
<1>1. CASE SubmitSheet
  BY <1>1, SubmitSheetKeeps
<1>2. CASE AutoSubmitSheet
  BY <1>2, AutoSubmitSheetKeeps
<1>3. CASE WorkerCalculates
  BY <1>3, WorkerKeeps
<1>4. ASSUME NEW i \in Places, NEW marks \in ReviewMarks,
             CompleteReview(i, marks) \/ UpdateReview(i, marks)
      PROVE  GradingInv'
  BY <1>4, CompleteReviewKeeps, UpdateReviewKeeps
<1>5. CASE UNCHANGED gradingVars
  <2>1. UNCHANGED <<paper, sheet, task, result, graded, stored>>
    BY <1>5 DEF gradingVars
  <2>2. /\ Objective' = Objective /\ Negatives' = Negatives /\ FullMarks' = FullMarks
        /\ CaseMatters' <=> CaseMatters
        /\ Counted(ByWorker)' = Counted(ByWorker)
    BY <2>1, SamePaper
  <2>3. GradingTyped' /\ TasksHold'
    BY <2>1 DEF GradingInv, GradingTyped, TasksHold, TaskOf
  <2>4. Awarded(task)' = Awarded(task) /\ NonePending(task)' = NonePending(task)
    BY <2>1 DEF Awarded, NonePending
  <2>5. graded # "none" => CountersHold(result)'
    BY <2>1, <2>2 DEF GradingInv, ResultHolds, CountersHold
  <2>6. graded # "none" => SameCounters(result)'
    BY <2>1, <2>2 DEF GradingInv, ResultHolds, SameCounters
  <2>7. graded # "none" => TotalHolds(result, task)'
    BY <2>1, <2>2, <2>4 DEF GradingInv, ResultHolds, TotalHolds
  <2> QED
    BY <2>1, <2>3, <2>5, <2>6, <2>7 DEF GradingInv, ResultHolds
<1> QED
  BY <1>1, <1>2, <1>3, <1>4, <1>5 DEF GradingNext

\* The grading invariant: whatever the three graders and the reviews write, the
\* counters of the result are those of the sheet and its total comes from them
\* and from the marks of the tasks.
THEOREM GradingKeepsInvariant == GradingSpec => []GradingInv
  BY GradingStarts, GradingSteps, PTL DEF GradingSpec

LEMMA RowOnceGraded ==
  ASSUME GradingInv
  PROVE  GradingTypeOK
<1>1. graded # "none" => result # NoResultRow
  <2> SUFFICES ASSUME graded # "none", result = NoResultRow PROVE FALSE
    OBVIOUS
  <2>1. result.attempted + result.unanswered = PaperLength
    BY DEF GradingInv, ResultHolds, CountersHold
  <2>2. result.attempted + result.unanswered = 0
    BY DEF NoResultRow
  <2> QED
    BY <2>1, <2>2, GradingAssumption
<1> QED
  BY <1>1 DEF GradingInv, GradingTyped, GradingTypeOK, ResultRows

LEMMA GradersDoAgree ==
  ASSUME GradingInv
  PROVE  GradersAgree /\ UnansweredFree
<1>1. GradingTyped
  BY DEF GradingInv
<1>2. ASSUME NEW i \in Objective
      PROVE  /\ paper[i] \in QuestionPool /\ paper[i].type # "manual"
             /\ sheet[i] \in AnswerPool \cup {Unset}
  BY <1>1, PaperIs DEF Objective
<1>3. GradersAgree
  BY <1>2, CaseOnlyInBlanks DEF GradersAgree, ApiEvaluateObjective, WorkerEvaluateObjective
<1>4. UnansweredFree
  <2> SUFFICES ASSUME NEW i \in Objective, ~IsAnswered(sheet[i])
               PROVE  \A m \in {EvaluateObjective(paper[i], sheet[i]).marks,
                                WorkerEvaluateObjective(paper[i], sheet[i]).marks} :
                        m = 0 \/ (sheet[i] = Unset /\ paper[i].type \in {"choice", "multiple"}
                                  /\ m = -paper[i].negative)
    BY DEF UnansweredFree
  <2>1. Fair(paper[i], sheet[i], ByStudent[i]) /\ Fair(paper[i], sheet[i], ByWorker[i])
    BY <1>1, SheetsAreFair DEF FairSheet
  <2>2. /\ ByStudent[i] = EvaluateObjective(paper[i], sheet[i])
        /\ ByWorker[i] = WorkerEvaluateObjective(paper[i], sheet[i])
    BY DEF ByStudent, ByWorker
  <2> QED
    BY <2>1, <2>2 DEF Fair
<1> QED
  BY <1>3, <1>4

LEMMA ResultDoesAddUp ==
  ASSUME GradingInv
  PROVE  ResultAddsUp
<1> SUFFICES ASSUME graded # "none" PROVE ResultAddsUp
  BY DEF ResultAddsUp
<1>1. GradingTyped /\ TaskOf(task) /\ CountersHold(result) /\ TotalHolds(result, task)
      /\ (graded = "student" => result.sections = result.objective)
  BY DEF GradingInv, TasksHold, ResultHolds
<1>2. /\ Awarded(task) \in Nat
      /\ SumOver(Objective, FullMarks) + Awarded(task) <= SumOver(Places, FullMarks)
  BY <1>1, AwardedIs
<1>3. /\ SumOver(Objective, Negatives) \in Nat /\ SumOver(Objective, FullMarks) \in Nat
      /\ SumOver(Places, FullMarks) \in Nat
  BY <1>1, BoundsAre
<1>4. result.total \in Int /\ result.objective \in Int
  BY <1>1 DEF GradingTyped, ResultRows
<1>5. result.total <= result.objective + Awarded(task)
      /\ -SumOver(Objective, Negatives) <= result.total
      /\ result.objective <= SumOver(Objective, FullMarks)
  BY <1>1 DEF TotalHolds, CountersHold
<1>6. result.total <= SumOver(Places, FullMarks) /\ result.total >= -SumOver(Objective, Negatives)
  BY <1>2, <1>3, <1>4, <1>5
<1> QED
  BY <1>1, <1>6 DEF ResultAddsUp, CountersHold

LEMMA GradesAgreeNow == GradingInv => GradesAgree
  BY RowOnceGraded, GradersDoAgree, ResultDoesAddUp DEF GradesAgree

\* evaluateAttempt, calculateResult and calculateResultTx judge one sheet alike
\* but for case-sensitive blanks, take nothing for what was left unanswered but
\* for choices without an answer row, and write results that add up.
THEOREM GradesDoAgree == GradingSpec => []GradesAgree
  BY GradingKeepsInvariant, GradesAgreeNow, PTL

LEMMA RecalculationChangesNothing ==
  ASSUME GradingInv, GradingInv', GradingNext, graded # "none", task' = task, ~CaseMatters,
         result.objective + Awarded(task) <= TotalMarks
  PROVE  result' = result
<1>1. UNCHANGED <<paper, sheet>> /\ graded' # "none" /\ result'.sections = result.sections
  BY AfterSubmission
<1>2. PICK r : r = result'
  OBVIOUS
<1>3. result \in ResultRows /\ r \in ResultRows
  BY <1>2 DEF GradingInv, GradingTyped
<1>4. SameCounters(result) /\ TotalHolds(result, task)
  BY DEF GradingInv, ResultHolds
<1>5. SameCounters(result)' /\ TotalHolds(result, task)'
  BY <1>1 DEF GradingInv, ResultHolds
<1>6. PICK c : c = Counted(ByWorker)
  OBVIOUS
<1>7. /\ result.objective = c.objective /\ result.attempted = c.attempted
      /\ result.unanswered = c.unanswered /\ result.correct = c.correct
      /\ result.incorrect = c.incorrect
  BY <1>4, <1>6 DEF SameCounters
<1>8. ~CaseMatters' /\ Counted(ByWorker)' = c
  BY <1>1, <1>6, SamePaper
<1>9. /\ r.objective = c.objective /\ r.attempted = c.attempted
      /\ r.unanswered = c.unanswered /\ r.correct = c.correct /\ r.incorrect = c.incorrect
  BY <1>2, <1>5, <1>8 DEF SameCounters
<1>10. PICK w : w = Awarded(task)
  OBVIOUS
<1>11. Awarded(task)' = w /\ NonePending(task)' = NonePending(task)
  BY <1>10 DEF Awarded, NonePending
<1>12. /\ result.descriptive = w /\ result.ready = NonePending(task)
       /\ result.total = result.objective + w
       /\ result.percent = Percentage(result.total) /\ result.pass = PassStatus(result.total)
  BY <1>4, <1>10 DEF TotalHolds
<1>13. /\ r.descriptive = w /\ r.ready = NonePending(task)
       /\ r.objective + w <= TotalMarks => r.total = r.objective + w
       /\ r.percent = Percentage(r.total) /\ r.pass = PassStatus(r.total)
  BY <1>2, <1>5, <1>11 DEF TotalHolds
<1>14. r.objective + w <= TotalMarks
  BY <1>7, <1>9, <1>10
<1>15. r.total = result.total
  BY <1>7, <1>9, <1>12, <1>13, <1>14
<1>16. /\ r.percent = result.percent /\ r.pass = result.pass /\ r.ready = result.ready
       /\ r.descriptive = result.descriptive /\ r.sections = result.sections
  BY <1>1, <1>2, <1>12, <1>13, <1>15
<1>17. r = result
  BY <1>3, <1>7, <1>9, <1>15, <1>16 DEF ResultRows
<1> QED
  BY <1>2, <1>17

\* A result-calculation job, or a review that awards the same marks again,
\* leaves a result as it found it, whichever grader wrote it: "Result
\* calculation is idempotent" (docs/WORKERS.md), under the bounds it needs.
THEOREM RecalculationSettles == GradingSpec => RecalculationStable
<1>1. GradingInv /\ GradingInv' /\ [GradingNext]_gradingVars
      => [graded # "none" /\ task' = task /\ ~CaseMatters
          /\ result.objective + Awarded(task) <= TotalMarks => result' = result]_gradingVars
  BY RecalculationChangesNothing DEF gradingVars
<1> QED
  BY <1>1, GradingKeepsInvariant, PTL DEF GradingSpec, RecalculationStable

-----------------------------------------------------------------------------
(* Reports and the views of staff. *)

ViewOps == {"idle", "runJob", "runFile", "fill", "answer", "insight", "board", "marking"}
ViewHandlers == [op : ViewOps, user : Users \cup {None}, session : Sessions \cup {None},
    days : {0}, sum : {0}, ids : SUBSET Results, job : Nat, after : {{}}, reopened : {{}},
    then : {"", "answer", "insight"}, data : Colleges \cup {None} \cup Verdicts]
ReportColumns == [college : Colleges \cup {None}, owner : Users \cup {None}, shared : BOOLEAN]
RunColumns == [status : {"NONE", "COMPLETED", "CANCELLED"}, college : Colleges \cup {None},
    requester : Users \cup {None}, count : Nat, rows : SUBSET Results, file : BOOLEAN,
    expired : BOOLEAN, cut : BOOLEAN]
InsightColumns == [college : Colleges \cup {None}, basis : SUBSET Results, weak : BOOLEAN,
    status : {"NONE", "PENDING_REVIEW", "USEFUL", "DISMISSED"}]

(* The rows of a college, or of all; what a user may see.                    *)
OfCollege(rows, c) == rows \subseteq Results
                      /\ (c # None => \A x \in rows : row[x].college = c)
Sees(u, rows) ==
    /\ rows \subseteq Results
    /\ UserRole[u] # "SUPER_ADMIN" => \A x \in rows : row[x].college = UserCollege[u]
    /\ UserRole[u] = "STUDENT" => \A x \in rows : row[x].student = u

RowsHold == row \in [Results -> StudentResult] /\ RowsAgree
TablesTyped ==
    /\ report \in [1..MaxReports -> ReportColumns] /\ run \in [1..MaxRuns -> RunColumns]
    /\ insight \in [1..MaxInsights -> InsightColumns]
    /\ shown \in [user : Users \cup {None}, rows : SUBSET Results]
    /\ \A i \in 1..MaxReports : report[i] = NoReport \/ report[i].owner \in Users

(* What a handler in flight has read is what its user may see; a report's is  *)
(* the file its job counted.                                                 *)
Serves(q) ==
    /\ q.op \in {"runJob", "runFile", "board"} => q.user \in Users /\ Sees(q.user, q.ids)
    /\ q.op = "runJob" => q.data \in Colleges \cup {None}
    /\ q.op = "runFile" => /\ q.job \in 1..MaxRuns /\ run[q.job] # NoRun
                           /\ run[q.job].requester = q.user
                           /\ run[q.job].count = Cardinality(q.ids)
    /\ q.op \in {"fill", "answer", "insight"} =>
           /\ q.user \in Users /\ UserRole[q.user] \in AdminRoles
           /\ q.data \in Colleges \cup {None} /\ ScopeAllowed(q.user, q.data)
           /\ OfCollege(q.ids, ScopeCollege(q.user, q.data))
    /\ q.op = "fill" => q.then \in {"answer", "insight"}
    /\ q.op = "marking" => q.session \in Sessions /\ q.data \in Verdicts
HandlersServe == req \in [Requests -> ViewHandlers] /\ \A r \in Requests : Serves(req[r])

FilesHold == \A j \in 1..MaxRuns : run[j].file =>
    run[j].requester \in Users /\ Sees(run[j].requester, run[j].rows)
CacheHolds == DOMAIN cache \subseteq CacheKeys
    /\ \A k \in DOMAIN cache : OfCollege(cache[k], IF k[3] # None THEN k[3] ELSE k[2])
InsightsHold == \A i \in 1..MaxInsights : OfCollege(insight[i].basis, insight[i].college)
BoardTyped == \A i \in DOMAIN board : board[i].id \in Results
BoardHolds == BoardTyped /\ PercentileAgrees

(* A review under way writes the verdict it left, and no other does.         *)
OneReview == \A s \in Sessions \ crossed : \A r \in Reviewing(s) :
    req[r].data = verdict[s] /\ \A q \in Reviewing(s) : q = r
FlagsHold == StaffTypeOK /\ FlagsFollowVerdict /\ OneReview

ViewsInv == /\ RowsHold /\ TablesTyped /\ HandlersServe /\ FilesHold /\ CacheHolds
            /\ InsightsHold /\ TenantSeesOwn /\ JobHasFile /\ BoardHolds /\ FlagsHold

-----------------------------------------------------------------------------
(* Rows in order. *)

\* A relation that orders a finite set has a last element in each of its parts.
LEMMA LastExists ==
  ASSUME NEW S, IsFiniteSet(S), NEW B,
         \A x, y \in S : x # y => <<x, y>> \in B \/ <<y, x>> \in B,
         \A x, y, z \in S : <<x, y>> \in B /\ <<y, z>> \in B => <<x, z>> \in B
  PROVE  \A T \in SUBSET S : T # {} => \E m \in T : \A x \in T \ {m} : <<x, m>> \in B
<1> DEFINE HasLast(T) == \E m \in T : \A x \in T \ {m} : <<x, m>> \in B
           W == {T \in SUBSET S : T # {} /\ ~HasLast(T)}
<1>1. ASSUME W # {} PROVE FALSE
  <2>1. W \in SUBSET (SUBSET S)
    OBVIOUS
  <2>2. PICK T \in W : \A x \in T : T \ {x} \notin W
    <3> HIDE DEF W
    <3> QED
      BY <1>1, <2>1, SubsetMin
  <2>3. PICK x \in T : TRUE
    OBVIOUS
  <2>4. T \in SUBSET S /\ x \in S /\ ~HasLast(T)
    OBVIOUS
  <2>5. CASE T \ {x} = {}
    BY <2>3, <2>4, <2>5
  <2>6. CASE T \ {x} # {}
    <3>1. HasLast(T \ {x})
      BY <2>2, <2>3, <2>4, <2>6
    <3>2. PICK m \in T \ {x} : \A y \in (T \ {x}) \ {m} : <<y, m>> \in B
      BY <3>1
    <3>3. m \in S /\ m # x
      BY <2>4
    <3>4. CASE <<x, m>> \in B
      BY <3>2, <3>4, <2>4
    <3>5. CASE <<m, x>> \in B
      <4>1. ASSUME NEW y \in T \ {x} PROVE <<y, x>> \in B
        <5>1. CASE y = m
          BY <3>5, <5>1
        <5>2. CASE y # m
          <6>1. <<y, m>> \in B /\ y \in S
            BY <3>2, <5>2, <2>4
          <6> QED
            BY <2>4, <3>3, <3>5, <6>1
        <5> QED
          BY <5>1, <5>2
      <4> QED
        BY <4>1, <2>3, <2>4
    <3> QED
      BY <2>4, <3>3, <3>4, <3>5
  <2> QED
    BY <2>5, <2>6
<1> QED
  BY <1>1

\* It can be written down in its order.
LEMMA OrderExists ==
  ASSUME NEW S, IsFiniteSet(S), NEW B,
         \A x, y \in S : x # y => <<x, y>> \in B \/ <<y, x>> \in B,
         \A x, y, z \in S : <<x, y>> \in B /\ <<y, z>> \in B => <<x, z>> \in B
  PROVE  \E s \in [1..Cardinality(S) -> S] :
             \A i, j \in 1..Cardinality(S) : i < j => <<s[i], s[j]>> \in B
<1> DEFINE Lined(T) == \E s \in [1..Cardinality(T) -> T] :
               \A i, j \in 1..Cardinality(T) : i < j => <<s[i], s[j]>> \in B
           W == {T \in SUBSET S : ~Lined(T)}
<1>1. ASSUME W # {} PROVE FALSE
  <2>1. W \in SUBSET (SUBSET S)
    OBVIOUS
  <2>2. PICK T \in W : \A x \in T : T \ {x} \notin W
    <3> HIDE DEF W
    <3> QED
      BY <1>1, <2>1, SubsetMin
  <2>3. T \in SUBSET S /\ ~Lined(T) /\ IsFiniteSet(T)
    BY FS_Subset
  <2>4. CASE T = {}
    <3>1. Cardinality(T) = 0
      BY <2>4, FS_EmptySet
    <3>2. [i \in {} |-> i] \in [1..Cardinality(T) -> T]
      BY <3>1
    <3>3. \A i \in 1..Cardinality(T) : FALSE
      BY <3>1
    <3> QED
      BY <2>3, <3>2, <3>3
  <2>5. CASE T # {}
    <3>1. PICK m \in T : \A x \in T \ {m} : <<x, m>> \in B
      BY <2>3, <2>5, LastExists
    <3> DEFINE R == T \ {m}  n == Cardinality(R)
    <3>2. /\ IsFiniteSet(R) /\ n \in Nat /\ Cardinality(T) = n + 1
      <4>1. IsFiniteSet(R) /\ Cardinality(R) = Cardinality(T) - 1 /\ Cardinality(T) \in Nat
        BY <2>3, FS_RemoveElement, FS_CardinalityType
      <4>2. Cardinality(R) \in Nat
        BY <4>1, FS_CardinalityType
      <4> QED
        BY <4>1, <4>2
    <3>3. Lined(R)
      BY <2>2, <2>3
    <3> HIDE DEF R, n
    <3>4. PICK s \in [1..n -> R] : \A i, j \in 1..n : i < j => <<s[i], s[j]>> \in B
      BY <3>3 DEF n
    <3> DEFINE t == [i \in 1..(n + 1) |-> IF i = n + 1 THEN m ELSE s[i]]
    <3>5. \A i \in 1..(n + 1) : i # n + 1 => i \in 1..n
      BY <3>2
    <3>6. \A i \in 1..n : s[i] \in T /\ <<s[i], m>> \in B
      BY <3>1, <3>4 DEF R
    <3>7. t \in [1..(n + 1) -> T]
      BY <3>5, <3>6
    <3>8. ASSUME NEW i \in 1..(n + 1), NEW j \in 1..(n + 1), i < j PROVE <<t[i], t[j]>> \in B
      <4>1. i \in 1..n /\ t[i] = s[i]
        BY <3>2, <3>5, <3>8
      <4>2. CASE j = n + 1
        BY <3>6, <4>1, <4>2
      <4>3. CASE j # n + 1
        <5>1. j \in 1..n /\ t[j] = s[j]
          BY <3>5, <4>3
        <5> QED
          BY <3>4, <3>8, <4>1, <5>1
      <4> QED
        BY <4>2, <4>3
    <3> HIDE DEF t
    <3>9. Lined(T)
      BY <3>2, <3>7, <3>8
    <3> QED
      BY <2>3, <3>9
  <2> QED
    BY <2>4, <2>5
<1> QED
  <2>1. S \notin W
    BY <1>1
  <2> QED
    BY <2>1

\* A list in descending order: how many values are at most one that no other
\* equals, and how many are above it.
LEMMA DescendingCounts ==
  ASSUME NEW n \in Nat, NEW P \in [1..n -> Int],
         \A j, k \in 1..n : j < k => P[j] >= P[k],
         NEW i \in 1..n, \A k \in (1..n) \ {i} : P[k] # P[i]
  PROVE  /\ Cardinality({k \in 1..n : P[k] <= P[i]}) = n - i + 1
         /\ Cardinality({k \in 1..n : P[k] > P[i]}) = i - 1
<1>1. {k \in 1..n : P[k] <= P[i]} = i..n
  <2>1. ASSUME NEW k \in 1..n, P[k] <= P[i] PROVE k \in i..n
    <3>1. k < i => P[k] >= P[i] /\ P[k] # P[i]
      OBVIOUS
    <3>2. P[k] \in Int /\ P[i] \in Int
      OBVIOUS
    <3> QED
      BY <2>1, <3>1, <3>2
  <2>2. ASSUME NEW k \in i..n PROVE k \in 1..n /\ P[k] <= P[i]
    <3>1. k \in 1..n
      OBVIOUS
    <3>2. P[k] \in Int /\ P[i] \in Int
      BY <3>1
    <3>3. k # i => i < k
      OBVIOUS
    <3>4. k # i => P[i] >= P[k]
      BY <3>1, <3>3
    <3> QED
      BY <3>1, <3>2, <3>4
  <2> QED
    BY <2>1, <2>2
<1>2. {k \in 1..n : P[k] > P[i]} = 1..(i - 1)
  <2>1. ASSUME NEW k \in 1..n, P[k] > P[i] PROVE k \in 1..(i - 1)
    <3>1. P[k] \in Int /\ P[i] \in Int
      OBVIOUS
    <3>2. i < k => P[i] >= P[k]
      OBVIOUS
    <3>3. k # i
      BY <2>1, <3>1
    <3> QED
      BY <2>1, <3>1, <3>2, <3>3
  <2>2. ASSUME NEW k \in 1..(i - 1) PROVE k \in 1..n /\ P[k] > P[i]
    <3>1. k \in 1..n /\ k < i
      OBVIOUS
    <3>2. P[k] \in Int /\ P[i] \in Int
      BY <3>1
    <3>3. P[k] >= P[i] /\ P[k] # P[i]
      BY <3>1
    <3> QED
      BY <3>1, <3>2, <3>3
  <2> QED
    BY <2>1, <2>2
<1>3. i \in Int /\ n \in Int /\ 1 \in Int /\ i - 1 \in Int /\ ~(i > n)
  OBVIOUS
<1>4. Cardinality(i..n) = n - i + 1
  BY <1>3, FS_Interval
<1>5. Cardinality(1..(i - 1)) = i - 1
  <2>1. Cardinality(1..(i - 1)) = IF 1 > i - 1 THEN 0 ELSE (i - 1) - 1 + 1
    BY <1>3, FS_Interval
  <2> QED
    BY <2>1
<1> QED
  BY <1>1, <1>2, <1>4, <1>5

\* A set of places that has all from a to b has as many.
LEMMA PlacesBetween ==
  ASSUME NEW n \in Nat, NEW X \in SUBSET (1..n), NEW a \in Int, NEW b \in Int,
         a..b \subseteq X, a <= b
  PROVE  Cardinality(X) \in Nat /\ Cardinality(X) >= b - a + 1
<1>1. IsFiniteSet(1..n) /\ IsFiniteSet(X)
  <2>1. 1 \in Int /\ n \in Int
    OBVIOUS
  <2>2. IsFiniteSet(1..n)
    BY <2>1, FS_Interval
  <2> QED
    BY <2>2, FS_Subset
<1>2. IsFiniteSet(a..b) /\ Cardinality(a..b) = b - a + 1
  BY FS_Interval
<1>3. Cardinality(a..b) <= Cardinality(X) /\ Cardinality(X) \in Nat
  BY <1>1, FS_Subset, FS_CardinalityType
<1> QED
  BY <1>2, <1>3

\* The median of a list in ascending order has as many values on either side.
LEMMA MedianHalves ==
  ASSUME NEW n \in Nat \ {0}, NEW P \in [1..n -> Int], Len(P) = n,
         \A j, k \in 1..n : j < k => P[j] <= P[k]
  PROVE  /\ 2 * Cardinality({i \in 1..n : 2 * P[i] <= Median(P)}) >= n
         /\ 2 * Cardinality({i \in 1..n : 2 * P[i] >= Median(P)}) >= n
<1>1. PICK h \in Nat : h = n \div 2 /\ (n = 2 * h \/ n = 2 * h + 1) /\ (n % 2 = 1 <=> n = 2 * h + 1)
  OBVIOUS
<1>2. PICK lo \in 1..n, hi \in 1..n : /\ 2 * lo >= n /\ 2 * (n - hi + 1) >= n
                                    /\ Median(P) \in Int
                                    /\ 2 * P[lo] <= Median(P) /\ Median(P) <= 2 * P[hi]
  <2>1. CASE n = 2 * h + 1
    <3>1. h + 1 \in 1..n /\ 2 * (h + 1) >= n /\ 2 * (n - (h + 1) + 1) >= n
      BY <2>1
    <3>2. n % 2 = 1 /\ n # 0
      BY <1>1, <2>1
    <3>3. Median(P) = 2 * P[h + 1]
      BY <1>1, <3>2 DEF Median
    <3>4. P[h + 1] \in Int
      BY <3>1
    <3> QED
      BY <3>1, <3>3, <3>4
  <2>2. CASE n = 2 * h
    <3>1. h \in 1..n /\ h + 1 \in 1..n /\ h < h + 1 /\ 2 * h >= n /\ 2 * (n - (h + 1) + 1) >= n
      BY <2>2
    <3>2. n % 2 # 1 /\ n # 0
      BY <1>1, <2>2
    <3>3. Median(P) = P[h] + P[h + 1]
      BY <1>1, <3>2 DEF Median
    <3>4. P[h] \in Int /\ P[h + 1] \in Int /\ P[h] <= P[h + 1]
      BY <3>1
    <3>5. Median(P) \in Int /\ 2 * P[h] <= Median(P) /\ Median(P) <= 2 * P[h + 1]
      BY <3>3, <3>4
    <3> QED
      BY <3>1, <3>5
  <2> QED
    BY <1>1, <2>1, <2>2
<1> DEFINE under == {i \in 1..n : 2 * P[i] <= Median(P)}
           over == {i \in 1..n : 2 * P[i] >= Median(P)}
<1>3. \A i \in 1..lo : i \in under
  <2>1. ASSUME NEW i \in 1..lo PROVE i \in under
    <3>1. i \in 1..n /\ P[i] \in Int /\ P[lo] \in Int /\ (i = lo \/ i < lo)
      BY <1>2
    <3>2. P[i] <= P[lo]
      BY <1>2, <3>1
    <3>3. 2 * P[i] <= Median(P)
      BY <1>2, <3>1, <3>2
    <3> QED
      BY <3>1, <3>3
  <2> QED
    BY <2>1
<1>4. \A i \in hi..n : i \in over
  <2>1. ASSUME NEW i \in hi..n PROVE i \in over
    <3>1. i \in 1..n /\ P[i] \in Int /\ P[hi] \in Int /\ (i = hi \/ hi < i)
      BY <1>2
    <3>2. P[hi] <= P[i]
      BY <1>2, <3>1
    <3>3. 2 * P[i] >= Median(P)
      BY <1>2, <3>1, <3>2
    <3> QED
      BY <3>1, <3>3
  <2> QED
    BY <2>1
<1>5. under \in SUBSET (1..n) /\ over \in SUBSET (1..n)
  OBVIOUS
<1> HIDE DEF under, over
<1>6. Cardinality(under) \in Nat /\ Cardinality(under) >= lo - 1 + 1
  <2>1. 1 \in Int /\ lo \in Int /\ 1 <= lo /\ 1..lo \subseteq under /\ n \in Nat
    BY <1>3
  <2> QED
    BY <1>5, <2>1, PlacesBetween
<1>7. Cardinality(over) \in Nat /\ Cardinality(over) >= n - hi + 1
  <2>1. n \in Int /\ hi \in Int /\ hi <= n /\ hi..n \subseteq over /\ n \in Nat
    BY <1>4
  <2> QED
    BY <1>5, <2>1, PlacesBetween
<1>8. 2 * Cardinality(under) >= n /\ 2 * Cardinality(over) >= n
  BY <1>2, <1>6, <1>7, SMTT(30)
<1> QED
  BY <1>8 DEF under, over

LEMMA ReportBounds ==
  /\ MaxReports \in Nat /\ MaxRuns \in Nat /\ MaxInsights \in Nat
  /\ Results \subseteq Nat /\ IsFiniteSet(Results)
<1>1. {MaxReports, MaxRuns, MaxInsights} \subseteq Nat /\ Results \subseteq Nat /\ IsFiniteSet(Results)
  BY ReportsAssumption
<1> QED
  BY <1>1

LEMMA RowIs ==
  ASSUME RowsHold, NEW x \in Results
  PROVE  /\ x \in Nat /\ row[x].pct \in Int /\ row[x].time \in Nat \cup {Unset}
         /\ row[x].college \in Colleges /\ row[x].student \in Users
         /\ row[x].assessment \in Assessments
         /\ row[x].college = UserCollege[row[x].student]
         /\ row[x].college = AssessmentCollege[row[x].assessment]
<1>1. x \in Nat
  BY ReportBounds
<1>2. row[x] \in StudentResult
  BY DEF RowsHold
<1>3. row[x].college = UserCollege[row[x].student] /\ row[x].college = AssessmentCollege[row[x].assessment]
  BY DEF RowsHold, RowsAgree
<1> QED
  BY <1>1, <1>2, <1>3 DEF StudentResult

(* Ranked by percentage, time and age, any two results are told apart.       *)
LEMMA BetterTotal ==
  ASSUME RowsHold, NEW x \in Results, NEW y \in Results, x # y
  PROVE  Better(x, y) \/ Better(y, x)
<1>1. row[x].pct \in Int /\ row[y].pct \in Int /\ x \in Nat /\ y \in Nat
  BY RowIs
<1>2. row[x].time \in Nat \cup {Unset} /\ row[y].time \in Nat \cup {Unset}
  BY RowIs
<1>3. CASE row[x].pct # row[y].pct
  BY <1>1, <1>3 DEF Better
<1>4. CASE row[x].pct = row[y].pct /\ row[x].time = row[y].time
  BY <1>1, <1>4 DEF Better
<1>5. CASE row[x].pct = row[y].pct /\ row[x].time # row[y].time
  <2>1. CASE row[x].time = Unset
    BY <1>5, <2>1 DEF Better
  <2>2. CASE row[y].time = Unset
    BY <1>5, <2>2 DEF Better
  <2>3. CASE row[x].time # Unset /\ row[y].time # Unset
    <3>1. row[x].time \in Nat /\ row[y].time \in Nat
      BY <1>2, <2>3
    <3>2. row[x].time < row[y].time \/ row[y].time < row[x].time
      BY <1>5, <3>1
    <3> QED
      BY <1>5, <2>3, <3>2 DEF Better
  <2> QED
    BY <2>1, <2>2, <2>3
<1> QED
  BY <1>3, <1>4, <1>5

LEMMA BetterTransitive ==
  ASSUME RowsHold, NEW x \in Results, NEW y \in Results, NEW z \in Results,
         Better(x, y), Better(y, z)
  PROVE  Better(x, z)
<1> DEFINE quicker(s, t) == s # t /\ (t = Unset \/ (s # Unset /\ s < t))
<1>1. /\ row[x].pct \in Int /\ row[y].pct \in Int /\ row[z].pct \in Int
      /\ x \in Nat /\ y \in Nat /\ z \in Nat
  BY RowIs
<1>2. row[x].time \in Nat \cup {Unset} /\ row[y].time \in Nat \cup {Unset} /\ row[z].time \in Nat \cup {Unset}
  BY RowIs
<1>3. \/ row[x].pct > row[y].pct
      \/ row[x].pct = row[y].pct /\ quicker(row[x].time, row[y].time)
      \/ row[x].pct = row[y].pct /\ row[x].time = row[y].time /\ x < y
  BY DEF Better
<1>4. \/ row[y].pct > row[z].pct
      \/ row[y].pct = row[z].pct /\ quicker(row[y].time, row[z].time)
      \/ row[y].pct = row[z].pct /\ row[y].time = row[z].time /\ y < z
  BY DEF Better
<1>5. row[x].pct >= row[y].pct /\ row[y].pct >= row[z].pct
  BY <1>1, <1>3, <1>4
<1>6. CASE row[x].pct > row[z].pct
  BY <1>6 DEF Better
<1>7. CASE row[x].pct = row[y].pct /\ row[y].pct = row[z].pct
  <2>1. /\ quicker(row[x].time, row[y].time) \/ (row[x].time = row[y].time /\ x < y)
        /\ quicker(row[y].time, row[z].time) \/ (row[y].time = row[z].time /\ y < z)
    BY <1>1, <1>3, <1>4, <1>7
  <2>2. quicker(row[x].time, row[y].time) /\ quicker(row[y].time, row[z].time)
           => quicker(row[x].time, row[z].time)
    <3> SUFFICES ASSUME quicker(row[x].time, row[y].time), quicker(row[y].time, row[z].time)
                 PROVE  quicker(row[x].time, row[z].time)
      OBVIOUS
    <3>1. row[x].time # Unset
      OBVIOUS
    <3>2. CASE row[z].time = Unset
      BY <3>1, <3>2
    <3>3. CASE row[z].time # Unset
      <4>1. row[y].time # Unset /\ row[y].time < row[z].time /\ row[x].time < row[y].time
        BY <3>3
      <4>2. row[x].time \in Nat /\ row[y].time \in Nat /\ row[z].time \in Nat
        BY <1>2, <3>1, <3>3, <4>1
      <4>3. row[x].time < row[z].time /\ row[x].time # row[z].time
        BY <4>1, <4>2
      <4> QED
        BY <3>1, <4>3
    <3> QED
      BY <3>2, <3>3
  <2>3. \/ quicker(row[x].time, row[z].time)
        \/ row[x].time = row[z].time /\ x < z
    <3>1. CASE row[x].time = row[y].time
      <4>1. CASE row[y].time = row[z].time
        BY <1>1, <2>1, <3>1, <4>1
      <4>2. CASE row[y].time # row[z].time
        <5>1. quicker(row[y].time, row[z].time)
          BY <2>1, <4>2
        <5> QED
          BY <3>1, <5>1
      <4> QED
        BY <4>1, <4>2
    <3>2. CASE row[x].time # row[y].time
      <4>1. quicker(row[x].time, row[y].time)
        BY <2>1, <3>2
      <4>2. CASE row[y].time = row[z].time
        BY <4>1, <4>2
      <4>3. CASE row[y].time # row[z].time
        <5>1. quicker(row[y].time, row[z].time)
          BY <2>1, <4>3
        <5> QED
          BY <2>2, <4>1, <5>1
      <4> QED
        BY <4>2, <4>3
    <3> QED
      BY <3>1, <3>2
  <2>4. row[x].pct = row[z].pct
    BY <1>7
  <2> QED
    BY <2>3, <2>4 DEF Better
<1> QED
  BY <1>1, <1>5, <1>6, <1>7

LEMMA BetterOrders ==
  ASSUME RowsHold, NEW rows \in SUBSET Results
  PROVE  /\ Cardinality(rows) \in Nat
         /\ Ordered(rows, Better) \in [1..Cardinality(rows) -> rows]
         /\ \A i, j \in 1..Cardinality(rows) :
               i < j => Better(Ordered(rows, Better)[i], Ordered(rows, Better)[j])
<1> DEFINE B == {p \in rows \X rows : Better(p[1], p[2])}
           n == Cardinality(rows)
<1>1. IsFiniteSet(rows) /\ n \in Nat
  BY ReportBounds, FS_Subset, FS_CardinalityType
<1>2. \A x, y \in rows : <<x, y>> \in B <=> Better(x, y)
  OBVIOUS
<1> HIDE DEF B
<1>3. \A x, y \in rows : x # y => <<x, y>> \in B \/ <<y, x>> \in B
  <2>1. ASSUME NEW x \in rows, NEW y \in rows, x # y PROVE Better(x, y) \/ Better(y, x)
    BY <2>1, BetterTotal
  <2> QED
    BY <1>2, <2>1
<1>4. \A x, y, z \in rows : <<x, y>> \in B /\ <<y, z>> \in B => <<x, z>> \in B
  <2>1. ASSUME NEW x \in rows, NEW y \in rows, NEW z \in rows, Better(x, y), Better(y, z)
        PROVE  Better(x, z)
    BY <2>1, BetterTransitive
  <2> QED
    BY <1>2, <2>1
<1>5. PICK s \in [1..n -> rows] : \A i, j \in 1..n : i < j => <<s[i], s[j]>> \in B
  BY <1>1, <1>3, <1>4, OrderExists
<1>6. \A i, j \in DOMAIN s : i < j => Better(s[i], s[j])
  BY <1>2, <1>5
<1> DEFINE o == Ordered(rows, Better)
<1>7. o \in [1..n -> rows] /\ \A i, j \in DOMAIN o : i < j => Better(o[i], o[j])
  BY <1>6 DEF Ordered
<1>8. DOMAIN o = 1..n
  BY <1>7
<1> HIDE DEF o
<1>9. \A i, j \in 1..n : i < j => Better(o[i], o[j])
  BY <1>7, <1>8
<1> QED
  BY <1>1, <1>7, <1>9 DEF o

LEMMA BelowTotal ==
  ASSUME RowsHold, NEW x \in Results, NEW y \in Results, x # y
  PROVE  Below(x, y) \/ Below(y, x)
<1>1. row[x].pct \in Int /\ row[y].pct \in Int /\ x \in Nat /\ y \in Nat
  BY RowIs
<1> QED
  BY <1>1 DEF Below

LEMMA BelowTransitive ==
  ASSUME RowsHold, NEW x \in Results, NEW y \in Results, NEW z \in Results,
         Below(x, y), Below(y, z)
  PROVE  Below(x, z)
<1>1. /\ row[x].pct \in Int /\ row[y].pct \in Int /\ row[z].pct \in Int
      /\ x \in Nat /\ y \in Nat /\ z \in Nat
  BY RowIs
<1> QED
  BY <1>1 DEF Below

LEMMA BelowOrders ==
  ASSUME RowsHold, NEW rows \in SUBSET Results
  PROVE  /\ Cardinality(rows) \in Nat
         /\ Ordered(rows, Below) \in [1..Cardinality(rows) -> rows]
         /\ \A i, j \in 1..Cardinality(rows) :
               i < j => Below(Ordered(rows, Below)[i], Ordered(rows, Below)[j])
<1> DEFINE B == {p \in rows \X rows : Below(p[1], p[2])}
           n == Cardinality(rows)
<1>1. IsFiniteSet(rows) /\ n \in Nat
  BY ReportBounds, FS_Subset, FS_CardinalityType
<1>2. \A x, y \in rows : <<x, y>> \in B <=> Below(x, y)
  OBVIOUS
<1> HIDE DEF B
<1>3. \A x, y \in rows : x # y => <<x, y>> \in B \/ <<y, x>> \in B
  <2>1. ASSUME NEW x \in rows, NEW y \in rows, x # y PROVE Below(x, y) \/ Below(y, x)
    BY <2>1, BelowTotal
  <2> QED
    BY <1>2, <2>1
<1>4. \A x, y, z \in rows : <<x, y>> \in B /\ <<y, z>> \in B => <<x, z>> \in B
  <2>1. ASSUME NEW x \in rows, NEW y \in rows, NEW z \in rows, Below(x, y), Below(y, z)
        PROVE  Below(x, z)
    BY <2>1, BelowTransitive
  <2> QED
    BY <1>2, <2>1
<1>5. PICK s \in [1..n -> rows] : \A i, j \in 1..n : i < j => <<s[i], s[j]>> \in B
  BY <1>1, <1>3, <1>4, OrderExists
<1>6. \A i, j \in DOMAIN s : i < j => Below(s[i], s[j])
  BY <1>2, <1>5
<1> DEFINE o == Ordered(rows, Below)
<1>7. o \in [1..n -> rows] /\ \A i, j \in DOMAIN o : i < j => Below(o[i], o[j])
  BY <1>6 DEF Ordered
<1>8. DOMAIN o = 1..n
  BY <1>7
<1> HIDE DEF o
<1>9. \A i, j \in 1..n : i < j => Below(o[i], o[j])
  BY <1>7, <1>8
<1> QED
  BY <1>1, <1>7, <1>9 DEF o

(* A leaderboard's percentiles are those the page explains.                  *)
Low(b, i) == {k \in DOMAIN b : row[b[k].id].pct <= row[b[i].id].pct}
High(b, i) == {k \in DOMAIN b : row[b[k].id].pct > row[b[i].id].pct}
LEMMA EntriesAre ==
  ASSUME RowsHold, NEW rows \in SUBSET Results, NEW b, b = Entries(rows)
  PROVE  \A i \in DOMAIN b : b[i].id \in rows
<1> DEFINE n == Cardinality(rows)
<1>1. PICK s : s = Ordered(rows, Better)
  OBVIOUS
<1>2. n \in Nat /\ s \in [1..n -> rows] /\ \A i, j \in 1..n : i < j => Better(s[i], s[j])
  BY <1>1, BetterOrders
<1>3. b = [i \in 1..n |-> [id |-> s[i], rank |-> i, percentile |-> ((n - i + 1) * 10000) \div n]]
  BY <1>1 DEF Entries
<1> HIDE DEF n
<1>4. DOMAIN b = 1..n /\ Len(b) = n
  BY <1>2, <1>3
<1>5. \A i \in 1..n : b[i].id = s[i] /\ b[i].rank = i /\ b[i].percentile = ((n - i + 1) * 10000) \div n
  BY <1>3
<1> QED
  BY <1>2, <1>4, <1>5

LEMMA EntriesAgree ==
  ASSUME RowsHold, NEW rows \in SUBSET Results, NEW b, b = Entries(rows),
         NEW i \in DOMAIN b, \A k \in DOMAIN b \ {i} : row[b[k].id].pct # row[b[i].id].pct
  PROVE  /\ b[i].percentile = (Cardinality(Low(b, i)) * 10000) \div Len(b)
         /\ b[i].rank = 1 + Cardinality(High(b, i))
<1> DEFINE n == Cardinality(rows)
<1>1. PICK s : s = Ordered(rows, Better)
  OBVIOUS
<1>2. n \in Nat /\ s \in [1..n -> rows] /\ \A j, k \in 1..n : j < k => Better(s[j], s[k])
  BY <1>1, BetterOrders
<1>3. b = [k \in 1..n |-> [id |-> s[k], rank |-> k, percentile |-> ((n - k + 1) * 10000) \div n]]
  BY <1>1 DEF Entries
<1> HIDE DEF n
<1>4. DOMAIN b = 1..n /\ Len(b) = n
  BY <1>2, <1>3
<1>5. \A k \in 1..n : b[k].id = s[k] /\ b[k].rank = k /\ b[k].percentile = ((n - k + 1) * 10000) \div n
  BY <1>3
<1>6. PICK P : P = [k \in 1..n |-> row[s[k]].pct]
  OBVIOUS
<1>7. \A k \in 1..n : row[s[k]].pct \in Int
  <2>1. ASSUME NEW k \in 1..n PROVE row[s[k]].pct \in Int
    <3>1. s[k] \in Results
      BY <1>2
    <3> QED
      BY <3>1, RowIs
  <2> QED
    BY <2>1
<1>8. P \in [1..n -> Int] /\ \A k \in 1..n : P[k] = row[b[k].id].pct
  BY <1>5, <1>6, <1>7
<1>9. \A j, k \in 1..n : j < k => P[j] >= P[k]
  <2>1. ASSUME NEW j \in 1..n, NEW k \in 1..n, j < k PROVE P[j] >= P[k]
    <3>1. Better(s[j], s[k])
      BY <1>2, <2>1
    <3>2. P[j] = row[s[j]].pct /\ P[k] = row[s[k]].pct /\ P[j] \in Int /\ P[k] \in Int
      BY <1>6, <1>7
    <3>3. row[s[j]].pct > row[s[k]].pct \/ row[s[j]].pct = row[s[k]].pct
      BY <3>1 DEF Better
    <3> QED
      BY <3>2, <3>3
  <2> QED
    BY <2>1
<1>10. i \in 1..n /\ \A k \in (1..n) \ {i} : P[k] # P[i]
  BY <1>4, <1>8
<1>11. /\ Cardinality({k \in 1..n : P[k] <= P[i]}) = n - i + 1
       /\ Cardinality({k \in 1..n : P[k] > P[i]}) = i - 1
  BY <1>2, <1>8, <1>9, <1>10, DescendingCounts
<1>12. /\ Low(b, i) = {k \in 1..n : P[k] <= P[i]}
       /\ High(b, i) = {k \in 1..n : P[k] > P[i]}
  BY <1>4, <1>8, <1>10 DEF Low, High
<1>13. Cardinality(Low(b, i)) = n - i + 1 /\ Cardinality(High(b, i)) = i - 1
  BY <1>11, <1>12
<1>14. b[i].percentile = (Cardinality(Low(b, i)) * 10000) \div Len(b)
  <2>1. PICK c : c = n - i + 1
    OBVIOUS
  <2>2. b[i].percentile = (c * 10000) \div n
    BY <1>5, <1>10, <2>1
  <2>3. Cardinality(Low(b, i)) = c
    BY <1>13, <2>1
  <2> QED
    BY <1>4, <2>2, <2>3
<1>15. b[i].rank = 1 + Cardinality(High(b, i))
  <2>1. b[i].rank = i /\ i \in Int
    BY <1>5, <1>10
  <2> QED
    BY <1>13, <2>1
<1> QED
  BY <1>14, <1>15

(* Percentages in order.                                                     *)
LEMMA SortedIs ==
  ASSUME RowsHold, NEW rows \in SUBSET Results, NEW s, s = Sorted(rows)
  PROVE  /\ Cardinality(rows) \in Nat /\ s \in [1..Cardinality(rows) -> Int] /\ Len(s) = Cardinality(rows)
         /\ \A j, k \in 1..Cardinality(rows) : j < k => s[j] <= s[k]
<1> DEFINE n == Cardinality(rows)
<1>1. PICK o : o = Ordered(rows, Below)
  OBVIOUS
<1>2. n \in Nat /\ o \in [1..n -> rows] /\ \A i, j \in 1..n : i < j => Below(o[i], o[j])
  BY <1>1, BelowOrders
<1>3. s = [i \in 1..n |-> row[o[i]].pct]
  BY <1>1 DEF Sorted
<1> HIDE DEF n
<1>4. \A k \in 1..n : row[o[k]].pct \in Int
  <2>1. ASSUME NEW k \in 1..n PROVE row[o[k]].pct \in Int
    <3>1. o[k] \in Results
      BY <1>2
    <3> QED
      BY <3>1, RowIs
  <2> QED
    BY <2>1
<1>5. s \in [1..n -> Int] /\ Len(s) = n
  BY <1>2, <1>3, <1>4
<1>6. ASSUME NEW j \in 1..n, NEW k \in 1..n, j < k PROVE s[j] <= s[k]
  <2>1. Below(o[j], o[k])
    BY <1>2, <1>6
  <2>2. row[o[j]].pct < row[o[k]].pct \/ row[o[j]].pct = row[o[k]].pct
    BY <2>1 DEF Below
  <2>3. s[j] = row[o[j]].pct /\ s[k] = row[o[k]].pct /\ s[j] \in Int /\ s[k] \in Int
    BY <1>3, <1>4
  <2> QED
    BY <2>2, <2>3
<1> QED
  BY <1>2, <1>5, <1>6 DEF n

(* A histogram of whole percentages counts each once.                        *)
WholePct(v) == v \in 0..10000 /\ v % 100 = 0
Whole(s) == \A i \in DOMAIN s : WholePct(s[i])
InBucket(s, b) == {i \in DOMAIN s : s[i] >= Buckets[b][1] /\ s[i] <= Buckets[b][2]}
LEMMA BucketsAre ==
  /\ DOMAIN Buckets = {1, 2, 3, 4, 5}
  /\ Buckets[1] = <<0, 2000>> /\ Buckets[2] = <<2100, 4000>> /\ Buckets[3] = <<4100, 6000>>
  /\ Buckets[4] = <<6100, 8000>> /\ Buckets[5] = <<8100, 10000>>
<1>1. Len(Buckets) = 5 /\ DOMAIN Buckets = 1..5
  BY DEF Buckets
<1> QED
  BY <1>1 DEF Buckets

LEMMA AddedTo ==
  ASSUME NEW A, NEW B, IsFiniteSet(A), IsFiniteSet(B), A \cap B = {}
  PROVE  /\ IsFiniteSet(A \cup B) /\ Cardinality(A) \in Nat /\ Cardinality(B) \in Nat
         /\ Cardinality(A \cup B) = Cardinality(A) + Cardinality(B)
<1>1. Cardinality(A) \in Nat /\ Cardinality(B) \in Nat /\ Cardinality(A \cap B) = 0
  BY FS_CardinalityType, FS_EmptySet
<1>2. IsFiniteSet(A \cup B)
      /\ Cardinality(A \cup B) = Cardinality(A) + Cardinality(B) - Cardinality(A \cap B)
  BY FS_Union
<1> QED
  BY <1>1, <1>2

LEMMA Hundreds ==
  ASSUME NEW v \in Int, v % 100 = 0
  PROVE  \E q \in Int : v = 100 * q
<1>1. v = 100 * (v \div 100) /\ v \div 100 \in Int
  OBVIOUS
<1> QED
  BY <1>1

LEMMA OneBucket ==
  ASSUME NEW v, WholePct(v)
  PROVE  \/ 0 <= v /\ v <= 2000
         \/ 2100 <= v /\ v <= 4000
         \/ 4100 <= v /\ v <= 6000
         \/ 6100 <= v /\ v <= 8000
         \/ 8100 <= v /\ v <= 10000
<1>1. v \in 0..10000 /\ v \in Int /\ v % 100 = 0
  BY DEF WholePct
<1>2. PICK q \in Int : v = 100 * q
  BY <1>1, Hundreds
<1> QED
  BY <1>1, <1>2

LEMMA HistogramCounts ==
  ASSUME NEW n \in Nat, NEW s \in [1..n -> Int], Whole(s)
  PROVE  SumOver(DOMAIN Buckets, Histogram(s)) = n
<1> DEFINE P(b) == InBucket(s, b)
           h == Histogram(s)
<1>1. h = [b \in DOMAIN Buckets |-> Cardinality(P(b))]
  BY DEF Histogram, InBucket
<1>2. DOMAIN s = 1..n /\ IsFiniteSet(1..n) /\ Cardinality(1..n) = n
  <2>1. 1 \in Int /\ n \in Int
    OBVIOUS
  <2>2. IsFiniteSet(1..n) /\ Cardinality(1..n) = IF 1 > n THEN 0 ELSE n - 1 + 1
    BY <2>1, FS_Interval
  <2> QED
    BY <2>2
<1>3. \A b \in 1..5 : P(b) \in SUBSET (1..n) /\ IsFiniteSet(P(b))
  <2>1. \A b \in 1..5 : P(b) \in SUBSET (1..n)
    BY DEF InBucket
  <2> QED
    BY <1>2, <2>1, FS_Subset
<1>4. ASSUME NEW i \in 1..n
      PROVE  /\ i \in P(1) <=> 0 <= s[i] /\ s[i] <= 2000
             /\ i \in P(2) <=> 2100 <= s[i] /\ s[i] <= 4000
             /\ i \in P(3) <=> 4100 <= s[i] /\ s[i] <= 6000
             /\ i \in P(4) <=> 6100 <= s[i] /\ s[i] <= 8000
             /\ i \in P(5) <=> 8100 <= s[i] /\ s[i] <= 10000
  <2>1. s[i] \in Int
    OBVIOUS
  <2> QED
    BY <2>1, BucketsAre DEF InBucket
<1>5. ASSUME NEW i \in 1..n PROVE i \in P(1) \cup P(2) \cup P(3) \cup P(4) \cup P(5)
  <2>1. WholePct(s[i])
    BY <1>2 DEF Whole
  <2>4. \/ 0 <= s[i] /\ s[i] <= 2000
        \/ 2100 <= s[i] /\ s[i] <= 4000
        \/ 4100 <= s[i] /\ s[i] <= 6000
        \/ 6100 <= s[i] /\ s[i] <= 8000
        \/ 8100 <= s[i] /\ s[i] <= 10000
    BY <2>1, OneBucket
  <2> QED
    BY <1>4, <2>4
<1>6. ASSUME NEW i \in 1..n
      PROVE  /\ i \in P(1) => i \notin P(2) /\ i \notin P(3) /\ i \notin P(4) /\ i \notin P(5)
             /\ i \in P(2) => i \notin P(3) /\ i \notin P(4) /\ i \notin P(5)
             /\ i \in P(3) => i \notin P(4) /\ i \notin P(5)
             /\ i \in P(4) => i \notin P(5)
  <2>1. s[i] \in Int
    OBVIOUS
  <2> QED
    BY <1>4, <2>1
<1> HIDE DEF P, h
<1>7. PICK p1, p2, p3, p4, p5 : p1 = P(1) /\ p2 = P(2) /\ p3 = P(3) /\ p4 = P(4) /\ p5 = P(5)
  OBVIOUS
<1>8. PICK u2, u3, u4 : u2 = p1 \cup p2 /\ u3 = u2 \cup p3 /\ u4 = u3 \cup p4
  OBVIOUS
<1>9. /\ IsFiniteSet(p1) /\ IsFiniteSet(p2) /\ IsFiniteSet(p3) /\ IsFiniteSet(p4) /\ IsFiniteSet(p5)
      /\ p1 \cap p2 = {} /\ u2 \cap p3 = {} /\ u3 \cap p4 = {} /\ u4 \cap p5 = {}
      /\ u4 \cup p5 = 1..n
  BY <1>3, <1>5, <1>6, <1>7, <1>8
<1>10. /\ IsFiniteSet(u2) /\ Cardinality(p1) \in Nat /\ Cardinality(p2) \in Nat
       /\ Cardinality(u2) = Cardinality(p1) + Cardinality(p2)
  BY <1>8, <1>9, AddedTo
<1>11. /\ IsFiniteSet(u3) /\ Cardinality(p3) \in Nat
       /\ Cardinality(u3) = Cardinality(u2) + Cardinality(p3)
  BY <1>8, <1>9, <1>10, AddedTo
<1>12. /\ IsFiniteSet(u4) /\ Cardinality(p4) \in Nat
       /\ Cardinality(u4) = Cardinality(u3) + Cardinality(p4)
  BY <1>8, <1>9, <1>11, AddedTo
<1>13. Cardinality(p5) \in Nat /\ Cardinality(u4 \cup p5) = Cardinality(u4) + Cardinality(p5)
  BY <1>9, <1>12, AddedTo
<1>14. PICK g : g = h
  OBVIOUS
<1>15. /\ g[1] = Cardinality(p1) /\ g[2] = Cardinality(p2) /\ g[3] = Cardinality(p3)
       /\ g[4] = Cardinality(p4) /\ g[5] = Cardinality(p5)
  BY <1>1, <1>7, <1>14, BucketsAre
<1>16. g[1] + g[2] + g[3] + g[4] + g[5] = n
  BY <1>2, <1>9, <1>10, <1>11, <1>12, <1>13, <1>15
<1>17. g[1] \in Int /\ g[2] \in Int /\ g[3] \in Int /\ g[4] \in Int /\ g[5] \in Int
  BY <1>10, <1>11, <1>12, <1>13, <1>15
<1>18. \A b \in {1, 2, 3, 4, 5} : g[b] \in Int
  BY <1>17
<1>19. Sum(g, {}) = 0 /\ IsFiniteSet({})
  BY SumEmpty, FS_EmptySet
<1>20. Sum(g, {1}) = g[1] /\ IsFiniteSet({1})
  <2>1. PICK T : T = {}
    OBVIOUS
  <2>2. T \cup {1} = {1} /\ 1 \notin T /\ IsFiniteSet(T)
    BY <1>19, <2>1
  <2>3. \A y \in T \cup {1} : g[y] \in Int
    BY <1>18, <2>2
  <2>4. Sum(g, T \cup {1}) = g[1] + Sum(g, T) /\ IsFiniteSet(T \cup {1})
    BY <2>2, <2>3, SumAdd, FS_AddElement
  <2> QED
    <3>1. Sum(g, T) = 0
      BY <1>19, <2>1
    <3>2. Sum(g, T \cup {1}) = g[1]
      BY <1>17, <2>4, <3>1
    <3> QED
      BY <2>2, <2>4, <3>2
<1>21. Sum(g, {1, 2}) = g[1] + g[2] /\ IsFiniteSet({1, 2})
  <2>1. PICK T : T = {1}
    OBVIOUS
  <2>2. T \cup {2} = {1, 2} /\ 2 \notin T /\ IsFiniteSet(T)
    BY <1>20, <2>1
  <2>3. \A y \in T \cup {2} : g[y] \in Int
    BY <1>18, <2>2
  <2>4. Sum(g, T \cup {2}) = g[2] + Sum(g, T) /\ IsFiniteSet(T \cup {2})
    BY <2>2, <2>3, SumAdd, FS_AddElement
  <2> QED
    <3>1. Sum(g, T) = g[1]
      BY <1>20, <2>1
    <3>2. Sum(g, T \cup {2}) = g[1] + g[2]
      BY <1>17, <2>4, <3>1
    <3> QED
      BY <2>2, <2>4, <3>2
<1>22. Sum(g, {1, 2, 3}) = g[1] + g[2] + g[3] /\ IsFiniteSet({1, 2, 3})
  <2>1. PICK T : T = {1, 2}
    OBVIOUS
  <2>2. T \cup {3} = {1, 2, 3} /\ 3 \notin T /\ IsFiniteSet(T)
    BY <1>21, <2>1
  <2>3. \A y \in T \cup {3} : g[y] \in Int
    BY <1>18, <2>2
  <2>4. Sum(g, T \cup {3}) = g[3] + Sum(g, T) /\ IsFiniteSet(T \cup {3})
    BY <2>2, <2>3, SumAdd, FS_AddElement
  <2> QED
    <3>1. Sum(g, T) = g[1] + g[2]
      BY <1>21, <2>1
    <3>2. Sum(g, T \cup {3}) = g[1] + g[2] + g[3]
      BY <1>17, <2>4, <3>1
    <3> QED
      BY <2>2, <2>4, <3>2
<1>23. Sum(g, {1, 2, 3, 4}) = g[1] + g[2] + g[3] + g[4] /\ IsFiniteSet({1, 2, 3, 4})
  <2>1. PICK T : T = {1, 2, 3}
    OBVIOUS
  <2>2. T \cup {4} = {1, 2, 3, 4} /\ 4 \notin T /\ IsFiniteSet(T)
    BY <1>22, <2>1
  <2>3. \A y \in T \cup {4} : g[y] \in Int
    BY <1>18, <2>2
  <2>4. Sum(g, T \cup {4}) = g[4] + Sum(g, T) /\ IsFiniteSet(T \cup {4})
    BY <2>2, <2>3, SumAdd, FS_AddElement
  <2> QED
    <3>1. Sum(g, T) = g[1] + g[2] + g[3]
      BY <1>22, <2>1
    <3>2. Sum(g, T \cup {4}) = g[1] + g[2] + g[3] + g[4]
      BY <1>17, <2>4, <3>1
    <3> QED
      BY <2>2, <2>4, <3>2
<1>24. Sum(g, {1, 2, 3, 4, 5}) = g[1] + g[2] + g[3] + g[4] + g[5] /\ IsFiniteSet({1, 2, 3, 4, 5})
  <2>1. PICK T : T = {1, 2, 3, 4}
    OBVIOUS
  <2>2. T \cup {5} = {1, 2, 3, 4, 5} /\ 5 \notin T /\ IsFiniteSet(T)
    BY <1>23, <2>1
  <2>3. \A y \in T \cup {5} : g[y] \in Int
    BY <1>18, <2>2
  <2>4. Sum(g, T \cup {5}) = g[5] + Sum(g, T) /\ IsFiniteSet(T \cup {5})
    BY <2>2, <2>3, SumAdd, FS_AddElement
  <2> QED
    <3>1. Sum(g, T) = g[1] + g[2] + g[3] + g[4]
      BY <1>23, <2>1
    <3>2. Sum(g, T \cup {5}) = g[1] + g[2] + g[3] + g[4] + g[5]
      BY <1>17, <2>4, <3>1
    <3> QED
      BY <2>2, <2>4, <3>2
<1>25. Sum(g, {1, 2, 3, 4, 5}) = n
  BY <1>16, <1>24
<1>26. SumOver({1, 2, 3, 4, 5}, g) = Sum(g, {1, 2, 3, 4, 5})
  BY SumOverIs, Zenon
<1>27. DOMAIN Buckets = {1, 2, 3, 4, 5} /\ g = Histogram(s)
  BY <1>14, BucketsAre DEF h
<1> QED
  BY <1>25, <1>26, <1>27, Zenon

Under(s) == {i \in DOMAIN s : 2 * s[i] <= Median(s)}
Over(s) == {i \in DOMAIN s : 2 * s[i] >= Median(s)}
LEMMA StatsAre ==
  ASSUME RowsHold, NEW s, s = Sorted(InCollege(None))
  PROVE  /\ Len(s) > 0 => 2 * Cardinality(Under(s)) >= Len(s) /\ 2 * Cardinality(Over(s)) >= Len(s)
         /\ Whole(s) => SumOver(DOMAIN Buckets, Histogram(s)) = Len(s)
<1>1. PICK rows : rows = InCollege(None)
  OBVIOUS
<1>2. rows \in SUBSET Results
  BY <1>1 DEF InCollege
<1>3. s = Sorted(rows)
  BY <1>1
<1>4. PICK n : n = Cardinality(rows)
  OBVIOUS
<1>5. n \in Nat /\ s \in [1..n -> Int] /\ Len(s) = n /\ DOMAIN s = 1..n
      /\ \A j, k \in 1..n : j < k => s[j] <= s[k]
  BY <1>2, <1>3, <1>4, SortedIs
<1>6. ASSUME n > 0
      PROVE  2 * Cardinality(Under(s)) >= n /\ 2 * Cardinality(Over(s)) >= n
  <2>1. n \in Nat \ {0}
    BY <1>5, <1>6
  <2>2. /\ 2 * Cardinality({i \in 1..n : 2 * s[i] <= Median(s)}) >= n
        /\ 2 * Cardinality({i \in 1..n : 2 * s[i] >= Median(s)}) >= n
    BY <1>5, <2>1, MedianHalves
  <2>3. /\ Under(s) = {i \in 1..n : 2 * s[i] <= Median(s)}
        /\ Over(s) = {i \in 1..n : 2 * s[i] >= Median(s)}
    BY <1>5 DEF Under, Over
  <2> QED
    BY <2>2, <2>3
<1>7. Whole(s) => SumOver(DOMAIN Buckets, Histogram(s)) = n
  BY <1>5, HistogramCounts
<1> QED
  BY <1>5, <1>6, <1>7

LEMMA StatsDoAgree ==
  ASSUME RowsHold PROVE StatsAgree
<1> DEFINE s == Sorted(InCollege(None))
           whole == {i \in DOMAIN s : s[i] \in 0..10000 /\ s[i] % 100 = 0}
<1>1. /\ Len(s) > 0 => 2 * Cardinality(Under(s)) >= Len(s) /\ 2 * Cardinality(Over(s)) >= Len(s)
      /\ Whole(s) => SumOver(DOMAIN Buckets, Histogram(s)) = Len(s)
  BY StatsAre
<1>2. Len(s) > 0 =>
        /\ 2 * Cardinality({i \in DOMAIN s : 2 * s[i] <= Median(s)}) >= Len(s)
        /\ 2 * Cardinality({i \in DOMAIN s : 2 * s[i] >= Median(s)}) >= Len(s)
  <2> HIDE DEF s
  <2> QED
    BY <1>1 DEF Under, Over
<1>3. (\A i \in DOMAIN s : i \in whole) => Whole(s)
  <2>1. \A i \in whole : WholePct(s[i])
    <3> HIDE DEF s
    <3> QED
      BY DEF WholePct
  <2> HIDE DEF s, whole
  <2> QED
    BY <2>1 DEF Whole
<1>4. (\A i \in DOMAIN s : i \in whole) => SumOver(DOMAIN Buckets, Histogram(s)) = Len(s)
  <2> HIDE DEF s, whole
  <2> QED
    BY <1>1, <1>3
<1> QED
  BY <1>2, <1>4 DEF StatsAgree

(* The roles of the routes these pages use.                                  *)
LEMMA OneTable ==
  ASSUME NEW tables, NEW t \in tables, NEW n \in DOMAIN t,
         \A q \in tables \ {t} : n \notin DOMAIN q
  PROVE  Together(tables)[n] = t[n]
<1>1. {q \in tables : n \in DOMAIN q} = {t}
  OBVIOUS
<1>2. n \in UNION {DOMAIN q : q \in tables}
  OBVIOUS
<1>3. UNION {q[n] : q \in {t}} = t[n]
  OBVIOUS
<1> QED
  BY <1>1, <1>2, <1>3 DEF Together

LEMMA ViewRoles ==
  /\ AnalyticsRoutes["college"] = AdminRoles
  /\ AnalyticsRoutes["student"] = {"STUDENT"} /\ AnalyticsRoutes["studentById"] = StaffRoles
<1> DEFINE A == Route({"platform", "colleges"}, {"SUPER_ADMIN"})
           B == Route({"college"}, AdminRoles)
           C == Route({"student"}, {"STUDENT"})
           D == Route({"leaderboard", "subjects", "topics", "compare"}, Roles)
           E == Route({"departments", "batches", "faculty", "studentById",
                    "assessmentAnalytics", "questionAnalytics", "syllabus"}, StaffRoles)
           T == {A, B, C, D, E}
<1>1. AnalyticsRoutes = Together(T)
  BY DEF AnalyticsRoutes
<1>2. /\ "college" \notin DOMAIN A /\ "college" \in DOMAIN B /\ "college" \notin DOMAIN C
      /\ "college" \notin DOMAIN D /\ "college" \notin DOMAIN E /\ B["college"] = AdminRoles
  BY DEF Route
<1>3. /\ "student" \notin DOMAIN A /\ "student" \notin DOMAIN B /\ "student" \in DOMAIN C
      /\ "student" \notin DOMAIN D /\ "student" \notin DOMAIN E /\ C["student"] = {"STUDENT"}
  BY DEF Route
<1>4. /\ "studentById" \notin DOMAIN A /\ "studentById" \notin DOMAIN B
      /\ "studentById" \notin DOMAIN C /\ "studentById" \notin DOMAIN D
      /\ "studentById" \in DOMAIN E /\ E["studentById"] = StaffRoles
  BY DEF Route
<1>5. A \in T /\ B \in T /\ C \in T /\ D \in T /\ E \in T /\ \A q \in T : q \in {A, B, C, D, E}
  OBVIOUS
<1> HIDE DEF A, B, C, D, E
<1>6. Together(T)["college"] = B["college"]
  <2>1. \A q \in T \ {B} : "college" \notin DOMAIN q
    BY <1>2, <1>5
  <2> HIDE DEF T
  <2> QED
    BY <1>2, <1>5, <2>1, OneTable
<1>7. Together(T)["student"] = C["student"]
  <2>1. \A q \in T \ {C} : "student" \notin DOMAIN q
    BY <1>3, <1>5
  <2> HIDE DEF T
  <2> QED
    BY <1>3, <1>5, <2>1, OneTable
<1>8. Together(T)["studentById"] = E["studentById"]
  <2>1. \A q \in T \ {E} : "studentById" \notin DOMAIN q
    BY <1>4, <1>5
  <2> HIDE DEF T
  <2> QED
    BY <1>4, <1>5, <2>1, OneTable
<1> HIDE DEF T
<1> QED
  BY <1>1, <1>2, <1>3, <1>4, <1>6, <1>7, <1>8

LEMMA RolesAre ==
  /\ \A u \in Users : UserRole[u] \in Roles /\ UserCollege[u] \in Colleges \cup {None}
  /\ StaffRoles # {} /\ AdminRoles # {} /\ AdminRoles \subseteq StaffRoles
  /\ "STUDENT" \notin StaffRoles /\ AdminRoles = {"SUPER_ADMIN", "COLLEGE_ADMIN"}
<1>1. \A u \in Users : UserRole[u] \in Roles /\ UserCollege[u] \in Colleges \cup {None}
  BY EvidenceAssumption
<1> QED
  BY <1>1 DEF StaffRoles, AdminRoles

LEMMA AnalyticsAdmit ==
  ASSUME NEW u \in Users
  PROVE  /\ RoleAdmitted(AnalyticsRoutes["college"], UserRole[u]) => UserRole[u] \in AdminRoles
         /\ RoleAdmitted(AnalyticsRoutes["student"], UserRole[u]) => UserRole[u] = "STUDENT"
         /\ RoleAdmitted(AnalyticsRoutes["studentById"], UserRole[u]) => UserRole[u] \in StaffRoles
  BY ViewRoles, RolesAre DEF RoleAdmitted

\* Reports and exam operations are for staff.
LEMMA StaffOnly ==
  ASSUME NEW u \in Users
  PROVE  /\ \A n \in {"resultReports", "createReport", "deleteReport", "runReport", "cancelJob",
                      "download", "generateInsights", "reviewInsight"} :
                RoleAdmitted(ReportRoutes[n], UserRole[u]) => UserRole[u] \in StaffRoles
         /\ \A n \in {"dashboard", "listReviews", "analytics", "listEvents", "attemptEvents",
                      "exportResults", "reviewEvent"} :
                RoleAdmitted(OperationsRoutes[n], UserRole[u]) => UserRole[u] \in StaffRoles
<1>1. \A n \in {"resultReports", "createReport", "deleteReport", "runReport", "cancelJob",
                "download", "generateInsights", "reviewInsight"} : ReportRoutes[n] = StaffRoles
  BY DEF ReportRoutes, Route
<1>2. \A n \in {"dashboard", "listReviews", "analytics", "listEvents", "attemptEvents",
                "exportResults", "reviewEvent"} : OperationsRoutes[n] = StaffRoles
  BY DEF OperationsRoutes, Route
<1> QED
  BY <1>1, <1>2, RolesAre DEF RoleAdmitted

(* What a step leaves of the invariant.                                      *)
LEMMA ViewsStay ==
  /\ RowsHold /\ UNCHANGED row => RowsHold'
  /\ TablesTyped /\ UNCHANGED <<report, run, insight, shown>> => TablesTyped'
  /\ FilesHold /\ UNCHANGED <<row, run>> => FilesHold'
  /\ CacheHolds /\ UNCHANGED <<row, cache>> => CacheHolds'
  /\ InsightsHold /\ UNCHANGED <<row, insight>> => InsightsHold'
  /\ TenantSeesOwn /\ UNCHANGED <<row, shown>> => TenantSeesOwn'
  /\ BoardHolds /\ UNCHANGED <<row, board>> => BoardHolds'
  /\ JobHasFile /\ UNCHANGED <<run, req>> => JobHasFile'
<1>1. RowsHold /\ UNCHANGED row => RowsHold'
  BY DEF RowsHold, RowsAgree
<1>2. TablesTyped /\ UNCHANGED <<report, run, insight, shown>> => TablesTyped'
  BY DEF TablesTyped
<1>3. FilesHold /\ UNCHANGED <<row, run>> => FilesHold'
  BY DEF FilesHold, Sees
<1>4. CacheHolds /\ UNCHANGED <<row, cache>> => CacheHolds'
  BY DEF CacheHolds, OfCollege
<1>5. InsightsHold /\ UNCHANGED <<row, insight>> => InsightsHold'
  BY DEF InsightsHold, OfCollege
<1>6. TenantSeesOwn /\ UNCHANGED <<row, shown>> => TenantSeesOwn'
  BY DEF TenantSeesOwn
<1>7. BoardHolds /\ UNCHANGED <<row, board>> => BoardHolds'
  BY DEF BoardHolds, BoardTyped, PercentileAgrees, EntryAgrees
<1>8. JobHasFile /\ UNCHANGED <<run, req>> => JobHasFile'
  BY DEF JobHasFile
<1> QED
  BY <1>1, <1>2, <1>3, <1>4, <1>5, <1>6, <1>7, <1>8

LEMMA ServesSame ==
  ASSUME UNCHANGED <<row, run>>, NEW q, Serves(q) PROVE Serves(q)'
  BY DEF Serves, Sees, OfCollege

LEMMA HandlersStay ==
  ASSUME HandlersServe, UNCHANGED <<row, run, req>> PROVE HandlersServe'
<1>1. ASSUME NEW r \in Requests PROVE Serves(req[r])'
  <2>1. PICK q : q = req[r]
    OBVIOUS
  <2>2. Serves(q)
    BY <2>1 DEF HandlersServe
  <2>3. Serves(q)'
    BY <2>2, ServesSame
  <2>4. q = req'[r]
    BY <2>1
  <2> QED
    BY <2>3, <2>4
<1> QED
  BY <1>1 DEF HandlersServe

LEMMA FlagsStay ==
  ASSUME FlagsHold, UNCHANGED <<flags, verdict, marked, crossed>>,
         \A s \in Sessions : Reviewing(s)' = Reviewing(s),
         \A r \in Requests : req[r].op = "marking" => req'[r] = req[r]
  PROVE  FlagsHold'
<1>1. StaffTypeOK'
  BY DEF FlagsHold, StaffTypeOK
<1>2. FlagsFollowVerdict'
  BY DEF FlagsHold, FlagsFollowVerdict
<1>3. OneReview'
  BY DEF FlagsHold, OneReview, Reviewing
<1> QED
  BY <1>1, <1>2, <1>3 DEF FlagsHold

LEMMA IdleServes == NoReq \in ViewHandlers /\ Serves(NoReq) /\ NoReq.op = "idle"
<1>1. NoReq \in ViewHandlers
  BY DEF NoReq, ViewHandlers, ViewOps
<1>2. NoReq.op = "idle"
  BY DEF NoReq
<1> QED
  BY <1>1, <1>2 DEF Serves

LEMMA Replaced ==
  ASSUME HandlersServe, NEW r \in Requests, NEW q \in ViewHandlers, Go(r, q), Serves(q)',
         \A x \in Requests \ {r} : \A p : p = req[x] => Serves(p)'
  PROVE  HandlersServe' /\ req'[r] = q /\ \A x \in Requests \ {r} : req'[x] = req[x]
<1>1. req' \in [Requests -> ViewHandlers] /\ req'[r] = q
      /\ \A x \in Requests \ {r} : req'[x] = req[x]
  BY DEF HandlersServe, Go
<1>2. ASSUME NEW x \in Requests PROVE Serves(req[x])' 
  <2>1. CASE x = r
    <3>1. PICK p : p = q /\ p = req'[x]
      BY <1>1, <2>1
    <3>2. Serves(p)'
      BY <3>1
    <3> QED
      BY <3>1, <3>2
  <2>2. CASE x # r
    <3>1. PICK p : p = req[x]
      OBVIOUS
    <3>2. Serves(p)' /\ p = req'[x]
      BY <1>1, <2>2, <3>1
    <3> QED
      BY <3>2
  <2> QED
    BY <2>1, <2>2
<1> QED
  BY <1>1, <1>2 DEF HandlersServe

(* A handler goes on, without a file to write or flags to mark.              *)
LEMMA Handled ==
  ASSUME HandlersServe, JobHasFile, FlagsHold, UNCHANGED <<row, run, securityRows>>,
         NEW r \in Requests, NEW q \in ViewHandlers, Go(r, q), Serves(q),
         q.op # "marking", req[r].op \notin {"runFile", "marking"}
  PROVE  HandlersServe' /\ JobHasFile' /\ FlagsHold'
<1>1. UNCHANGED <<row, run>> /\ UNCHANGED <<flags, verdict, marked, crossed>>
  BY DEF securityRows
<1>2. Serves(q)'
  BY <1>1, ServesSame
<1>3. \A x \in Requests \ {r} : \A p : p = req[x] => Serves(p)'
  <2>1. ASSUME NEW x \in Requests \ {r}, NEW p, p = req[x] PROVE Serves(p)'
    <3>1. Serves(p)
      BY <2>1 DEF HandlersServe
    <3> QED
      BY <1>1, <3>1, ServesSame
  <2> QED
    BY <2>1
<1>4. HandlersServe' /\ req'[r] = q /\ \A x \in Requests \ {r} : req'[x] = req[x]
  BY <1>2, <1>3, Replaced
<1>5. JobHasFile'
  BY <1>1, <1>4 DEF JobHasFile
<1>6. \A s \in Sessions : Reviewing(s)' = Reviewing(s)
  BY <1>4 DEF Reviewing
<1>7. \A x \in Requests : req[x].op = "marking" => req'[x] = req[x]
  BY <1>4
<1>8. FlagsHold'
  BY <1>1, <1>6, <1>7, FlagsStay
<1> QED
  BY <1>4, <1>5, <1>8

LEMMA NotHandled ==
  ASSUME HandlersServe, JobHasFile, FlagsHold, UNCHANGED <<row, run, securityRows, req>>
  PROVE  HandlersServe' /\ JobHasFile' /\ FlagsHold'
<1>1. UNCHANGED <<row, run, req>> /\ UNCHANGED <<flags, verdict, marked, crossed>>
  BY DEF securityRows
<1>2. \A s \in Sessions : Reviewing(s)' = Reviewing(s)
  BY <1>1 DEF Reviewing
<1>3. FlagsHold'
  BY <1>1, <1>2, FlagsStay
<1> QED
  BY <1>1, <1>3, HandlersStay, ViewsStay

(* An answer of rows its user may see.                                       *)
LEMMA ShownTo ==
  ASSUME TablesTyped, UNCHANGED <<row, report, run, insight>>,
         NEW u \in Users, NEW rows, Sees(u, rows), Show(u, rows)
  PROVE  TablesTyped' /\ TenantSeesOwn'
<1>1. shown' = [user |-> u, rows |-> rows] /\ rows \in SUBSET Results
  BY DEF Show, Sees
<1>2. TablesTyped'
  BY <1>1 DEF TablesTyped
<1>3. shown'.user = u /\ shown'.rows = rows
  BY <1>1
<1>4. TenantSeesOwn'
  BY <1>3 DEF TenantSeesOwn, Sees
<1> QED
  BY <1>2, <1>4

(* A step that only shows something.                                         *)
LEMMA JustShown ==
  ASSUME ViewsInv, NEW u \in Users, NEW rows, Sees(u, rows), Show(u, rows),
         UNCHANGED <<row, report, run, cache, insight, board, req, securityRows>>
  PROVE  ViewsInv'
<1>1. UNCHANGED row /\ UNCHANGED <<row, report, run, insight>> /\ UNCHANGED <<row, run>>
      /\ UNCHANGED <<row, cache>> /\ UNCHANGED <<row, insight>> /\ UNCHANGED <<row, board>>
      /\ UNCHANGED <<row, run, securityRows, req>>
  OBVIOUS
<1>2. HandlersServe' /\ JobHasFile' /\ FlagsHold'
  BY <1>1, NotHandled DEF ViewsInv
<1>3. TablesTyped' /\ TenantSeesOwn'
  BY <1>1, ShownTo DEF ViewsInv
<1>4. RowsHold' /\ FilesHold' /\ CacheHolds' /\ InsightsHold' /\ BoardHolds'
  BY <1>1, ViewsStay DEF ViewsInv
<1> QED
  BY <1>2, <1>3, <1>4 DEF ViewsInv

(* A step that only takes a handler on.                                      *)
LEMMA JustHandled ==
  ASSUME ViewsInv, UNCHANGED <<row, reportRows, securityRows>>,
         NEW r \in Requests, NEW q \in ViewHandlers, Go(r, q), Serves(q),
         q.op # "marking", req[r].op \notin {"runFile", "marking"}
  PROVE  ViewsInv'
<1>1. UNCHANGED row /\ UNCHANGED <<report, run, insight, shown>> /\ UNCHANGED <<row, run>>
      /\ UNCHANGED <<row, cache>> /\ UNCHANGED <<row, insight>> /\ UNCHANGED <<row, board>>
      /\ UNCHANGED <<row, shown>> /\ UNCHANGED <<row, run, securityRows>>
  BY DEF reportRows
<1>2. HandlersServe' /\ JobHasFile' /\ FlagsHold'
  BY <1>1, Handled DEF ViewsInv
<1>3. RowsHold' /\ FilesHold' /\ CacheHolds' /\ InsightsHold' /\ BoardHolds' /\ TablesTyped'
      /\ TenantSeesOwn'
  BY <1>1, ViewsStay DEF ViewsInv
<1> QED
  BY <1>2, <1>3 DEF ViewsInv

(* What the scopes let a user see.                                           *)
LEMMA ScopeRows ==
  ASSUME NEW c PROVE OfCollege(InCollege(c), c)
  BY DEF OfCollege, InCollege

LEMMA ScopeSeen ==
  ASSUME NEW u \in Users, UserRole[u] \in StaffRoles, NEW c, ScopeAllowed(u, c), NEW rows,
         OfCollege(rows, ScopeCollege(u, c))
  PROVE  Sees(u, rows)
<1>1. UserRole[u] # "STUDENT"
  BY RolesAre
<1>2. CASE UserRole[u] = "SUPER_ADMIN"
  BY <1>1, <1>2 DEF Sees, OfCollege
<1>3. CASE UserRole[u] # "SUPER_ADMIN"
  <2>1. UserCollege[u] # None /\ c \in {UserCollege[u], None}
    BY <1>3 DEF ScopeAllowed
  <2>2. ScopeCollege(u, c) = UserCollege[u]
    BY <2>1 DEF ScopeCollege
  <2> QED
    BY <1>1, <2>1, <2>2 DEF Sees, OfCollege
<1> QED
  BY <1>2, <1>3

LEMMA OwnCollegeSeen ==
  ASSUME NEW u \in Users, UserRole[u] \in StaffRoles, HasCollege(u), NEW c
  PROVE  Sees(u, OperationsScope(u, c))
<1>1. UserRole[u] # "STUDENT"
  BY RolesAre
<1>2. CASE UserRole[u] = "SUPER_ADMIN"
  BY <1>1, <1>2 DEF Sees, OperationsScope, InCollege
<1>3. CASE UserRole[u] # "SUPER_ADMIN"
  <2>1. UserCollege[u] # None
    BY <1>3 DEF HasCollege
  <2> QED
    BY <1>1, <1>3, <2>1 DEF Sees, OperationsScope, InCollege
<1> QED
  BY <1>2, <1>3

LEMMA FewerSeen ==
  ASSUME NEW u, NEW rows, Sees(u, rows), NEW fewer \in SUBSET rows
  PROVE  Sees(u, fewer)
  BY DEF Sees

LEMMA AssessmentSeen ==
  ASSUME RowsHold, NEW u \in Users, NEW a \in Assessments, ManagementAccess(u, a)
  PROVE  Sees(u, RowsOf(a))
<1>1. UserRole[u] # "STUDENT"
  BY RolesAre DEF ManagementAccess
<1>2. \A x \in RowsOf(a) : x \in Results /\ row[x].college = AssessmentCollege[a]
  BY RowIs DEF RowsOf
<1> QED
  BY <1>1, <1>2 DEF Sees, ManagementAccess

LEMMA StudentSeen ==
  ASSUME RowsHold, NEW u \in Users, NEW s \in Users,
         u = s \/ (UserRole[u] \in StaffRoles /\ EnsureStudentVisible(u, s))
  PROVE  Sees(u, StudentVisible(s))
<1>1. \A x \in StudentVisible(s) :
          x \in Results /\ row[x].student = s /\ row[x].college = UserCollege[s]
  BY RowIs DEF StudentVisible
<1>2. CASE u = s
  BY <1>1, <1>2 DEF Sees
<1>3. CASE UserRole[u] \in StaffRoles /\ EnsureStudentVisible(u, s)
  <2>1. UserRole[u] # "STUDENT"
    BY <1>3, RolesAre
  <2>2. UserRole[u] # "SUPER_ADMIN" => UserCollege[s] = UserCollege[u]
    BY <1>3 DEF EnsureStudentVisible
  <2> QED
    BY <1>1, <2>1, <2>2 DEF Sees
<1> QED
  BY <1>2, <1>3

LEMMA BoardSeen ==
  ASSUME RowsHold, NEW u \in Users, NEW a \in Assessments, AssessmentInScope(u, a)
  PROVE  Sees(u, Eligible(u, a))
<1>1. \A x \in Eligible(u, a) : x \in Results /\ row[x].college = AssessmentCollege[a]
  BY RowIs DEF Eligible
<1>2. UserRole[u] = "STUDENT" => \A x \in Eligible(u, a) : row[x].student = u
  BY DEF Eligible
<1>3. UserRole[u] # "SUPER_ADMIN" => AssessmentCollege[a] = UserCollege[u]
  BY DEF AssessmentInScope
<1> QED
  BY <1>1, <1>2, <1>3 DEF Sees

(* Views of rows.                                                            *)
LEMMA ViewKeeps ==
  ASSUME ViewsInv, NEW u \in Users, NEW routes, NEW route, NEW rows, Sees(u, rows),
         View(u, routes, route, rows)
  PROVE  ViewsInv'
<1>1. Show(u, rows) /\ UNCHANGED <<row, report, run, cache, insight, board, req, securityRows>>
  BY DEF View
<1> QED
  BY <1>1, JustShown

LEMMA ReportShown ==
  ASSUME ViewsInv, UNCHANGED securityRows, NEW u \in Users, NEW c \in Colleges \cup {None},
         ResultReports(u, c)
  PROVE  ViewsInv'
<1>1. UserRole[u] \in StaffRoles
  BY StaffOnly DEF ResultReports, Quick
<1>2. Sees(u, InCollege(ScopeCollege(u, c)))
  BY <1>1, ScopeRows, ScopeSeen DEF ResultReports
<1>3. /\ Show(u, InCollege(ScopeCollege(u, c)))
      /\ UNCHANGED <<row, report, run, cache, insight, board, req, securityRows>>
  BY DEF ResultReports
<1> QED
  BY <1>2, <1>3, JustShown

LEMMA DownloadShown ==
  ASSUME ViewsInv, UNCHANGED securityRows, NEW u \in Users, NEW j \in 1..MaxRuns,
         DownloadReport(u, j)
  PROVE  ViewsInv'
<1>1. UserRole[u] \in StaffRoles /\ UserRole[u] # "STUDENT"
  BY StaffOnly, RolesAre DEF DownloadReport, Quick
<1>2. run[j].file /\ FileInScope(u, j)
  BY DEF DownloadReport
<1>3. Sees(run[j].requester, run[j].rows)
  BY <1>2 DEF ViewsInv, FilesHold
<1>4. Sees(u, run[j].rows)
  <2>1. CASE UserRole[u] = "SUPER_ADMIN"
    BY <1>1, <1>3, <2>1 DEF Sees
  <2>2. CASE UserRole[u] # "SUPER_ADMIN"
    <3>1. run[j].requester = u
      BY <1>2, <2>2 DEF FileInScope
    <3> QED
      BY <1>3, <3>1
  <2> QED
    BY <2>1, <2>2
<1>5. /\ Show(u, run[j].rows)
      /\ UNCHANGED <<row, report, run, cache, insight, board, req, securityRows>>
  BY DEF DownloadReport
<1> QED
  BY <1>4, <1>5, JustShown

LEMMA StudentShown ==
  ASSUME ViewsInv, UNCHANGED securityRows, NEW u \in Users, NEW s \in Users,
         StudentAnalytics(u, s)
  PROVE  ViewsInv'
<1>1. u = s \/ (UserRole[u] \in StaffRoles /\ EnsureStudentVisible(u, s))
  BY AnalyticsAdmit DEF StudentAnalytics, Quick
<1>2. Sees(u, StudentVisible(s))
  BY <1>1, StudentSeen DEF ViewsInv
<1>3. /\ Show(u, StudentVisible(s))
      /\ UNCHANGED <<row, report, run, cache, insight, board, req, securityRows>>
  BY DEF StudentAnalytics
<1> QED
  BY <1>2, <1>3, JustShown

LEMMA ResultsShown ==
  ASSUME ViewsInv, NEW u \in Users, NEW a \in Assessments, AssessmentResults(u, a)
  PROVE  ViewsInv'
<1>1. Sees(u, RowsOf(a))
  BY AssessmentSeen DEF AssessmentResults, ViewsInv
<1>2. CASE \E route \in {"listResults", "attempts"} : View(u, ResultRoutes, route, RowsOf(a))
  BY <1>1, <1>2, ViewKeeps
<1>3. CASE \E x \in RowsOf(a) : View(u, ResultRoutes, "attemptResult", {x})
  <2>1. PICK x \in RowsOf(a) : View(u, ResultRoutes, "attemptResult", {x})
    BY <1>3
  <2>2. {x} \in SUBSET RowsOf(a)
    BY <2>1
  <2>3. Sees(u, {x})
    BY <1>1, <2>2, FewerSeen
  <2> QED
    BY <2>1, <2>3, ViewKeeps
<1> QED
  BY <1>2, <1>3 DEF AssessmentResults

LEMMA OperationsShown ==
  ASSUME ViewsInv, NEW u \in Users, NEW c, HasCollege(u), NEW routes, NEW route, NEW fewer,
         fewer \subseteq OperationsScope(u, c), View(u, routes, route, fewer),
         UserRole[u] \in StaffRoles
  PROVE  ViewsInv'
<1>1. Sees(u, OperationsScope(u, c))
  BY OwnCollegeSeen
<1>2. Sees(u, fewer)
  BY <1>1, FewerSeen
<1> QED
  BY <1>2, ViewKeeps

LEMMA StaffShown ==
  ASSUME ViewsInv, NEW u \in Users,
         \/ ReviewList(u) \/ OperationsAnalytics(u) \/ SecuritySummary(u)
         \/ \E a \in Assessments : ExportResults(u, a)
         \/ \E c \in Colleges \cup {None} : OperationsDashboard(u, c)
  PROVE  ViewsInv'
<1>1. CASE ReviewList(u)
  BY <1>1, OperationsShown DEF ReviewList
<1>2. CASE OperationsAnalytics(u)
  <2>1. View(u, OperationsRoutes, "analytics", OperationsScope(u, None)) /\ HasCollege(u)
    BY <1>2 DEF OperationsAnalytics
  <2>2. UserRole[u] \in StaffRoles
    BY <2>1, StaffOnly DEF View, Quick
  <2> QED
    BY <2>1, <2>2, OperationsShown
<1>3. CASE SecuritySummary(u)
  <2>1. PICK route \in {"listEvents", "attemptEvents"} :
            View(u, OperationsRoutes, route, OperationsScope(u, None)) /\ HasCollege(u)
    BY <1>3 DEF SecuritySummary
  <2>2. UserRole[u] \in StaffRoles
    BY <2>1, StaffOnly DEF View, Quick
  <2> QED
    BY <2>1, <2>2, OperationsShown
<1>4. CASE \E a \in Assessments : ExportResults(u, a)
  <2>1. PICK a \in Assessments : ExportResults(u, a)
    BY <1>4
  <2>2. /\ View(u, OperationsRoutes, "exportResults", RowsOf(a) \cap OperationsScope(u, None))
        /\ HasCollege(u)
    BY <2>1 DEF ExportResults
  <2>3. UserRole[u] \in StaffRoles
    BY <2>2, StaffOnly DEF View, Quick
  <2>4. RowsOf(a) \cap OperationsScope(u, None) \subseteq OperationsScope(u, None)
    OBVIOUS
  <2> QED
    BY <2>2, <2>3, <2>4, OperationsShown
<1>5. CASE \E c \in Colleges \cup {None} : OperationsDashboard(u, c)
  <2>1. PICK c \in Colleges \cup {None} : OperationsDashboard(u, c)
    BY <1>5
  <2>2. PICK route \in {"dashboard", "listReviews"} :
            View(u, OperationsRoutes, route, OperationsScope(u, c)) /\ HasCollege(u)
    BY <2>1 DEF OperationsDashboard
  <2>3. UserRole[u] \in StaffRoles
    BY <2>2, StaffOnly DEF View, Quick
  <2> QED
    BY <2>2, <2>3, OperationsShown
<1> QED
  BY <1>1, <1>2, <1>3, <1>4, <1>5

(* Handlers.                                                                 *)
LEMMA Starts ==
  ASSUME NEW r \in Requests, NEW u, NEW routes, NEW route, Call(r, u, routes, route)
  PROVE  req[r].op = "idle" /\ RoleAdmitted(routes[route], UserRole[u])
<1>1. req[r] = NoReq /\ RoleAdmitted(routes[route], UserRole[u])
  BY DEF Call
<1> QED
  BY <1>1, IdleServes

LEMMA RunReportKeeps ==
  ASSUME ViewsInv, UNCHANGED securityRows, NEW r \in Requests, NEW u \in Users,
         NEW i \in 1..MaxReports, NEW c \in Colleges \cup {None}, RunReport(r, u, i, c)
  PROVE  ViewsInv'
<1> DEFINE q == [NoReq EXCEPT !.op = "runJob", !.user = u, !.ids = InCollege(ScopeCollege(u, c)),
                 !.data = report[i].college]
<1>1. req[r].op = "idle" /\ UserRole[u] \in StaffRoles
  BY Starts, StaffOnly DEF RunReport
<1>2. Sees(u, InCollege(ScopeCollege(u, c)))
  BY <1>1, ScopeRows, ScopeSeen DEF RunReport
<1>3. report[i].college \in Colleges \cup {None}
  <2>1. report[i] \in ReportColumns
    BY DEF ViewsInv, TablesTyped
  <2> QED
    BY <2>1 DEF ReportColumns
<1>4. InCollege(ScopeCollege(u, c)) \in SUBSET Results
  BY DEF InCollege
<1>5. q \in ViewHandlers /\ q.op = "runJob" /\ q.user = u /\ q.data = report[i].college
      /\ q.ids = InCollege(ScopeCollege(u, c))
  BY <1>3, <1>4 DEF NoReq, ViewHandlers, ViewOps
<1>6. Go(r, q) /\ UNCHANGED <<row, reportRows, securityRows>>
  BY DEF RunReport
<1> HIDE DEF q
<1>7. Serves(q)
  BY <1>2, <1>3, <1>5 DEF Serves
<1> QED
  BY <1>1, <1>5, <1>6, <1>7, JustHandled

LEMMA LeaderboardKeeps ==
  ASSUME ViewsInv, UNCHANGED securityRows, NEW r \in Requests, NEW u \in Users,
         NEW a \in Assessments, Leaderboard(r, u, a)
  PROVE  ViewsInv'
<1> DEFINE q == [NoReq EXCEPT !.op = "board", !.user = u, !.ids = Eligible(u, a)]
<1>1. req[r].op = "idle"
  BY Starts DEF Leaderboard
<1>2. Sees(u, Eligible(u, a))
  BY BoardSeen DEF Leaderboard, ViewsInv
<1>3. Eligible(u, a) \in SUBSET Results
  BY DEF Eligible
<1>4. q \in ViewHandlers /\ q.op = "board" /\ q.user = u /\ q.ids = Eligible(u, a)
  BY <1>3 DEF NoReq, ViewHandlers, ViewOps
<1>5. Go(r, q) /\ UNCHANGED <<row, reportRows, securityRows>>
  BY DEF Leaderboard
<1> HIDE DEF q
<1>6. Serves(q)
  BY <1>2, <1>4 DEF Serves
<1> QED
  BY <1>1, <1>4, <1>5, <1>6, JustHandled

LEMMA CollegeServes ==
  ASSUME ViewsInv, NEW r \in Requests, NEW u \in Users, UserRole[u] \in AdminRoles,
         NEW c \in Colleges \cup {None}, NEW then \in {"answer", "insight"}, College(r, u, c, then)
  PROVE  \E q \in ViewHandlers : Go(r, q) /\ Serves(q) /\ q.op # "marking"
<1> DEFINE k == CacheKey(u, c)
           rows == InCollege(ScopeCollege(u, c))
<1>1. ScopeAllowed(u, c)
  BY DEF College
<1>2. OfCollege(rows, ScopeCollege(u, c)) /\ rows \in SUBSET Results
  BY ScopeRows DEF InCollege
<1>3. k \in DOMAIN cache => OfCollege(cache[k], ScopeCollege(u, c)) /\ cache[k] \in SUBSET Results
  <2>1. k[3] = c /\ k[2] = UserCollege[u]
    BY DEF CacheKey
  <2>2. ScopeCollege(u, c) = IF k[3] # None THEN k[3] ELSE k[2]
    BY <2>1 DEF ScopeCollege
  <2> HIDE DEF k
  <2>3. k \in DOMAIN cache => OfCollege(cache[k], ScopeCollege(u, c))
    BY <2>2 DEF ViewsInv, CacheHolds
  <2> QED
    BY <2>3 DEF OfCollege
<1> HIDE DEF k, rows
<1>4. ASSUME NEW ids \in SUBSET Results, OfCollege(ids, ScopeCollege(u, c)),
             NEW op \in {"fill", "answer", "insight"},
             Go(r, IF op = "fill"
                   THEN [NoReq EXCEPT !.op = "fill", !.user = u, !.data = c, !.ids = ids, !.then = then]
                   ELSE [NoReq EXCEPT !.op = op, !.user = u, !.data = c, !.ids = ids])
      PROVE  \E q \in ViewHandlers : Go(r, q) /\ Serves(q) /\ q.op # "marking"
  <2> DEFINE q == IF op = "fill"
                   THEN [NoReq EXCEPT !.op = "fill", !.user = u, !.data = c, !.ids = ids, !.then = then]
                   ELSE [NoReq EXCEPT !.op = op, !.user = u, !.data = c, !.ids = ids]
  <2>1. /\ q \in ViewHandlers /\ q.op = op /\ q.user = u /\ q.data = c /\ q.ids = ids
        /\ op = "fill" => q.then = then
    BY ZenonT(30) DEF NoReq, ViewHandlers, ViewOps
  <2>2. Go(r, q)
    BY <1>4
  <2> HIDE DEF q
  <2>3. Serves(q)
    BY <1>1, <1>4, <2>1 DEF Serves
  <2> QED
    BY <2>1, <2>2, <2>3
<1>5. \/ k \in DOMAIN cache /\ Go(r, [NoReq EXCEPT !.op = then, !.user = u, !.data = c, !.ids = cache[k]])
      \/ Go(r, [NoReq EXCEPT !.op = "fill", !.user = u, !.data = c, !.ids = rows, !.then = then])
      \/ Go(r, [NoReq EXCEPT !.op = then, !.user = u, !.data = c, !.ids = rows])
  BY DEF College, k, rows
<1>6. then # "fill" /\ then \in {"fill", "answer", "insight"}
  BY SMTT(30)
<1>7. CASE k \in DOMAIN cache
           /\ Go(r, [NoReq EXCEPT !.op = then, !.user = u, !.data = c, !.ids = cache[k]])
  <2>1. PICK ids : ids = cache[k]
    BY SMTT(20)
  <2> QED
    BY <1>3, <1>4, <1>6, <1>7, <2>1
<1>8. CASE Go(r, [NoReq EXCEPT !.op = "fill", !.user = u, !.data = c, !.ids = rows, !.then = then])
  BY <1>2, <1>4, <1>8, ZenonT(30)
<1>9. CASE Go(r, [NoReq EXCEPT !.op = then, !.user = u, !.data = c, !.ids = rows])
  BY <1>2, <1>4, <1>6, <1>9
<1> QED
  BY <1>5, <1>7, <1>8, <1>9

LEMMA CollegeKeeps ==
  ASSUME ViewsInv, UNCHANGED securityRows, NEW r \in Requests, NEW u \in Users,
         NEW c \in Colleges \cup {None}, CollegeAnalytics(r, u, c) \/ GenerateInsights(r, u, c)
  PROVE  ViewsInv'
<1>1. req[r].op = "idle" /\ UserRole[u] \in AdminRoles
  BY Starts, AnalyticsAdmit DEF CollegeAnalytics, GenerateInsights
<1>2. ScopeCollege(u, c) \in Colleges \cup {None}
  BY RolesAre DEF ScopeCollege
<1>3. \E d \in Colleges \cup {None}, then \in {"answer", "insight"} : College(r, u, d, then)
  <2>1. CASE CollegeAnalytics(r, u, c)
    BY <2>1 DEF CollegeAnalytics
  <2>2. CASE GenerateInsights(r, u, c)
    BY <1>2, <2>2 DEF GenerateInsights
  <2> QED
    BY <2>1, <2>2
<1>4. \E q \in ViewHandlers : Go(r, q) /\ Serves(q) /\ q.op # "marking"
  BY <1>1, <1>3, CollegeServes
<1>5. UNCHANGED <<row, reportRows, securityRows>>
  BY DEF CollegeAnalytics, GenerateInsights
<1> QED
  BY <1>1, <1>4, <1>5, JustHandled

(* Dashboards and insights.                                                  *)
\* What a handler has read is of a user that may see it.
LEMMA HandlerIs ==
  ASSUME ViewsInv, NEW r \in Requests
  PROVE  req[r] \in ViewHandlers /\ Serves(req[r])
  BY DEF ViewsInv, HandlersServe

LEMMA DoneIdle ==
  ASSUME ViewsInv, UNCHANGED <<row, run, securityRows>>, NEW r \in Requests, Done(r),
         req[r].op \notin {"runFile", "marking"}
  PROVE  HandlersServe' /\ JobHasFile' /\ FlagsHold'
<1>1. Go(r, NoReq) /\ NoReq \in ViewHandlers /\ Serves(NoReq) /\ NoReq.op # "marking"
  BY IdleServes DEF Done, Go
<1> QED
  BY <1>1, Handled DEF ViewsInv

LEMMA DashboardSeen ==
  ASSUME ViewsInv, NEW r \in Requests, req[r].op \in {"fill", "answer", "insight"}
  PROVE  req[r].user \in Users /\ Sees(req[r].user, req[r].ids)
<1>1. PICK q : q = req[r]
  OBVIOUS
<1>2. /\ q.user \in Users /\ UserRole[q.user] \in AdminRoles
      /\ ScopeAllowed(q.user, q.data) /\ OfCollege(q.ids, ScopeCollege(q.user, q.data))
  BY <1>1, HandlerIs DEF Serves
<1>3. UserRole[q.user] \in StaffRoles
  BY <1>2, RolesAre
<1>4. Sees(q.user, q.ids)
  BY <1>2, <1>3, ScopeSeen
<1> QED
  BY <1>1, <1>2, <1>4

LEMMA AnswerKeeps ==
  ASSUME ViewsInv, UNCHANGED securityRows, NEW r \in Requests, Answer(r)
  PROVE  ViewsInv'
<1>1. /\ req[r].op = "answer" /\ Done(r) /\ Show(req[r].user, req[r].ids)
      /\ UNCHANGED <<row, report, run, insight>> /\ UNCHANGED <<row, run, securityRows>>
      /\ UNCHANGED row /\ UNCHANGED <<row, run>> /\ UNCHANGED <<row, cache>>
      /\ UNCHANGED <<row, insight>> /\ UNCHANGED <<row, board>>
  BY DEF Answer
<1>2. HandlersServe' /\ JobHasFile' /\ FlagsHold'
  BY <1>1, DoneIdle
<1>3. req[r].user \in Users /\ Sees(req[r].user, req[r].ids)
  BY <1>1, DashboardSeen
<1>4. TablesTyped' /\ TenantSeesOwn'
  BY <1>1, <1>3, ShownTo DEF ViewsInv
<1>5. RowsHold' /\ FilesHold' /\ CacheHolds' /\ InsightsHold' /\ BoardHolds'
  BY <1>1, ViewsStay DEF ViewsInv
<1> QED
  BY <1>2, <1>4, <1>5 DEF ViewsInv

LEMMA CacheFillKeeps ==
  ASSUME ViewsInv, UNCHANGED securityRows, NEW r \in Requests, CacheFill(r)
  PROVE  ViewsInv'
<1>1. PICK q : q = req[r]
  OBVIOUS
<1>2. /\ q \in ViewHandlers /\ q.op = "fill" /\ q.user \in Users /\ UserRole[q.user] \in AdminRoles
      /\ q.data \in Colleges \cup {None} /\ ScopeAllowed(q.user, q.data)
      /\ OfCollege(q.ids, ScopeCollege(q.user, q.data)) /\ q.then \in {"answer", "insight"}
  BY <1>1, HandlerIs DEF Serves, CacheFill
<1>3. PICK p : p = [q EXCEPT !.op = q.then]
  OBVIOUS
<1>4. /\ p \in ViewHandlers /\ p.op = q.then /\ p.user = q.user /\ p.data = q.data
      /\ p.ids = q.ids /\ p.op # "marking"
  BY <1>2, <1>3 DEF ViewHandlers, ViewOps
<1>5. Serves(p)
  BY <1>2, <1>4 DEF Serves
<1>6. Go(r, p)
  <2>1. req \in [Requests -> ViewHandlers] /\ req' = [req EXCEPT ![r].op = req[r].then]
    BY DEF CacheFill, Step, ViewsInv, HandlersServe
  <2> QED
    BY <1>1, <1>3, <2>1 DEF Go
<1>7. UNCHANGED <<row, run, securityRows>> /\ UNCHANGED row /\ UNCHANGED <<report, run, insight, shown>>
      /\ UNCHANGED <<row, run>> /\ UNCHANGED <<row, insight>> /\ UNCHANGED <<row, shown>>
      /\ UNCHANGED <<row, board>> /\ req[r].op \notin {"runFile", "marking"}
  BY DEF CacheFill
<1>8. HandlersServe' /\ JobHasFile' /\ FlagsHold'
  BY <1>4, <1>5, <1>6, <1>7, Handled DEF ViewsInv
<1>9. CacheHolds'
  <2>1. PICK key : key = CacheKey(q.user, q.data)
    OBVIOUS
  <2>2. cache' = [k \in DOMAIN cache \cup {key} |-> IF k = key THEN q.ids ELSE cache[k]]
    BY <1>1, <2>1 DEF CacheFill
  <2>3. key \in CacheKeys /\ key[3] = q.data /\ key[2] = UserCollege[q.user]
    BY <1>2, <2>1, RolesAre DEF CacheKey, CacheKeys
  <2>4. OfCollege(q.ids, IF key[3] # None THEN key[3] ELSE key[2])
    BY <1>2, <2>3 DEF ScopeCollege
  <2>5. DOMAIN cache' \subseteq CacheKeys
    BY <2>2, <2>3 DEF ViewsInv, CacheHolds
  <2>6. ASSUME NEW k \in DOMAIN cache'
        PROVE  OfCollege(cache'[k], IF k[3] # None THEN k[3] ELSE k[2])
    <3>1. CASE k = key
      BY <2>2, <2>4, <3>1
    <3>2. CASE k # key
      <4>1. k \in DOMAIN cache /\ cache'[k] = cache[k]
        BY <2>2, <3>2
      <4>2. OfCollege(cache[k], IF k[3] # None THEN k[3] ELSE k[2])
        BY <4>1 DEF ViewsInv, CacheHolds
      <4> QED
        BY <4>1, <4>2
    <3> QED
      BY <3>1, <3>2
  <2>7. \A k \in DOMAIN cache' : OfCollege(cache'[k], IF k[3] # None THEN k[3] ELSE k[2])
    BY <2>6
  <2> QED
    BY <1>7, <2>5, <2>7 DEF CacheHolds, OfCollege
<1>10. RowsHold' /\ TablesTyped' /\ FilesHold' /\ InsightsHold' /\ BoardHolds' /\ TenantSeesOwn'
  BY <1>7, ViewsStay DEF ViewsInv
<1> QED
  BY <1>8, <1>9, <1>10 DEF ViewsInv

LEMMA CacheExpiresKeeps ==
  ASSUME ViewsInv, UNCHANGED securityRows, NEW k \in CacheKeys, CacheExpires(k)
  PROVE  ViewsInv'
<1>1. UNCHANGED <<row, run, securityRows, req>> /\ UNCHANGED row
      /\ UNCHANGED <<report, run, insight, shown>> /\ UNCHANGED <<row, run>>
      /\ UNCHANGED <<row, insight>> /\ UNCHANGED <<row, shown>> /\ UNCHANGED <<row, board>>
  BY DEF CacheExpires
<1>2. cache' = [q \in DOMAIN cache \ {k} |-> cache[q]]
  BY DEF CacheExpires
<1>3. DOMAIN cache' \subseteq DOMAIN cache /\ \A q \in DOMAIN cache' : cache'[q] = cache[q]
  BY <1>2
<1>4. DOMAIN cache \subseteq CacheKeys
      /\ \A q \in DOMAIN cache : OfCollege(cache[q], IF q[3] # None THEN q[3] ELSE q[2])
  BY DEF ViewsInv, CacheHolds
<1>5. CacheHolds'
  BY <1>1, <1>3, <1>4 DEF CacheHolds, OfCollege
<1>6. HandlersServe' /\ JobHasFile' /\ FlagsHold'
  BY <1>1, NotHandled DEF ViewsInv
<1>7. RowsHold' /\ TablesTyped' /\ FilesHold' /\ InsightsHold' /\ BoardHolds' /\ TenantSeesOwn'
  BY <1>1, ViewsStay DEF ViewsInv
<1> QED
  BY <1>5, <1>6, <1>7 DEF ViewsInv

LEMMA TablesFree ==
  ASSUME TablesTyped
  PROVE  /\ HasFree(report, NoReport) => /\ Free(report, NoReport) \in 1..MaxReports
                                         /\ report[Free(report, NoReport)] = NoReport
         /\ HasFree(run, NoRun) => Free(run, NoRun) \in 1..MaxRuns /\ run[Free(run, NoRun)] = NoRun
         /\ HasFree(insight, NoInsight) => Free(insight, NoInsight) \in 1..MaxInsights
<1>1. /\ DOMAIN report = 1..MaxReports /\ DOMAIN run = 1..MaxRuns /\ DOMAIN insight = 1..MaxInsights
      /\ 1..MaxReports \in SUBSET Nat /\ 1..MaxRuns \in SUBSET Nat /\ 1..MaxInsights \in SUBSET Nat
  BY ReportBounds DEF TablesTyped
<1>2. HasFree(report, NoReport) => /\ Free(report, NoReport) \in DOMAIN report
                                   /\ report[Free(report, NoReport)] = NoReport
  BY <1>1, FreeIsFree
<1>3. HasFree(run, NoRun) => Free(run, NoRun) \in DOMAIN run /\ run[Free(run, NoRun)] = NoRun
  BY <1>1, FreeIsFree
<1>4. HasFree(insight, NoInsight) => Free(insight, NoInsight) \in DOMAIN insight
  BY <1>1, FreeIsFree
<1> QED
  BY <1>1, <1>2, <1>3, <1>4

LEMMA WriteInsightKeeps ==
  ASSUME ViewsInv, UNCHANGED securityRows, NEW r \in Requests, WriteInsight(r)
  PROVE  ViewsInv'
<1>1. PICK q : q = req[r]
  OBVIOUS
<1>2. /\ q \in ViewHandlers /\ q.op = "insight" /\ q.user \in Users
      /\ q.data \in Colleges \cup {None} /\ OfCollege(q.ids, ScopeCollege(q.user, q.data))
  BY <1>1, HandlerIs DEF Serves, WriteInsight
<1>3. PICK j : j = Free(insight, NoInsight)
  OBVIOUS
<1>4. j \in 1..MaxInsights
  BY <1>3, TablesFree DEF WriteInsight, ViewsInv
<1>5. (PassRate(q.ids) < 60) \in BOOLEAN
  OBVIOUS
<1>6. PICK e : e = [college |-> q.data, basis |-> q.ids, weak |-> PassRate(q.ids) < 60,
                    status |-> "PENDING_REVIEW"]
  OBVIOUS
<1>7. insight' = [insight EXCEPT ![j] = e]
  BY <1>1, <1>3, <1>6 DEF WriteInsight
<1>8. e \in InsightColumns /\ e.college = q.data /\ e.basis = q.ids
  BY <1>2, <1>5, <1>6 DEF InsightColumns, OfCollege
<1>9. OfCollege(e.basis, e.college)
  BY <1>2, <1>8 DEF OfCollege, ScopeCollege
<1>10. UNCHANGED <<row, run, securityRows>> /\ UNCHANGED row /\ UNCHANGED <<report, run, shown>>
       /\ UNCHANGED <<row, run>> /\ UNCHANGED <<row, cache>> /\ UNCHANGED <<row, shown>>
       /\ UNCHANGED <<row, board>> /\ req[r].op \notin {"runFile", "marking"} /\ Done(r)
  BY DEF WriteInsight
<1>11. insight \in [1..MaxInsights -> InsightColumns]
  BY DEF ViewsInv, TablesTyped
<1>12. insight' \in [1..MaxInsights -> InsightColumns] /\ insight'[j] = e
       /\ \A i \in 1..MaxInsights : i # j => insight'[i] = insight[i]
  BY <1>4, <1>7, <1>8, <1>11
<1>13. TablesTyped'
  BY <1>10, <1>12 DEF ViewsInv, TablesTyped
<1>14. InsightsHold'
  <2>1. ASSUME NEW i \in 1..MaxInsights PROVE OfCollege(insight'[i].basis, insight'[i].college)
    <3>1. CASE i = j
      BY <1>9, <1>12, <3>1
    <3>2. CASE i # j
      BY <1>12, <3>2 DEF ViewsInv, InsightsHold
    <3> QED
      BY <3>1, <3>2
  <2> QED
    BY <1>10, <2>1 DEF InsightsHold, OfCollege
<1>15. HandlersServe' /\ JobHasFile' /\ FlagsHold'
  BY <1>10, DoneIdle
<1>16. RowsHold' /\ FilesHold' /\ CacheHolds' /\ BoardHolds' /\ TenantSeesOwn'
  BY <1>10, ViewsStay DEF ViewsInv
<1> QED
  BY <1>13, <1>14, <1>15, <1>16 DEF ViewsInv

LEMMA ReviewInsightKeeps ==
  ASSUME ViewsInv, UNCHANGED securityRows, NEW u \in Users, NEW i \in 1..MaxInsights,
         NEW status \in {"USEFUL", "DISMISSED"}, ReviewInsight(u, i, status)
  PROVE  ViewsInv'
<1>1. UserRole[u] \in StaffRoles /\ UserRole[u] # "STUDENT"
  BY StaffOnly, RolesAre DEF ReviewInsight, Quick
<1>2. UserRole[u] # "SUPER_ADMIN" => UserCollege[u] # None /\ insight[i].college = UserCollege[u]
  BY DEF ReviewInsight
<1>3. OfCollege(insight[i].basis, insight[i].college)
  BY DEF ViewsInv, InsightsHold
<1>4. Sees(u, insight[i].basis)
  BY <1>1, <1>2, <1>3 DEF Sees, OfCollege
<1>5. insight \in [1..MaxInsights -> InsightColumns]
      /\ insight' = [insight EXCEPT ![i].status = status]
  BY DEF ViewsInv, TablesTyped, ReviewInsight
<1>6. insight' \in [1..MaxInsights -> InsightColumns]
      /\ \A k \in 1..MaxInsights : /\ insight'[k].college = insight[k].college
                                   /\ insight'[k].basis = insight[k].basis
  BY <1>5 DEF InsightColumns
<1>7. /\ Show(u, insight[i].basis)
      /\ UNCHANGED <<row, run, securityRows, req>> /\ UNCHANGED row /\ UNCHANGED <<report, run>>
      /\ UNCHANGED <<row, run>> /\ UNCHANGED <<row, cache>> /\ UNCHANGED <<row, board>>
  BY DEF ReviewInsight
<1>8. InsightsHold'
  BY <1>6, <1>7 DEF ViewsInv, InsightsHold, OfCollege
<1>9. shown' = [user |-> u, rows |-> insight[i].basis] /\ insight[i].basis \in SUBSET Results
  BY <1>4, <1>7 DEF Show, Sees
<1>10. TablesTyped'
  BY <1>6, <1>7, <1>9 DEF ViewsInv, TablesTyped
<1>11. TenantSeesOwn'
  <2>1. PICK rows : rows = insight[i].basis
    OBVIOUS
  <2>2. shown'.user = u /\ shown'.rows = rows /\ Sees(u, rows)
    BY <1>4, <1>9, <2>1
  <2> QED
    BY <1>7, <2>2 DEF TenantSeesOwn, Sees
<1>12. HandlersServe' /\ JobHasFile' /\ FlagsHold'
  BY <1>7, NotHandled DEF ViewsInv
<1>13. RowsHold' /\ FilesHold' /\ CacheHolds' /\ BoardHolds'
  BY <1>7, ViewsStay DEF ViewsInv
<1> QED
  BY <1>8, <1>10, <1>11, <1>12, <1>13 DEF ViewsInv

\* No other entry has its percentage.
Alone(b, i) == \A k \in DOMAIN b \ {i} : row[b[k].id].pct # row[b[i].id].pct

LEMMA StoreBoardKeeps ==
  ASSUME ViewsInv, UNCHANGED securityRows, NEW r \in Requests, StoreBoard(r)
  PROVE  ViewsInv'
<1>1. PICK u, ids : u = req[r].user /\ ids = req[r].ids
  OBVIOUS
<1>2. u \in Users /\ Sees(u, ids) /\ ids \in SUBSET Results
  BY <1>1, HandlerIs DEF Serves, StoreBoard, Sees
<1>3. PICK b : b = Entries(ids)
  OBVIOUS
<1>4. /\ board' = b /\ Show(u, ids) /\ Done(r) /\ req[r].op \notin {"runFile", "marking"}
      /\ UNCHANGED <<row, run, securityRows>> /\ UNCHANGED row /\ UNCHANGED <<row, report, run, insight>>
      /\ UNCHANGED <<row, run>> /\ UNCHANGED <<row, cache>> /\ UNCHANGED <<row, insight>>
  BY <1>1, <1>3 DEF StoreBoard
<1>5. \A i \in DOMAIN b : b[i].id \in Results
  BY <1>2, <1>3, EntriesAre DEF ViewsInv
<1>6. BoardTyped'
  BY <1>4, <1>5 DEF BoardTyped
<1>7. ASSUME NEW i \in DOMAIN b, Alone(b, i)
      PROVE  /\ b[i].percentile = (Cardinality(Low(b, i)) * 10000) \div Len(b)
             /\ b[i].rank = 1 + Cardinality(High(b, i))
  BY <1>2, <1>3, <1>7, EntriesAgree DEF ViewsInv, Alone
<1>8. PercentileAgrees'
  <2>1. row' = row /\ board' = b
    BY <1>4
  <2> SUFFICES ASSUME NEW i \in DOMAIN board' PROVE EntryAgrees(i)'
    BY DEF PercentileAgrees
  <2>2. i \in DOMAIN b
    BY <2>1
  <2>3. Alone(b, i) => /\ b[i].percentile = (Cardinality(Low(b, i)) * 10000) \div Len(b)
                       /\ b[i].rank = 1 + Cardinality(High(b, i))
    BY <1>7, <2>2
  <2> QED
    BY <2>1, <2>3 DEF EntryAgrees, Alone, Low, High
<1>9. HandlersServe' /\ JobHasFile' /\ FlagsHold'
  BY <1>4, DoneIdle
<1>10. TablesTyped' /\ TenantSeesOwn'
  BY <1>2, <1>4, ShownTo DEF ViewsInv
<1>11. RowsHold' /\ FilesHold' /\ CacheHolds' /\ InsightsHold'
  BY <1>4, ViewsStay DEF ViewsInv
<1> QED
  BY <1>6, <1>8, <1>9, <1>10, <1>11 DEF ViewsInv, BoardHolds

(* Reports, their jobs and files.                                            *)
\* A handler that writes a file keeps its job when another job changes.
LEMMA RunServes ==
  ASSUME UNCHANGED row, NEW q, Serves(q),
         q.op = "runFile" => /\ run'[q.job] # NoRun /\ run'[q.job].requester = run[q.job].requester
                             /\ run'[q.job].count = run[q.job].count
  PROVE  Serves(q)'
<1>1. /\ q.op \in {"runJob", "runFile", "board"} => q.user \in Users /\ Sees(q.user, q.ids)'
      /\ q.op \in {"fill", "answer", "insight"} => OfCollege(q.ids, ScopeCollege(q.user, q.data))'
  BY DEF Serves, Sees, OfCollege
<1>2. q.op = "runFile" => /\ q.job \in 1..MaxRuns /\ run'[q.job] # NoRun
                          /\ run'[q.job].requester = q.user
                          /\ run'[q.job].count = Cardinality(q.ids)
  BY DEF Serves
<1> QED
  BY <1>1, <1>2 DEF Serves

LEMMA OthersServe ==
  ASSUME HandlersServe, UNCHANGED row, NEW r,
         \A x \in Requests \ {r} : req[x].op = "runFile" =>
             /\ run'[req[x].job] # NoRun /\ run'[req[x].job].requester = run[req[x].job].requester
             /\ run'[req[x].job].count = run[req[x].job].count
  PROVE  \A x \in Requests \ {r} : \A p : p = req[x] => Serves(p)'
<1>1. ASSUME NEW x \in Requests \ {r}, NEW p, p = req[x] PROVE Serves(p)'
  <2>1. Serves(p)
    BY <1>1 DEF HandlersServe
  <2>2. p.op = "runFile" => /\ run'[p.job] # NoRun /\ run'[p.job].requester = run[p.job].requester
                            /\ run'[p.job].count = run[p.job].count
    BY <1>1
  <2> QED
    BY <2>1, <2>2, RunServes
<1> QED
  BY <1>1

\* No handler moves.
LEMMA RunsChange ==
  ASSUME HandlersServe, FlagsHold, UNCHANGED <<row, req, securityRows>>,
         \A x \in Requests : req[x].op = "runFile" =>
             /\ run'[req[x].job] # NoRun /\ run'[req[x].job].requester = run[req[x].job].requester
             /\ run'[req[x].job].count = run[req[x].job].count
  PROVE  HandlersServe' /\ FlagsHold'
<1>1. ASSUME NEW x \in Requests PROVE Serves(req[x])'
  <2>1. PICK p : p = req[x]
    OBVIOUS
  <2>2. Serves(p) /\ req' = req
    BY <2>1 DEF HandlersServe
  <2>3. p.op = "runFile" => /\ run'[p.job] # NoRun /\ run'[p.job].requester = run[p.job].requester
                            /\ run'[p.job].count = run[p.job].count
    BY <2>1
  <2>4. Serves(p)'
    BY <2>2, <2>3, RunServes
  <2>5. p = req'[x]
    BY <2>1, <2>2
  <2> QED
    BY <2>4, <2>5
<1>2. req' \in [Requests -> ViewHandlers]
  BY DEF HandlersServe
<1>3. HandlersServe'
  BY <1>1, <1>2 DEF HandlersServe
<1>4. \A s \in Sessions : Reviewing(s)' = Reviewing(s)
  BY DEF Reviewing
<1>5. UNCHANGED <<flags, verdict, marked, crossed>> /\ \A x \in Requests : req'[x] = req[x]
  BY DEF securityRows
<1> QED
  BY <1>3, <1>4, <1>5, FlagsStay

LEMMA CreateReportKeeps ==
  ASSUME ViewsInv, UNCHANGED securityRows, NEW u \in Users, CreateReport(u)
  PROVE  ViewsInv'
<1>1. PICK i : i = Free(report, NoReport)
  OBVIOUS
<1>2. i \in 1..MaxReports
  BY <1>1, TablesFree DEF CreateReport, ViewsInv
<1>3. PICK e : e = [college |-> ReportCollegeId(u), owner |-> u, shared |-> FALSE]
  OBVIOUS
<1>4. e \in ReportColumns /\ e.owner \in Users
  BY <1>3, RolesAre DEF ReportColumns, ReportCollegeId
<1>5. report' = [report EXCEPT ![i] = e]
  BY <1>1, <1>3 DEF CreateReport
<1>6. UNCHANGED <<row, run, securityRows, req>> /\ UNCHANGED row /\ UNCHANGED <<run, insight, shown>>
      /\ UNCHANGED <<row, run>> /\ UNCHANGED <<row, cache>> /\ UNCHANGED <<row, insight>>
      /\ UNCHANGED <<row, board>> /\ UNCHANGED <<row, shown>>
  BY DEF CreateReport
<1>7. report \in [1..MaxReports -> ReportColumns]
      /\ \A k \in 1..MaxReports : report[k] = NoReport \/ report[k].owner \in Users
  BY DEF ViewsInv, TablesTyped
<1>8. report' \in [1..MaxReports -> ReportColumns]
      /\ \A k \in 1..MaxReports : report'[k] = NoReport \/ report'[k].owner \in Users
  BY <1>2, <1>4, <1>5, <1>7
<1>9. TablesTyped'
  BY <1>6, <1>8 DEF ViewsInv, TablesTyped
<1>10. HandlersServe' /\ JobHasFile' /\ FlagsHold'
  BY <1>6, NotHandled DEF ViewsInv
<1>11. RowsHold' /\ FilesHold' /\ CacheHolds' /\ InsightsHold' /\ BoardHolds' /\ TenantSeesOwn'
  BY <1>6, ViewsStay DEF ViewsInv
<1> QED
  BY <1>9, <1>10, <1>11 DEF ViewsInv

LEMMA DeleteReportKeeps ==
  ASSUME ViewsInv, UNCHANGED securityRows, NEW u \in Users, NEW i \in 1..MaxReports,
         DeleteReport(u, i)
  PROVE  ViewsInv'
<1>1. NoReport \in ReportColumns
  BY DEF NoReport, ReportColumns
<1>2. report' = [report EXCEPT ![i] = NoReport]
  BY DEF DeleteReport
<1>3. UNCHANGED <<row, run, securityRows, req>> /\ UNCHANGED row /\ UNCHANGED <<run, insight, shown>>
      /\ UNCHANGED <<row, run>> /\ UNCHANGED <<row, cache>> /\ UNCHANGED <<row, insight>>
      /\ UNCHANGED <<row, board>> /\ UNCHANGED <<row, shown>>
  BY DEF DeleteReport
<1>4. report \in [1..MaxReports -> ReportColumns]
      /\ \A k \in 1..MaxReports : report[k] = NoReport \/ report[k].owner \in Users
  BY DEF ViewsInv, TablesTyped
<1>5. report' \in [1..MaxReports -> ReportColumns]
      /\ \A k \in 1..MaxReports : report'[k] = NoReport \/ report'[k].owner \in Users
  BY <1>1, <1>2, <1>4
<1>6. TablesTyped'
  BY <1>3, <1>5 DEF ViewsInv, TablesTyped
<1>7. HandlersServe' /\ JobHasFile' /\ FlagsHold'
  BY <1>3, NotHandled DEF ViewsInv
<1>8. RowsHold' /\ FilesHold' /\ CacheHolds' /\ InsightsHold' /\ BoardHolds' /\ TenantSeesOwn'
  BY <1>3, ViewsStay DEF ViewsInv
<1> QED
  BY <1>6, <1>7, <1>8 DEF ViewsInv

\* What is left when only the row of a job changes.
LEMMA RunsTyped ==
  ASSUME ViewsInv, run' \in [1..MaxRuns -> RunColumns],
         UNCHANGED <<row, report, cache, insight, board, shown>>
  PROVE  RowsHold' /\ TablesTyped' /\ CacheHolds' /\ InsightsHold' /\ BoardHolds' /\ TenantSeesOwn'
<1>1. /\ UNCHANGED row /\ UNCHANGED <<row, cache>> /\ UNCHANGED <<row, insight>>
      /\ UNCHANGED <<row, board>> /\ UNCHANGED <<row, shown>>
  OBVIOUS
<1>2. TablesTyped'
  BY DEF ViewsInv, TablesTyped
<1> QED
  BY <1>1, <1>2, ViewsStay DEF ViewsInv

LEMMA RunJobKeeps ==
  ASSUME ViewsInv, UNCHANGED securityRows, NEW r \in Requests, RunJob(r)
  PROVE  ViewsInv'
<1>1. PICK q, j : q = req[r] /\ j = Free(run, NoRun)
  OBVIOUS
<1>2. q \in ViewHandlers /\ q.op = "runJob" /\ q.user \in Users /\ Sees(q.user, q.ids)
      /\ q.data \in Colleges \cup {None}
  BY <1>1, HandlerIs DEF Serves, RunJob
<1>3. j \in 1..MaxRuns /\ run[j] = NoRun
  BY <1>1, TablesFree DEF RunJob, ViewsInv
<1>4. Cardinality(q.ids) \in Nat
  <2>1. q.ids \subseteq Results
    BY <1>2 DEF Sees
  <2>2. IsFiniteSet(q.ids)
    BY <2>1, ReportBounds, FS_Subset
  <2> QED
    BY <2>2, FS_CardinalityType
<1>5. PICK e : e = [NoRun EXCEPT !.status = "COMPLETED", !.college = q.data,
                    !.requester = q.user, !.count = Cardinality(q.ids)]
  OBVIOUS
<1>6. /\ e \in RunColumns /\ e.status = "COMPLETED" /\ e.requester = q.user
      /\ e.count = Cardinality(q.ids) /\ e.file = FALSE /\ e # NoRun
  BY <1>2, <1>4, <1>5 DEF NoRun, RunColumns
<1>7. run \in [1..MaxRuns -> RunColumns]
  BY DEF ViewsInv, TablesTyped
<1>8. run' = [run EXCEPT ![j] = e]
  <2>1. run' = [run EXCEPT ![j].status = "COMPLETED", ![j].college = q.data,
                ![j].requester = q.user, ![j].count = Cardinality(q.ids)]
    BY <1>1 DEF RunJob
  <2> QED
    BY <1>3, <1>5, <1>7, <2>1
<1>9. run' \in [1..MaxRuns -> RunColumns] /\ run'[j] = e
      /\ \A k \in 1..MaxRuns : k # j => run'[k] = run[k]
  BY <1>3, <1>6, <1>7, <1>8
<1>10. PICK p : p = [q EXCEPT !.op = "runFile", !.job = j]
  OBVIOUS
<1>11. p \in ViewHandlers /\ p.op = "runFile" /\ p.job = j /\ p.user = q.user /\ p.ids = q.ids
  <2>1. j \in Nat
    BY <1>3
  <2> QED
    BY <1>2, <1>10, <2>1 DEF ViewHandlers, ViewOps
<1>12. Go(r, p)
  <2>1. req \in [Requests -> ViewHandlers]
        /\ req' = [req EXCEPT ![r].op = "runFile", ![r].job = j]
    BY <1>1 DEF RunJob, ViewsInv, HandlersServe
  <2> QED
    BY <1>1, <1>10, <2>1 DEF Go
<1>13. UNCHANGED <<row, report, cache, insight, board, shown>> /\ UNCHANGED row
       /\ UNCHANGED <<flags, verdict, marked, crossed>>
  BY DEF RunJob, securityRows
<1>14. Serves(p)'
  <2>1. Sees(p.user, p.ids)'
    BY <1>2, <1>11, <1>13 DEF Sees
  <2> QED
    BY <1>2, <1>3, <1>6, <1>9, <1>11, <2>1 DEF Serves
<1>15. \A x \in Requests \ {r} : req[x].op = "runFile" =>
           req[x].job \in 1..MaxRuns /\ req[x].job # j /\ run[req[x].job] # NoRun
  BY <1>3 DEF ViewsInv, HandlersServe, Serves
<1>16. \A x \in Requests \ {r} : \A z : z = req[x] => Serves(z)'
  BY <1>9, <1>13, <1>15, OthersServe DEF ViewsInv
<1>17. HandlersServe' /\ req'[r] = p /\ \A x \in Requests \ {r} : req'[x] = req[x]
  BY <1>11, <1>12, <1>14, <1>16, Replaced DEF ViewsInv
<1>18. FlagsHold'
  <2>1. \A s \in Sessions : Reviewing(s)' = Reviewing(s)
    BY <1>1, <1>2, <1>11, <1>17 DEF Reviewing
  <2>2. \A x \in Requests : req[x].op = "marking" => req'[x] = req[x]
    BY <1>1, <1>2, <1>17
  <2> QED
    BY <1>13, <2>1, <2>2, FlagsStay DEF ViewsInv
<1>19. JobHasFile'
  <2>1. ASSUME NEW k \in 1..MaxRuns, run'[k].status = "COMPLETED"
        PROVE  \/ run'[k].file /\ Cardinality(run'[k].rows) = run'[k].count
               \/ run'[k].cut \/ \E x \in Requests : req'[x].op = "runFile" /\ req'[x].job = k
    <3>1. CASE k = j
      BY <1>11, <1>17, <3>1
    <3>2. CASE k # j
      <4>1. run'[k] = run[k]
        BY <1>9, <3>2
      <4>2. \/ run[k].file /\ Cardinality(run[k].rows) = run[k].count
            \/ run[k].cut \/ \E x \in Requests : req[x].op = "runFile" /\ req[x].job = k
        BY <2>1, <4>1 DEF ViewsInv, JobHasFile
      <4>3. \A x \in Requests : req[x].op = "runFile" => req'[x] = req[x]
        BY <1>1, <1>2, <1>17
      <4> QED
        BY <4>1, <4>2, <4>3
    <3> QED
      BY <3>1, <3>2
  <2> QED
    BY <2>1 DEF JobHasFile
<1>20. FilesHold'
  <2>1. ASSUME NEW k \in 1..MaxRuns, run'[k].file
        PROVE  run'[k].requester \in Users /\ Sees(run'[k].requester, run'[k].rows)
    <3>1. k # j /\ run'[k] = run[k]
      BY <1>6, <1>9, <2>1
    <3> QED
      BY <2>1, <3>1 DEF ViewsInv, FilesHold
  <2> QED
    BY <1>13, <2>1 DEF FilesHold, Sees
<1> QED
  BY <1>9, <1>13, <1>17, <1>18, <1>19, <1>20, RunsTyped DEF ViewsInv

LEMMA RunFileKeeps ==
  ASSUME ViewsInv, UNCHANGED securityRows, NEW r \in Requests, RunFile(r)
  PROVE  ViewsInv'
<1>1. PICK q, j : q = req[r] /\ j = req[r].job
  OBVIOUS
<1>2. /\ q \in ViewHandlers /\ q.op = "runFile" /\ q.user \in Users /\ Sees(q.user, q.ids)
      /\ j \in 1..MaxRuns /\ run[j] # NoRun /\ run[j].requester = q.user
      /\ run[j].count = Cardinality(q.ids) /\ q.ids \in SUBSET Results
  BY <1>1, HandlerIs DEF Serves, RunFile, Sees
<1>3. run \in [1..MaxRuns -> RunColumns]
  BY DEF ViewsInv, TablesTyped
<1>4. run' = [run EXCEPT ![j].file = TRUE, ![j].rows = q.ids]
  BY <1>1 DEF RunFile
<1>5. PICK e : e = [run[j] EXCEPT !.file = TRUE, !.rows = q.ids]
  OBVIOUS
<1>6. /\ e \in RunColumns /\ e.requester = q.user /\ e.file = TRUE /\ e.rows = q.ids
      /\ e.count = Cardinality(q.ids)
  <2>1. run[j] \in RunColumns
    BY <1>2, <1>3
  <2> QED
    BY <1>2, <1>5, <2>1 DEF RunColumns
<1>7. e # NoRun
  BY <1>6 DEF NoRun
<1>8. run' \in [1..MaxRuns -> RunColumns] /\ run'[j] = e
      /\ \A k \in 1..MaxRuns : k # j => run'[k] = run[k]
  <2>1. run' = [run EXCEPT ![j] = e]
    BY <1>2, <1>3, <1>4, <1>5
  <2> QED
    BY <1>2, <1>3, <1>6, <2>1
<1>9. UNCHANGED <<row, report, cache, insight, board, shown>> /\ UNCHANGED row /\ Done(r)
      /\ UNCHANGED <<flags, verdict, marked, crossed>>
  BY DEF RunFile, securityRows
<1>10. ASSUME NEW x \in Requests \ {r}, req[x].op = "runFile"
       PROVE  /\ run'[req[x].job] # NoRun /\ run'[req[x].job].requester = run[req[x].job].requester
              /\ run'[req[x].job].count = run[req[x].job].count
  <2>1. req[x].job \in 1..MaxRuns /\ run[req[x].job] # NoRun
    BY <1>10 DEF ViewsInv, HandlersServe, Serves
  <2>2. CASE req[x].job = j
    BY <1>2, <1>6, <1>7, <1>8, <2>2
  <2>3. CASE req[x].job # j
    BY <1>8, <2>1, <2>3
  <2> QED
    BY <2>2, <2>3
<1>11. \A x \in Requests \ {r} : \A z : z = req[x] => Serves(z)'
  BY <1>9, <1>10, OthersServe DEF ViewsInv
<1>12. Go(r, NoReq) /\ NoReq \in ViewHandlers /\ NoReq.op = "idle"
  BY <1>9, IdleServes DEF Done, Go
<1>13. Serves(NoReq)'
  BY <1>12 DEF Serves
<1>14. HandlersServe' /\ req'[r] = NoReq /\ \A x \in Requests \ {r} : req'[x] = req[x]
  BY <1>11, <1>12, <1>13, Replaced DEF ViewsInv
<1>15. FlagsHold'
  <2>1. \A s \in Sessions : Reviewing(s)' = Reviewing(s)
    BY <1>1, <1>2, <1>12, <1>14 DEF Reviewing
  <2>2. \A x \in Requests : req[x].op = "marking" => req'[x] = req[x]
    BY <1>1, <1>2, <1>14
  <2> QED
    BY <1>9, <2>1, <2>2, FlagsStay DEF ViewsInv
<1>16. JobHasFile'
  <2>1. ASSUME NEW k \in 1..MaxRuns, run'[k].status = "COMPLETED"
        PROVE  \/ run'[k].file /\ Cardinality(run'[k].rows) = run'[k].count
               \/ run'[k].cut \/ \E x \in Requests : req'[x].op = "runFile" /\ req'[x].job = k
    <3>1. CASE k = j
      BY <1>6, <1>8, <3>1
    <3>2. CASE k # j
      <4>1. run'[k] = run[k]
        BY <1>8, <3>2
      <4>2. \/ run[k].file /\ Cardinality(run[k].rows) = run[k].count
            \/ run[k].cut \/ \E x \in Requests : req[x].op = "runFile" /\ req[x].job = k
        BY <2>1, <4>1 DEF ViewsInv, JobHasFile
      <4>3. \A x \in Requests : req[x].job = k => req'[x] = req[x]
        BY <1>1, <1>14, <3>2
      <4> QED
        BY <4>1, <4>2, <4>3
    <3> QED
      BY <3>1, <3>2
  <2> QED
    BY <2>1 DEF JobHasFile
<1>17. FilesHold'
  <2>1. ASSUME NEW k \in 1..MaxRuns, run'[k].file
        PROVE  run'[k].requester \in Users /\ Sees(run'[k].requester, run'[k].rows)
    <3>1. CASE k = j
      BY <1>2, <1>6, <1>8, <3>1
    <3>2. CASE k # j
      BY <1>8, <2>1, <3>2 DEF ViewsInv, FilesHold
    <3> QED
      BY <3>1, <3>2
  <2> QED
    BY <1>9, <2>1 DEF FilesHold, Sees
<1> QED
  BY <1>8, <1>9, <1>14, <1>15, <1>16, <1>17, RunsTyped DEF ViewsInv

LEMMA JobChanges ==
  ASSUME ViewsInv, UNCHANGED securityRows, NEW j \in 1..MaxRuns,
         (\E u \in Users : CancelReportJob(u, j)) \/ FileExpires(j)
  PROVE  ViewsInv'
<1>1. run \in [1..MaxRuns -> RunColumns] /\ run[j] \in RunColumns
  BY DEF ViewsInv, TablesTyped
<1>2. \/ run' = [run EXCEPT ![j].status = "CANCELLED"]
      \/ run' = [run EXCEPT ![j].expired = TRUE]
  BY DEF CancelReportJob, FileExpires
<1>3. /\ run' \in [1..MaxRuns -> RunColumns]
      /\ run'[j].status = "CANCELLED" \/ (run'[j].expired = TRUE /\ run'[j].status = run[j].status)
      /\ run'[j].requester = run[j].requester /\ run'[j].count = run[j].count
      /\ run'[j].rows = run[j].rows /\ run'[j].file = run[j].file /\ run'[j].cut = run[j].cut
      /\ \A k \in 1..MaxRuns : k # j => run'[k] = run[k]
  <2>1. CASE run' = [run EXCEPT ![j].status = "CANCELLED"]
    BY <1>1, <2>1 DEF RunColumns
  <2>2. CASE run' = [run EXCEPT ![j].expired = TRUE]
    BY <1>1, <2>2 DEF RunColumns
  <2> QED
    BY <1>2, <2>1, <2>2
<1>4. run'[j] # NoRun
  BY <1>3 DEF NoRun
<1>5. /\ UNCHANGED <<row, report, cache, insight, board, shown>> /\ UNCHANGED row
      /\ UNCHANGED <<row, req, securityRows>> /\ UNCHANGED req
  BY DEF CancelReportJob, FileExpires
<1>6. ASSUME NEW x \in Requests, req[x].op = "runFile"
      PROVE  /\ run'[req[x].job] # NoRun /\ run'[req[x].job].requester = run[req[x].job].requester
             /\ run'[req[x].job].count = run[req[x].job].count
  <2>1. req[x].job \in 1..MaxRuns /\ run[req[x].job] # NoRun
    BY <1>6 DEF ViewsInv, HandlersServe, Serves
  <2> QED
    BY <1>3, <1>4, <2>1
<1>7. HandlersServe' /\ FlagsHold'
  BY <1>5, <1>6, RunsChange DEF ViewsInv
<1>8. JobHasFile'
  <2>1. ASSUME NEW k \in 1..MaxRuns, run'[k].status = "COMPLETED"
        PROVE  \/ run'[k].file /\ Cardinality(run'[k].rows) = run'[k].count
               \/ run'[k].cut \/ \E x \in Requests : req'[x].op = "runFile" /\ req'[x].job = k
    <3>1. run[k].status = "COMPLETED" /\ run'[k].file = run[k].file /\ run'[k].rows = run[k].rows
          /\ run'[k].count = run[k].count /\ run'[k].cut = run[k].cut
      BY <1>3, <2>1
    <3>2. \/ run[k].file /\ Cardinality(run[k].rows) = run[k].count
          \/ run[k].cut \/ \E x \in Requests : req[x].op = "runFile" /\ req[x].job = k
      BY <3>1 DEF ViewsInv, JobHasFile
    <3> QED
      BY <1>5, <3>1, <3>2
  <2> QED
    BY <2>1 DEF JobHasFile
<1>9. FilesHold'
  <2>1. ASSUME NEW k \in 1..MaxRuns, run'[k].file
        PROVE  run'[k].requester \in Users /\ Sees(run'[k].requester, run'[k].rows)
    <3>1. run[k].file /\ run'[k].requester = run[k].requester /\ run'[k].rows = run[k].rows
      BY <1>3, <2>1
    <3> QED
      BY <3>1 DEF ViewsInv, FilesHold
  <2> QED
    BY <1>5, <2>1 DEF FilesHold, Sees
<1> QED
  BY <1>3, <1>5, <1>7, <1>8, <1>9, RunsTyped DEF ViewsInv

(* Rows come and are published; what they are of stays.                      *)
\* The percentages of a leaderboard's results stay, and so does what it says.
LEMMA BoardKept ==
  ASSUME BoardHolds, board' = board, \A x \in Results : row'[x].pct = row[x].pct
  PROVE  BoardHolds'
<1>1. PICK b : b = board
  OBVIOUS
<1>2. BoardTyped' /\ \A k \in DOMAIN b : row'[b[k].id].pct = row[b[k].id].pct
  BY <1>1 DEF BoardHolds, BoardTyped
<1>3. ASSUME NEW i \in DOMAIN b PROVE EntryAgrees(i)'
  <2>1. EntryAgrees(i)
    BY <1>1, <1>3 DEF BoardHolds, PercentileAgrees
  <2>2. Alone(b, i) => /\ b[i].percentile = (Cardinality(Low(b, i)) * 10000) \div Len(b)
                       /\ b[i].rank = 1 + Cardinality(High(b, i))
    BY <1>1, <2>1 DEF EntryAgrees, Alone, Low, High
  <2>3. Low(b, i)' = Low(b, i) /\ High(b, i)' = High(b, i)
    BY <1>2, <1>3 DEF Low, High
  <2>4. Alone(b, i)' => Alone(b, i)
    BY <1>2, <1>3 DEF Alone
  <2>5. Alone(b, i)' => /\ b[i].percentile = (Cardinality(Low(b, i)') * 10000) \div Len(b)
                        /\ b[i].rank = 1 + Cardinality(High(b, i)')
    BY <2>2, <2>3, <2>4
  <2> QED
    BY <1>1, <2>5 DEF EntryAgrees, Alone, Low, High
<1>4. \A i \in DOMAIN board' : EntryAgrees(i)'
  BY <1>1, <1>3
<1>5. PercentileAgrees'
  BY <1>4 DEF PercentileAgrees
<1> QED
  BY <1>2, <1>5 DEF BoardHolds

LEMMA RowsKept ==
  ASSUME ViewsInv, row' \in [Results -> StudentResult],
         \A x \in Results : /\ row'[x].college = row[x].college /\ row'[x].student = row[x].student
                            /\ row'[x].assessment = row[x].assessment /\ row'[x].pct = row[x].pct,
         UNCHANGED <<report, run, cache, insight, board, shown, req, securityRows>>
  PROVE  ViewsInv'
<1>1. RowsHold'
  BY DEF ViewsInv, RowsHold, RowsAgree
<1>2. TablesTyped' /\ JobHasFile'
  BY DEF ViewsInv, TablesTyped, JobHasFile
<1>3. ASSUME NEW u, NEW rows, Sees(u, rows) PROVE Sees(u, rows)'
  BY <1>3 DEF Sees
<1>4. ASSUME NEW c, NEW rows, OfCollege(rows, c) PROVE OfCollege(rows, c)'
  BY <1>4 DEF OfCollege
<1>5. ASSUME NEW q, Serves(q) PROVE Serves(q)'
  <2>1. /\ q.op \in {"runJob", "runFile", "board"} => q.user \in Users /\ Sees(q.user, q.ids)'
        /\ q.op \in {"fill", "answer", "insight"} => OfCollege(q.ids, ScopeCollege(q.user, q.data))'
    BY <1>3, <1>4, <1>5 DEF Serves
  <2> QED
    BY <1>5, <2>1 DEF Serves
<1>6. HandlersServe'
  <2>1. ASSUME NEW r \in Requests PROVE Serves(req[r])'
    <3>1. PICK q : q = req[r] /\ q = req'[r]
      OBVIOUS
    <3>2. Serves(q)
      BY <3>1 DEF ViewsInv, HandlersServe
    <3>3. Serves(q)'
      BY <1>5, <3>2
    <3> QED
      BY <3>1, <3>3
  <2> QED
    BY <2>1 DEF ViewsInv, HandlersServe
<1>7. FilesHold'
  BY DEF ViewsInv, FilesHold, Sees
<1>8. CacheHolds'
  <2>1. ASSUME NEW k \in DOMAIN cache, NEW x \in cache[k]
        PROVE  x \in Results /\ ((IF k[3] # None THEN k[3] ELSE k[2]) # None =>
                   row'[x].college = IF k[3] # None THEN k[3] ELSE k[2])
    <3>1. OfCollege(cache[k], IF k[3] # None THEN k[3] ELSE k[2])
      BY DEF ViewsInv, CacheHolds
    <3> QED
      BY <2>1, <3>1 DEF OfCollege
  <2>2. DOMAIN cache \subseteq CacheKeys /\ cache' = cache
    BY DEF ViewsInv, CacheHolds
  <2> QED
    BY <2>1, <2>2 DEF CacheHolds, OfCollege
<1>9. InsightsHold'
  BY DEF ViewsInv, InsightsHold, OfCollege
<1>10. TenantSeesOwn'
  <2>1. shown.rows \subseteq Results
    BY DEF ViewsInv, TablesTyped
  <2> QED
    BY <2>1 DEF ViewsInv, TenantSeesOwn
<1>11. BoardHolds'
  BY BoardKept DEF ViewsInv
<1>12. FlagsHold'
  <2>1. UNCHANGED <<flags, verdict, marked, crossed>> /\ \A x \in Requests : req'[x] = req[x]
    BY DEF securityRows
  <2>2. \A s \in Sessions : Reviewing(s)' = Reviewing(s)
    BY DEF Reviewing
  <2> QED
    BY <2>1, <2>2, FlagsStay DEF ViewsInv
<1> QED
  BY <1>1, <1>2, <1>6, <1>7, <1>8, <1>9, <1>10, <1>11, <1>12 DEF ViewsInv

LEMMA RowsKeep ==
  ASSUME ViewsInv, UNCHANGED securityRows, NEW x \in Results,
         NewResultRow(x) \/ \E b \in BOOLEAN : PublishRow(x, b)
  PROVE  ViewsInv'
<1>1. row \in [Results -> StudentResult] /\ row[x] \in StudentResult
  BY DEF ViewsInv, RowsHold
<1>2. row' = [row EXCEPT ![x].there = TRUE]
      \/ \E b \in BOOLEAN : row' = [row EXCEPT ![x].published = b]
  BY DEF NewResultRow, PublishRow
<1>3. /\ row' \in [Results -> StudentResult]
      /\ \A y \in Results : /\ row'[y].college = row[y].college /\ row'[y].student = row[y].student
                            /\ row'[y].assessment = row[y].assessment /\ row'[y].pct = row[y].pct
  <2>1. CASE row' = [row EXCEPT ![x].there = TRUE]
    BY <1>1, <2>1 DEF StudentResult
  <2>2. CASE \E b \in BOOLEAN : row' = [row EXCEPT ![x].published = b]
    BY <1>1, <2>2 DEF StudentResult
  <2> QED
    BY <1>2, <2>1, <2>2
<1>4. UNCHANGED <<report, run, cache, insight, board, shown, req, securityRows>>
  BY DEF NewResultRow, PublishRow, reportRows
<1> QED
  BY <1>3, <1>4, RowsKept

(* The security events of an attempt and their review.                       *)
\* What is left when only flags, verdicts and their history change.
LEMMA OnlyFlags ==
  ASSUME ViewsInv, UNCHANGED <<row, reportRows>>
  PROVE  RowsHold' /\ TablesTyped' /\ FilesHold' /\ CacheHolds' /\ InsightsHold' /\ BoardHolds'
         /\ TenantSeesOwn'
<1>1. UNCHANGED row /\ UNCHANGED <<report, run, insight, shown>> /\ UNCHANGED <<row, run>>
      /\ UNCHANGED <<row, cache>> /\ UNCHANGED <<row, insight>> /\ UNCHANGED <<row, board>>
      /\ UNCHANGED <<row, shown>>
  BY DEF reportRows
<1> QED
  BY <1>1, ViewsStay DEF ViewsInv

\* An attempt's flags are a sequence of verdicts.
LEMMA FlagsAre ==
  ASSUME StaffTypeOK, NEW s \in Sessions
  PROVE  \E n \in 0..MaxFlags : flags[s] \in [1..n -> Verdicts] /\ Len(flags[s]) = n
<1>1. flags[s] \in UNION {[1..n -> Verdicts] : n \in 0..MaxFlags}
  BY DEF StaffTypeOK
<1>2. PICK n \in 0..MaxFlags : flags[s] \in [1..n -> Verdicts]
  BY <1>1
<1>3. n \in Nat
  BY <1>2
<1>4. Len(flags[s]) = n
  BY <1>2, <1>3
<1> QED
  BY <1>2, <1>4

LEMMA LogSecurityEventKeeps ==
  ASSUME ViewsInv, NEW u \in Users, NEW s \in Sessions, LogSecurityEvent(u, s)
  PROVE  ViewsInv'
<1>1. StaffTypeOK /\ FlagsFollowVerdict /\ OneReview
  BY DEF ViewsInv, FlagsHold
<1>2. PICK n \in 0..MaxFlags : flags[s] \in [1..n -> Verdicts] /\ Len(flags[s]) = n
  BY <1>1, FlagsAre
<1>3. n < MaxFlags /\ n \in Nat /\ MaxFlags \in Nat /\ "NORMAL" \in Verdicts
  BY <1>2, StaffAssumption DEF LogSecurityEvent
<1>4. PICK f : f = Append(flags[s], "NORMAL")
  OBVIOUS
<1>5. f \in [1..(n + 1) -> Verdicts] /\ f[n + 1] = "NORMAL" /\ \A i \in 1..n : f[i] = flags[s][i]
  <2>1. flags[s] \in Seq(Verdicts) /\ Len(flags[s]) = n
    BY <1>2, <1>3
  <2>2. /\ f \in Seq(Verdicts) /\ Len(f) = n + 1 /\ f[n + 1] = "NORMAL"
        /\ \A i \in 1..n : f[i] = flags[s][i]
    BY <1>3, <1>4, <2>1, AppendProperties
  <2>3. f \in [1..(n + 1) -> Verdicts]
    BY <1>3, <2>2
  <2> QED
    BY <2>2, <2>3
<1>6. flags' = [flags EXCEPT ![s] = f] /\ flags \in [Sessions -> UNION {[1..m -> Verdicts] : m \in 0..MaxFlags}]
  BY <1>1, <1>4 DEF LogSecurityEvent, StaffTypeOK
<1>7. UNCHANGED <<row, reportRows>> /\ UNCHANGED <<row, run, req>> /\ UNCHANGED <<run, req>>
      /\ UNCHANGED <<verdict, marked, crossed>>
  BY DEF LogSecurityEvent, reportRows
<1>8. flags'[s] = f /\ \A t \in Sessions : t # s => flags'[t] = flags[t]
  BY <1>6
<1>9. Len(f) = n + 1 /\ DOMAIN f = 1..(n + 1)
  BY <1>3, <1>5
<1>10. StaffTypeOK'
  <2>1. flags' \in [Sessions -> UNION {[1..m -> Verdicts] : m \in 0..MaxFlags}]
    <3>1. n + 1 \in 0..MaxFlags
      BY <1>3
    <3>2. f \in UNION {[1..m -> Verdicts] : m \in 0..MaxFlags}
      BY <1>5, <3>1
    <3> QED
      BY <1>6, <3>2
  <2>2. \A t \in Sessions : marked[t] \in 0..Len(flags'[t])
    <3>1. ASSUME NEW t \in Sessions PROVE marked[t] \in 0..Len(flags'[t])
      <4>1. marked[t] \in 0..Len(flags[t])
        BY <1>1 DEF StaffTypeOK
      <4>2. CASE t = s
        BY <1>2, <1>3, <1>8, <1>9, <4>1, <4>2
      <4>3. CASE t # s
        BY <1>8, <4>1, <4>3
      <4> QED
        BY <4>2, <4>3
    <3> QED
      BY <3>1
  <2> QED
    BY <1>1, <1>7, <2>1, <2>2 DEF StaffTypeOK
<1>11. \A t \in Sessions : Reviewing(t)' = Reviewing(t)
  BY <1>7 DEF Reviewing
<1>12. FlagsFollowVerdict'
  <2>1. ASSUME NEW t \in Sessions \ crossed, Reviewing(t) = {}, NEW i \in DOMAIN flags'[t]
        PROVE  flags'[t][i] = IF i <= marked[t] THEN verdict[t] ELSE "NORMAL"
    <3>1. \A k \in DOMAIN flags[t] : flags[t][k] = IF k <= marked[t] THEN verdict[t] ELSE "NORMAL"
      BY <1>1, <2>1 DEF FlagsFollowVerdict
    <3>2. CASE t # s
      BY <1>8, <2>1, <3>1, <3>2
    <3>3. CASE t = s /\ i = n + 1
      <4>1. marked[s] \in 0..n
        BY <1>1, <1>2 DEF StaffTypeOK
      <4> QED
        BY <1>3, <1>5, <1>8, <3>3, <4>1
    <3>4. CASE t = s /\ i # n + 1
      <4>1. i \in 1..n /\ i \in DOMAIN flags[s]
        BY <1>2, <1>3, <1>8, <1>9, <2>1, <3>4
      <4> QED
        BY <1>5, <1>8, <3>1, <3>4, <4>1
    <3> QED
      BY <3>2, <3>3, <3>4
  <2> QED
    BY <1>7, <1>11, <2>1 DEF FlagsFollowVerdict
<1>13. OneReview'
  BY <1>1, <1>7, <1>11 DEF OneReview
<1>14. HandlersServe' /\ JobHasFile'
  BY <1>7, HandlersStay, ViewsStay DEF ViewsInv
<1> QED
  BY <1>7, <1>10, <1>12, <1>13, <1>14, OnlyFlags DEF ViewsInv, FlagsHold

LEMMA UpsertVerdictKeeps ==
  ASSUME ViewsInv, NEW r \in Requests, NEW u \in Users, NEW s \in Sessions, NEW status \in Verdicts,
         UpsertVerdict(r, u, s, status)
  PROVE  ViewsInv'
<1>1. StaffTypeOK /\ FlagsFollowVerdict /\ OneReview
  BY DEF ViewsInv, FlagsHold
<1>2. PICK q : q = [NoReq EXCEPT !.op = "marking", !.user = u, !.session = s, !.data = status]
  OBVIOUS
<1>3. q \in ViewHandlers /\ q.op = "marking" /\ q.session = s /\ q.data = status
  BY <1>2 DEF NoReq, ViewHandlers, ViewOps
<1>4. Serves(q)'
  BY <1>3 DEF Serves
<1>5. req[r].op = "idle"
  BY Starts DEF UpsertVerdict
<1>6. /\ Go(r, q) /\ verdict' = [verdict EXCEPT ![s] = status]
      /\ crossed' = IF Reviewing(s) # {} THEN crossed \cup {s} ELSE crossed \ {s}
      /\ UNCHANGED <<row, reportRows>> /\ UNCHANGED <<row, run>> /\ UNCHANGED <<flags, marked>>
  BY <1>2 DEF UpsertVerdict, reportRows
<1>7. \A x \in Requests \ {r} : \A p : p = req[x] => Serves(p)'
  <2>1. ASSUME NEW x \in Requests \ {r}, NEW p, p = req[x] PROVE Serves(p)'
    <3>1. Serves(p)
      BY <2>1 DEF ViewsInv, HandlersServe
    <3> QED
      BY <1>6, <3>1, ServesSame
  <2> QED
    BY <2>1
<1>8. HandlersServe' /\ req'[r] = q /\ \A x \in Requests \ {r} : req'[x] = req[x]
  BY <1>3, <1>4, <1>6, <1>7, Replaced DEF ViewsInv
<1>9. JobHasFile'
  <2>1. \A x \in Requests : req[x].op = "runFile" => req'[x] = req[x]
    BY <1>5, <1>8
  <2> QED
    BY <1>6, <2>1 DEF ViewsInv, JobHasFile
<1>10. /\ Reviewing(s)' = Reviewing(s) \cup {r} /\ r \notin Reviewing(s)
       /\ \A t \in Sessions : t # s => Reviewing(t)' = Reviewing(t)
       /\ \A t \in Sessions : r \notin Reviewing(t)
  BY <1>3, <1>5, <1>8 DEF Reviewing
<1>11. verdict' \in [Sessions -> Verdicts \cup {None}] /\ verdict'[s] = status
       /\ \A t \in Sessions : t # s => verdict'[t] = verdict[t]
  BY <1>1, <1>6 DEF StaffTypeOK
<1>12. crossed' \subseteq Sessions /\ (\A t \in Sessions : t # s => (t \in crossed' <=> t \in crossed))
  BY <1>1, <1>6 DEF StaffTypeOK
<1>13. StaffTypeOK'
  BY <1>1, <1>6, <1>11, <1>12 DEF StaffTypeOK
<1>14. FlagsFollowVerdict'
  BY <1>1, <1>6, <1>10, <1>11, <1>12 DEF FlagsFollowVerdict
<1>15. OneReview'
  <2>1. ASSUME NEW t \in Sessions \ crossed', NEW x \in Reviewing(t)'
        PROVE  req'[x].data = verdict'[t] /\ \A y \in Reviewing(t)' : y = x
    <3>1. CASE t # s
      <4>1. t \in Sessions \ crossed /\ x \in Reviewing(t) /\ x # r /\ x \in Requests
        BY <1>10, <1>12, <2>1, <3>1 DEF Reviewing
      <4>2. req[x].data = verdict[t] /\ \A y \in Reviewing(t) : y = x
        BY <1>1, <4>1 DEF OneReview
      <4> QED
        BY <1>8, <1>10, <1>11, <3>1, <4>1, <4>2
    <3>2. CASE t = s
      <4>1. Reviewing(s) = {}
        BY <1>6, <2>1, <3>2
      <4>2. Reviewing(s)' = {r} /\ x = r
        BY <1>10, <2>1, <3>2, <4>1
      <4> QED
        BY <1>3, <1>8, <1>11, <3>2, <4>2
    <3> QED
      BY <3>1, <3>2
  <2> QED
    BY <2>1 DEF OneReview
<1> QED
  BY <1>6, <1>8, <1>9, <1>13, <1>14, <1>15, OnlyFlags DEF ViewsInv, FlagsHold

LEMMA MarkFlagsKeeps ==
  ASSUME ViewsInv, NEW r \in Requests, MarkFlags(r)
  PROVE  ViewsInv'
<1>1. StaffTypeOK /\ FlagsFollowVerdict /\ OneReview
  BY DEF ViewsInv, FlagsHold
<1>2. PICK q, s : q = req[r] /\ s = req[r].session
  OBVIOUS
<1>3. q \in ViewHandlers /\ q.op = "marking" /\ s = q.session /\ s \in Sessions /\ q.data \in Verdicts
  BY <1>2, HandlerIs DEF Serves, MarkFlags
<1>4. PICK n \in 0..MaxFlags : flags[s] \in [1..n -> Verdicts] /\ Len(flags[s]) = n
  BY <1>1, <1>3, FlagsAre
<1>5. n \in Nat /\ DOMAIN flags[s] = 1..n
  BY <1>4
<1>6. PICK f : f = [i \in 1..n |-> q.data]
  OBVIOUS
<1>7. f \in [1..n -> Verdicts] /\ Len(f) = n /\ DOMAIN f = 1..n /\ \A i \in 1..n : f[i] = q.data
  BY <1>3, <1>5, <1>6
<1>8. flags \in [Sessions -> UNION {[1..m -> Verdicts] : m \in 0..MaxFlags}]
      /\ \A t \in Sessions : marked[t] \in 0..Len(flags[t])
      /\ DOMAIN marked = Sessions
  BY <1>1 DEF StaffTypeOK
<1>9. flags' = [flags EXCEPT ![s] = f]
  <2>1. flags' = [flags EXCEPT ![s] = [i \in DOMAIN flags[s] |-> q.data]]
    BY <1>2 DEF MarkFlags
  <2> QED
    BY <1>5, <1>6, <2>1
<1>10. marked' = [marked EXCEPT ![s] = n]
  BY <1>2, <1>4 DEF MarkFlags
<1>11. /\ UNCHANGED <<row, reportRows>> /\ UNCHANGED <<row, run>> /\ UNCHANGED <<verdict, crossed>>
       /\ Go(r, NoReq)
  BY DEF MarkFlags, reportRows, Done, Go
<1>12. flags'[s] = f /\ \A t \in Sessions : t # s => flags'[t] = flags[t]
  BY <1>3, <1>8, <1>9
<1>13. marked'[s] = n /\ DOMAIN marked' = Sessions
       /\ \A t \in Sessions : t # s => marked'[t] = marked[t]
  BY <1>3, <1>8, <1>10
<1>14. StaffTypeOK'
  <2>1. flags' \in [Sessions -> UNION {[1..m -> Verdicts] : m \in 0..MaxFlags}]
    <3>1. f \in UNION {[1..m -> Verdicts] : m \in 0..MaxFlags}
      BY <1>4, <1>7
    <3> QED
      BY <1>8, <1>9, <3>1
  <2>2. ASSUME NEW t \in Sessions PROVE marked'[t] \in 0..Len(flags'[t])
    <3>1. CASE t = s
      BY <1>5, <1>7, <1>12, <1>13, <3>1
    <3>2. CASE t # s
      BY <1>8, <1>12, <1>13, <3>2
    <3> QED
      BY <3>1, <3>2
  <2>3. verdict' \in [Sessions -> Verdicts \cup {None}] /\ crossed' \subseteq Sessions
    BY <1>1, <1>11 DEF StaffTypeOK
  <2> QED
    BY <1>13, <2>1, <2>2, <2>3 DEF StaffTypeOK
<1>15. \A x \in Requests \ {r} : \A p : p = req[x] => Serves(p)'
  <2>1. ASSUME NEW x \in Requests \ {r}, NEW p, p = req[x] PROVE Serves(p)'
    <3>1. Serves(p)
      BY <2>1 DEF ViewsInv, HandlersServe
    <3> QED
      BY <1>11, <3>1, ServesSame
  <2> QED
    BY <2>1
<1>16. NoReq \in ViewHandlers /\ NoReq.op = "idle" /\ Serves(NoReq)'
  BY IdleServes DEF Serves
<1>17. HandlersServe' /\ req'[r] = NoReq /\ \A x \in Requests \ {r} : req'[x] = req[x]
  BY <1>11, <1>15, <1>16, Replaced DEF ViewsInv
<1>18. JobHasFile'
  <2>1. \A x \in Requests : req[x].op = "runFile" => req'[x] = req[x]
    BY <1>2, <1>3, <1>17
  <2>2. run' = run
    BY <1>11
  <2> QED
    BY <2>1, <2>2 DEF ViewsInv, JobHasFile
<1>19. /\ r \in Reviewing(s) /\ Reviewing(s)' = Reviewing(s) \ {r}
       /\ \A t \in Sessions : t # s => Reviewing(t)' = Reviewing(t)
  BY <1>2, <1>3, <1>16, <1>17 DEF Reviewing
<1>20. FlagsFollowVerdict'
  <2>1. ASSUME NEW t \in Sessions \ crossed, Reviewing(t)' = {}, NEW i \in DOMAIN flags'[t]
        PROVE  flags'[t][i] = IF i <= marked'[t] THEN verdict[t] ELSE "NORMAL"
    <3>1. CASE t = s
      <4>1. q.data = verdict[s]
        BY <1>1, <1>2, <1>19, <2>1, <3>1 DEF OneReview
      <4>2. i \in 1..n
        BY <1>7, <1>12, <2>1, <3>1
      <4> QED
        BY <1>5, <1>7, <1>12, <1>13, <3>1, <4>1, <4>2
    <3>2. CASE t # s
      <4>1. Reviewing(t) = {} /\ i \in DOMAIN flags[t]
        BY <1>12, <1>19, <2>1, <3>2
      <4>2. flags[t][i] = IF i <= marked[t] THEN verdict[t] ELSE "NORMAL"
        BY <1>1, <4>1 DEF FlagsFollowVerdict
      <4> QED
        BY <1>12, <1>13, <3>2, <4>2
    <3> QED
      BY <3>1, <3>2
  <2> QED
    BY <1>11, <2>1 DEF FlagsFollowVerdict
<1>21. OneReview'
  <2>1. ASSUME NEW t \in Sessions \ crossed, NEW x \in Reviewing(t)'
        PROVE  req'[x].data = verdict[t] /\ \A y \in Reviewing(t)' : y = x
    <3>1. x \in Requests /\ x # r /\ x \in Reviewing(t) /\ Reviewing(t)' \subseteq Reviewing(t)
      BY <1>16, <1>17, <1>19, <2>1 DEF Reviewing
    <3>2. req[x].data = verdict[t] /\ \A y \in Reviewing(t) : y = x
      BY <1>1, <3>1 DEF OneReview
    <3> QED
      BY <1>17, <3>1, <3>2
  <2> QED
    BY <1>11, <2>1 DEF OneReview
<1> QED
  BY <1>11, <1>14, <1>17, <1>18, <1>20, <1>21, OnlyFlags DEF ViewsInv, FlagsHold

LEMMA ViewsCrashKeeps ==
  ASSUME ViewsInv, ViewsCrash
  PROVE  ViewsInv'
<1>1. StaffTypeOK /\ FlagsFollowVerdict /\ OneReview
  BY DEF ViewsInv, FlagsHold
<1>2. /\ req' = [x \in Requests |-> NoReq]
      /\ run' = [j \in 1..MaxRuns |-> IF \E r \in Requests : req[r].op = "runFile" /\ req[r].job = j
                                     THEN [run[j] EXCEPT !.cut = TRUE] ELSE run[j]]
      /\ UNCHANGED <<row, report, cache, insight, board, shown>> /\ UNCHANGED row
      /\ UNCHANGED <<flags, verdict, marked>>
      /\ crossed' = crossed \cup {s \in Sessions : Reviewing(s) # {}}
  BY DEF ViewsCrash, ReportsCrash
<1>3. run \in [1..MaxRuns -> RunColumns]
  BY DEF ViewsInv, TablesTyped
<1>4. ASSUME NEW j \in 1..MaxRuns
      PROVE  /\ run'[j] \in RunColumns /\ run'[j].requester = run[j].requester
             /\ run'[j].status = run[j].status /\ run'[j].count = run[j].count
             /\ run'[j].rows = run[j].rows /\ run'[j].file = run[j].file
             /\ (\E r \in Requests : req[r].op = "runFile" /\ req[r].job = j) => run'[j].cut
             /\ run[j].cut => run'[j].cut
  <2>1. run[j] \in RunColumns
    BY <1>3
  <2>2. CASE \E r \in Requests : req[r].op = "runFile" /\ req[r].job = j
    <3>1. run'[j] = [run[j] EXCEPT !.cut = TRUE]
      BY <1>2, <2>2
    <3> QED
      BY <2>1, <3>1 DEF RunColumns
  <2>3. CASE ~ \E r \in Requests : req[r].op = "runFile" /\ req[r].job = j
    <3>1. run'[j] = run[j]
      BY <1>2, <2>3
    <3> QED
      BY <2>1, <2>3, <3>1
  <2> QED
    BY <2>2, <2>3
<1>5. run' \in [1..MaxRuns -> RunColumns]
  <2>1. DOMAIN run' = 1..MaxRuns /\ run' = [j \in 1..MaxRuns |-> run'[j]]
    BY <1>2
  <2> QED
    BY <1>4, <2>1
<1>6. HandlersServe'
  <2>1. NoReq \in ViewHandlers /\ Serves(NoReq)'
    BY IdleServes DEF Serves
  <2>2. ASSUME NEW x \in Requests PROVE Serves(req[x])'
    <3>1. PICK p : p = NoReq /\ p = req'[x]
      BY <1>2
    <3>2. Serves(p)'
      BY <2>1, <3>1
    <3> QED
      BY <3>1, <3>2
  <2> QED
    BY <1>2, <2>1, <2>2 DEF HandlersServe
<1>7. JobHasFile'
  <2>1. ASSUME NEW j \in 1..MaxRuns, run'[j].status = "COMPLETED"
        PROVE  run'[j].cut \/ (run'[j].file /\ Cardinality(run'[j].rows) = run'[j].count)
    BY <1>4, <2>1 DEF ViewsInv, JobHasFile
  <2> QED
    BY <2>1 DEF JobHasFile
<1>8. FilesHold'
  <2>1. ASSUME NEW j \in 1..MaxRuns, run'[j].file
        PROVE  run'[j].requester \in Users /\ Sees(run'[j].requester, run'[j].rows)
    BY <1>4, <2>1 DEF ViewsInv, FilesHold
  <2> QED
    BY <1>2, <2>1 DEF FilesHold, Sees
<1>9. \A s \in Sessions : Reviewing(s)' = {}
  BY <1>2, IdleServes DEF Reviewing
<1>10. StaffTypeOK'
  BY <1>1, <1>2 DEF StaffTypeOK
<1>11. FlagsFollowVerdict'
  <2>1. \A s \in Sessions \ crossed' : s \in Sessions \ crossed /\ Reviewing(s) = {}
    BY <1>2
  <2> QED
    BY <1>1, <1>2, <2>1 DEF FlagsFollowVerdict
<1>12. OneReview'
  BY <1>9 DEF OneReview
<1> QED
  BY <1>2, <1>5, <1>6, <1>7, <1>8, <1>10, <1>11, <1>12, RunsTyped DEF ViewsInv, FlagsHold

LEMMA ViewsStarts ==
  ASSUME ViewsInit PROVE ViewsInv
<1>1. /\ req = [r \in Requests |-> NoReq] /\ report = [i \in 1..MaxReports |-> NoReport]
      /\ run = [j \in 1..MaxRuns |-> NoRun] /\ cache = <<>> /\ board = <<>>
      /\ insight = [i \in 1..MaxInsights |-> NoInsight] /\ shown = [user |-> None, rows |-> {}]
      /\ flags = [s \in Sessions |-> <<>>] /\ verdict = [s \in Sessions |-> None]
      /\ marked = [s \in Sessions |-> 0] /\ crossed = {}
      /\ row \in [Results -> StudentResult] /\ RowsAgree
  BY DEF ViewsInit, EvidenceInit, ReportRowsInit, StaffInit
<1>2. RowsHold
  BY <1>1 DEF RowsHold
<1>3. TablesTyped
  <2>1. NoReport \in ReportColumns /\ NoRun \in RunColumns /\ NoInsight \in InsightColumns
    BY DEF NoReport, ReportColumns, NoRun, RunColumns, NoInsight, InsightColumns
  <2>2. report \in [1..MaxReports -> ReportColumns] /\ \A i \in 1..MaxReports : report[i] = NoReport
    BY <1>1, <2>1
  <2>3. run \in [1..MaxRuns -> RunColumns] /\ insight \in [1..MaxInsights -> InsightColumns]
    BY <1>1, <2>1
  <2> QED
    BY <1>1, <2>2, <2>3 DEF TablesTyped
<1>4. HandlersServe
  <2>1. \A r \in Requests : req[r] = NoReq
    BY <1>1
  <2> QED
    BY <1>1, <2>1, IdleServes DEF HandlersServe
<1>5. \A j \in 1..MaxRuns : run[j].file = FALSE /\ run[j].status = "NONE"
  BY <1>1 DEF NoRun
<1>6. FilesHold /\ JobHasFile
  BY <1>5 DEF FilesHold, JobHasFile
<1>7. DOMAIN cache = {} /\ DOMAIN board = {}
  BY <1>1
<1>8. CacheHolds /\ BoardHolds
  BY <1>7 DEF CacheHolds, BoardHolds, BoardTyped, PercentileAgrees
<1>9. InsightsHold
  <2>1. \A i \in 1..MaxInsights : insight[i].basis = {}
    BY <1>1 DEF NoInsight
  <2> QED
    BY <2>1 DEF InsightsHold, OfCollege
<1>10. TenantSeesOwn
  <2>1. shown.rows = {}
    BY <1>1
  <2> QED
    BY <2>1 DEF TenantSeesOwn
<1>11. FlagsHold
  <2>1. \A s \in Sessions : flags[s] = <<>> /\ Len(flags[s]) = 0 /\ DOMAIN flags[s] = {} /\ marked[s] = 0
    BY <1>1
  <2>2. <<>> \in UNION {[1..n -> Verdicts] : n \in 0..MaxFlags}
    <3>1. 0 \in 0..MaxFlags
      BY StaffAssumption
    <3>2. <<>> \in [1..0 -> Verdicts]
      OBVIOUS
    <3> QED
      BY <3>1, <3>2
  <2>3. flags \in [Sessions -> UNION {[1..n -> Verdicts] : n \in 0..MaxFlags}]
    BY <1>1, <2>2
  <2>4. \A s \in Sessions : Reviewing(s) = {}
    <3>1. \A r \in Requests : req[r].op # "marking"
      BY <1>1, IdleServes
    <3> QED
      BY <3>1 DEF Reviewing
  <2>5. StaffTypeOK
    BY <1>1, <2>1, <2>3 DEF StaffTypeOK
  <2>6. FlagsFollowVerdict /\ OneReview
    BY <2>1, <2>4 DEF FlagsFollowVerdict, OneReview
  <2> QED
    BY <2>5, <2>6 DEF FlagsHold
<1> QED
  BY <1>2, <1>3, <1>4, <1>6, <1>8, <1>9, <1>10, <1>11 DEF ViewsInv

LEMMA ReportStep ==
  ASSUME ViewsInv, UNCHANGED securityRows, ReportNext PROVE ViewsInv'
<1>1. CASE \E u \in Users : CreateReport(u)
  BY <1>1, CreateReportKeeps
<1>2. CASE \E u \in Users, i \in 1..MaxReports : DeleteReport(u, i)
  BY <1>2, DeleteReportKeeps
<1>3. CASE \E u \in Users, c \in Colleges \cup {None} : ResultReports(u, c)
  BY <1>3, ReportShown
<1>4. CASE \E u \in Users, j \in 1..MaxRuns : CancelReportJob(u, j)
  BY <1>4, JobChanges
<1>5. CASE \E u \in Users, j \in 1..MaxRuns : DownloadReport(u, j)
  BY <1>5, DownloadShown
<1>6. CASE \E j \in 1..MaxRuns : FileExpires(j)
  BY <1>6, JobChanges
<1>7. CASE \E r \in Requests : RunJob(r) \/ RunFile(r)
  BY <1>7, RunJobKeeps, RunFileKeeps
<1>8. CASE \E r \in Requests, u \in Users, i \in 1..MaxReports, c \in Colleges \cup {None} :
               RunReport(r, u, i, c)
  BY <1>8, RunReportKeeps
<1> QED
  BY <1>1, <1>2, <1>3, <1>4, <1>5, <1>6, <1>7, <1>8 DEF ReportNext

LEMMA DashboardStep ==
  ASSUME ViewsInv, UNCHANGED securityRows, DashboardNext PROVE ViewsInv'
<1>1. CASE \E r \in Requests : CacheFill(r) \/ Answer(r) \/ WriteInsight(r)
  BY <1>1, CacheFillKeeps, AnswerKeeps, WriteInsightKeeps
<1>2. CASE \E r \in Requests, u \in Users, c \in Colleges \cup {None} :
               CollegeAnalytics(r, u, c) \/ GenerateInsights(r, u, c)
  BY <1>2, CollegeKeeps
<1>3. CASE \E k \in CacheKeys : CacheExpires(k)
  BY <1>3, CacheExpiresKeeps
<1>4. CASE \E u \in Users, i \in 1..MaxInsights, status \in {"USEFUL", "DISMISSED"} :
               ReviewInsight(u, i, status)
  BY <1>4, ReviewInsightKeeps
<1> QED
  BY <1>1, <1>2, <1>3, <1>4 DEF DashboardNext

LEMMA BoardStep ==
  ASSUME ViewsInv, UNCHANGED securityRows, BoardNext \/ \E x \in Results : NewResultRow(x)
  PROVE  ViewsInv'
<1>1. CASE \E u \in Users, s \in Users : StudentAnalytics(u, s)
  BY <1>1, StudentShown
<1>2. CASE \E r \in Requests : StoreBoard(r)
  BY <1>2, StoreBoardKeeps
<1>3. CASE \E r \in Requests, u \in Users, a \in Assessments : Leaderboard(r, u, a)
  BY <1>3, LeaderboardKeeps
<1>4. CASE \E x \in Results : NewResultRow(x) \/ \E b \in BOOLEAN : PublishRow(x, b)
  BY <1>4, RowsKeep
<1> QED
  BY <1>1, <1>2, <1>3, <1>4 DEF BoardNext

LEMMA StaffStep ==
  ASSUME ViewsInv, StaffNext PROVE ViewsInv'
<1>1. CASE \E u \in Users : ReviewList(u) \/ OperationsAnalytics(u) \/ SecuritySummary(u)
  BY <1>1, StaffShown
<1>2. CASE \E u \in Users, a \in Assessments : AssessmentResults(u, a)
  BY <1>2, ResultsShown
<1>3. CASE \E u \in Users : \E a \in Assessments : ExportResults(u, a)
  BY <1>3, StaffShown
<1>4. CASE \E u \in Users : \E c \in Colleges \cup {None} : OperationsDashboard(u, c)
  BY <1>4, StaffShown
<1>5. CASE \E u \in Users, s \in Sessions : LogSecurityEvent(u, s)
  BY <1>5, LogSecurityEventKeeps
<1>6. CASE \E r \in Requests, u \in Users, s \in Sessions, status \in Verdicts :
               UpsertVerdict(r, u, s, status)
  BY <1>6, UpsertVerdictKeeps
<1>7. CASE \E r \in Requests : MarkFlags(r)
  BY <1>7, MarkFlagsKeeps
<1> QED
  BY <1>1, <1>2, <1>3, <1>4, <1>5, <1>6, <1>7 DEF StaffNext

LEMMA ViewsIdle ==
  ASSUME ViewsInv, UNCHANGED staffVars PROVE ViewsInv'
<1>1. /\ UNCHANGED <<row, reportRows>> /\ UNCHANGED <<row, run, securityRows, req>>
  BY DEF staffVars, reportVars, reportRows, evidenceVars
<1>2. HandlersServe' /\ JobHasFile' /\ FlagsHold'
  BY <1>1, NotHandled DEF ViewsInv
<1> QED
  BY <1>1, <1>2, OnlyFlags DEF ViewsInv, reportRows

LEMMA ViewsStep ==
  ASSUME ViewsInv, [ViewsNext]_staffVars PROVE ViewsInv'
<1>1. CASE ReportNext /\ UNCHANGED securityRows
  BY <1>1, ReportStep
<1>2. CASE DashboardNext /\ UNCHANGED securityRows
  BY <1>2, DashboardStep
<1>3. CASE (BoardNext \/ \E x \in Results : NewResultRow(x)) /\ UNCHANGED securityRows
  BY <1>3, BoardStep
<1>4. CASE StaffNext
  BY <1>4, StaffStep
<1>5. CASE ViewsCrash
  BY <1>5, ViewsCrashKeeps
<1>6. CASE UNCHANGED staffVars
  BY <1>6, ViewsIdle
<1> QED
  BY <1>1, <1>2, <1>3, <1>4, <1>5, <1>6 DEF ViewsNext

LEMMA ViewsAre == ViewsInv => ViewsConsistent
<1> SUFFICES ASSUME ViewsInv PROVE ViewsConsistent
  OBVIOUS
<1>1. StatsAgree
  BY StatsDoAgree DEF ViewsInv
<1>2. ReportsConsistent
  BY <1>1 DEF ViewsInv, ReportsConsistent, BoardHolds
<1>3. row \in [Results -> StudentResult] /\ RowsAgree
  BY DEF ViewsInv, RowsHold
<1>4. \A j \in 1..MaxRuns : run[j].status \in {"NONE", "COMPLETED", "CANCELLED"}
                            /\ run[j].rows \subseteq Results
  BY DEF ViewsInv, TablesTyped, RunColumns
<1>5. \A i \in 1..MaxInsights : insight[i].basis \subseteq Results
  BY DEF ViewsInv, InsightsHold, OfCollege
<1>6. DOMAIN cache \subseteq CacheKeys /\ \A k \in DOMAIN cache : cache[k] \subseteq Results
  BY DEF ViewsInv, CacheHolds, OfCollege
<1>7. \A i \in 1..MaxReports : report[i] = NoReport \/ report[i].owner \in Users
  BY DEF ViewsInv, TablesTyped
<1>8. shown.user \in Users \cup {None} /\ shown.rows \subseteq Results
  BY DEF ViewsInv, TablesTyped
<1>9. \A i \in DOMAIN board : board[i].id \in Results
  BY DEF ViewsInv, BoardHolds, BoardTyped
<1>10. ReportsTypeOK
  BY <1>3, <1>4, <1>5, <1>6, <1>7, <1>8, <1>9 DEF ReportsTypeOK
<1> QED
  BY <1>2, <1>10 DEF ViewsInv, FlagsHold, ViewsConsistent

\* What reports, files, dashboards, leaderboards and views of staff show is of
\* the user's own college and, for a student, the own results; a completed job
\* has the file it counted, percentiles, medians and histograms are what the
\* pages explain, and flags follow the verdict of the last review.
THEOREM ViewsAgree == ViewsSpec => []ViewsConsistent
<1>1. ViewsInit => ViewsInv
  BY ViewsStarts
<1>2. ViewsInv /\ [ViewsNext]_staffVars => ViewsInv'
  BY ViewsStep
<1>3. ViewsInv => ViewsConsistent
  BY ViewsAre
<1> QED
  BY <1>1, <1>2, <1>3, PTL DEF ViewsSpec
=============================================================================
