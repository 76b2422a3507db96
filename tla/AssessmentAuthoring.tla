------------------------- MODULE AssessmentAuthoring -------------------------
(***************************************************************************)
(* The assessment side of QuestionBankService, over the question bank:      *)
(* sections, attached questions, import sets, assignments, the recomputed   *)
(* total of marks, scheduling, publication and cancellation.  Every handler *)
(* that changes sections or questions ends in recalculateAssessmentMarks,   *)
(* which reads all rows and writes the total in a later statement; a        *)
(* publication recalculates, checks the blockers on a second read and       *)
(* writes the status in a third statement.  No statement is conditional on  *)
(* what was read, so requests interleave freely.                            *)
(***************************************************************************)
EXTENDS QuestionBank, FiniteSetsExt, SequencesExt

CONSTANTS Assessments, Sections, Requests, Targets,
          QuestionMarks, SectionMarks,  \* marks asked for (a section's 0: not set)
          PassingMarks,
          Orders,           \* display positions a client asks for
          DefaultMarks      \* defaultMarks of the questions of an import set

ASSUME AuthoringAssumption ==
    /\ QuestionMarks \subseteq Nat /\ SectionMarks \subseteq Nat
    /\ PassingMarks \subseteq Nat /\ DefaultMarks \in Nat /\ Orders \subseteq Nat
    /\ None \notin Assessments \cup Sections /\ IsFiniteSet(Sections)

VARIABLES assessments, sections, attached, assigned,
          req,        \* the handlers in flight: what each read, where it is
          drift,      \* history: total last written from outdated rows, or never
          approved    \* history: published on checks that are still current

authoringVars == <<assessments, sections, attached, assigned, req, drift, approved>>
vars == <<bankVars, authoringVars>>

AssessmentStatus == {"DRAFT", "SCHEDULED", "PUBLISHED", "CANCELLED"}
NoAssessment == [status |-> "NONE", deleted |-> FALSE, college |-> None, subject |-> None,
                 owner |-> None, total |-> 0, passing |-> 0]
AssessmentRow == [status : AssessmentStatus \cup {"NONE"}, deleted : BOOLEAN,
                  college : Colleges \cup {None}, subject : Subjects \cup {None},
                  owner : Users \cup {None}, total : Nat, passing : Nat]
SectionRow == [a : Assessments \cup {None}, marks : Nat]
AttachedRow == [on : BOOLEAN, section : Sections \cup {None}, order : Nat, marks : Nat]
NoRow == [on |-> FALSE, section |-> None, order |-> 0, marks |-> 0]
NoReq == [at |-> "idle", a |-> None, status |-> "NONE", asked |-> FALSE,
          subject |-> None, passing |-> 0, publish |-> FALSE, sum |-> 0,
          set |-> {}, section |-> None, first |-> 0,
          clean |-> TRUE,     \* history: no row it summed has changed since
          current |-> TRUE]   \* history: nothing it read has changed since
ReqRow == [at : {"idle", "sum", "store", "blockers", "approve", "save", "attach"},
           a : Assessments \cup {None}, status : AssessmentStatus \cup {"NONE"},
           asked : BOOLEAN, subject : Subjects \cup {None}, passing : Nat,
           publish : BOOLEAN, sum : Nat, set : SUBSET Questions,
           section : Sections \cup {None}, first : Nat,
           clean : BOOLEAN, current : BOOLEAN]

\* Every table, request and history variable has its type, and every row a
\* college.
TypeOK ==
    /\ BankTypeOK
    /\ assessments \in [Assessments -> AssessmentRow]
    /\ sections \in [Sections -> SectionRow]
    /\ attached \in [Assessments -> [Questions -> AttachedRow]]
    /\ assigned \in [Assessments -> SUBSET Targets]
    /\ req \in [Requests -> ReqRow]
    /\ \A a \in Assessments :
          assessments[a].status # "NONE" => assessments[a].college # None
    /\ drift \subseteq Assessments /\ approved \subseteq Assessments

-----------------------------------------------------------------------------
\* findAssessment with assessmentScopeWhere; deleted rows are found too
FindAssessment(u, a) ==
    LET row == assessments[a] IN
    /\ Staff(u) /\ row.status # "NONE"
    /\ \/ RoleOf[u] = "SUPER_ADMIN"
       \/ row.college = CollegeOf[u] /\ (RoleOf[u] = "FACULTY" => row.owner = u)

Rows(a) == {q \in Questions : attached[a][q].on}
SectionsOf(a) == {s \in Sections : sections[s].a = a}

\* recalculateAssessmentMarks: the marks of the questions of one section
QuestionsBySection(a, s) ==
    MapThenSumSet(LAMBDA q : attached[a][q].marks,
                  {q \in Rows(a) : attached[a][q].section = s})
\* Mutant: a section counts its own marks and those of its questions.
MutCountedMarks(a) ==
    MapThenSumSet(LAMBDA q : attached[a][q].marks, Rows(a))
    + MapThenSumSet(LAMBDA s : sections[s].marks, SectionsOf(a))

\* ... and the total; sectionMarks is 0 unless positive marks are configured
CountedMarks(a) ==
    QuestionsBySection(a, None)
    + MapThenSumSet(LAMBDA s : IF sections[s].marks > 0 THEN sections[s].marks
                               ELSE QuestionsBySection(a, s), SectionsOf(a))

\* Mutant: the status of the questions is not looked at.
MutBlocked(a, total) ==
    \/ Rows(a) = {} \/ assigned[a] = {} \/ total <= 0 \/ assessments[a].passing > total

\* publishBlockers, on the rows as they are and the total it is given
Blocked(a, total) ==
    \/ Rows(a) = {} \/ assigned[a] = {}
    \/ total <= 0 \/ assessments[a].passing > total
    \/ \E q \in Rows(a) : \/ questions[q].status # "ACTIVE"
                          \/ questions[q].coding /\ ~questions[q].complete

\* requests that have read assessment a hold an outdated copy of it; rows:
\* its sections or questions changed too
Touch(a, rows, q) == [r \in Requests |->
    IF q[r].a = a THEN [q[r] EXCEPT !.current = FALSE, !.clean = @ /\ ~rows]
    ELSE q[r]]

Idle(r) == req[r].at = "idle"

\* a handler that changed rows of a goes on to recalculate
Recalculate(r, a) ==
    /\ req' = Touch(a, TRUE, [req EXCEPT ![r] = [NoReq EXCEPT !.at = "sum", !.a = a]])
    /\ requests' = requests + 1
    /\ approved' = approved \ {a}
    /\ UNCHANGED drift

\* a request of one statement, which changes something a publication checks
Commit(a) ==
    /\ req' = Touch(a, FALSE, req)
    /\ requests' = requests + 1
    /\ approved' = approved \ {a}
    /\ UNCHANGED <<bankRows, sections, attached, drift>>

-----------------------------------------------------------------------------
(* Assessments. *)

CreateAssessment(u, a, college, subject, passing) ==
    /\ Staff(u) /\ assessments[a].status = "NONE"
    /\ subject # None => SubjectAccess(u, WriteCollege(u, college), subject)
    /\ assessments' = [assessments EXCEPT ![a] = [NoAssessment EXCEPT
           !.status = "DRAFT", !.college = WriteCollege(u, college),
           !.subject = subject, !.owner = u, !.passing = passing]]
    /\ Commit(a)
    /\ UNCHANGED assigned

\* the copy takes over the stored total and the sections without their marks,
\* and none of the questions
DuplicateAssessment(u, a, copy, s) ==
    /\ FindAssessment(u, a)
    /\ assessments[copy].status = "NONE" /\ sections[s].a = None
    /\ assessments' = [assessments EXCEPT ![copy] =
           [assessments[a] EXCEPT !.status = "DRAFT", !.deleted = FALSE, !.owner = u]]
    /\ sections' = IF SectionsOf(a) = {} THEN sections
                   ELSE [sections EXCEPT ![s] = [a |-> copy, marks |-> 0]]
    /\ drift' = drift \cup {copy}
    /\ requests' = requests + 1
    /\ UNCHANGED <<bankRows, attached, assigned, req, approved>>

\* Mutant: an edit without a status makes the assessment a draft.
MutUpdateAssessmentRead(r, u, a, status, subject, passing) ==
    /\ Idle(r) /\ FindAssessment(u, a)
    /\ req' = [req EXCEPT ![r] = [NoReq EXCEPT !.at = "save", !.a = a,
           !.asked = status # "NONE", !.status = IF status = "NONE" THEN "DRAFT" ELSE status,
           !.subject = assessments[a].subject, !.passing = passing]]
    /\ requests' = requests + 1
    /\ UNCHANGED <<bankRows, assessments, sections, attached, assigned, drift, approved>>

\* updateAssessment: the row is read, then written back with the payload's
\* fields over the ones read, the status included
UpdateAssessmentRead(r, u, a, status, subject, passing) ==
    /\ Idle(r) /\ FindAssessment(u, a)
    /\ subject # None => SubjectAccess(u, assessments[a].college, subject)
    /\ req' = [req EXCEPT ![r] = [NoReq EXCEPT !.at = "save", !.a = a,
           !.asked = status # "NONE",
           !.status = IF status = "NONE" THEN assessments[a].status ELSE status,
           !.subject = IF subject = None THEN assessments[a].subject ELSE subject,
           !.passing = passing]]
    /\ requests' = requests + 1
    /\ UNCHANGED <<bankRows, assessments, sections, attached, assigned, drift, approved>>

UpdateAssessmentWrite(r) ==
    LET w == req[r] IN
    /\ w.at = "save"
    /\ assessments' = [assessments EXCEPT ![w.a].status = w.status,
           ![w.a].subject = w.subject, ![w.a].passing = w.passing]
    /\ req' = Touch(w.a, FALSE, [req EXCEPT ![r] = NoReq])
    /\ approved' = approved \ {w.a}
    /\ UNCHANGED <<bankRows, sections, attached, assigned, requests, drift>>

DeleteAssessment(u, a) ==
    /\ FindAssessment(u, a)
    /\ assessments' = [assessments EXCEPT ![a].status = "CANCELLED", ![a].deleted = TRUE]
    /\ Commit(a)
    /\ UNCHANGED assigned

CancelAssessment(u, a) ==
    /\ FindAssessment(u, a)
    /\ assessments' = [assessments EXCEPT ![a].status = "CANCELLED"]
    /\ Commit(a)
    /\ UNCHANGED assigned

\* scheduleAssessment, past its check that the start is before the end
ScheduleAssessment(u, a) ==
    /\ FindAssessment(u, a)
    /\ assessments' = [assessments EXCEPT ![a].status = "SCHEDULED"]
    /\ Commit(a)
    /\ UNCHANGED assigned

\* addAssessmentAssignments: ensureBatchInCollege and ensureStudentInCollege
\* make Targets the batches and students of the assessment's college
AddAssignment(u, a, t) ==
    /\ FindAssessment(u, a)
    /\ assigned' = [assigned EXCEPT ![a] = @ \cup {t}]
    /\ Commit(a)
    /\ UNCHANGED assessments

DeleteAssignment(u, a, t) ==
    /\ FindAssessment(u, a)
    /\ assigned' = [assigned EXCEPT ![a] = @ \ {t}]
    /\ Commit(a)
    /\ UNCHANGED assessments

-----------------------------------------------------------------------------
(* Sections and questions of an assessment. *)

AddSection(r, u, a, s, marks) ==
    /\ Idle(r) /\ FindAssessment(u, a) /\ sections[s].a = None
    /\ sections' = [sections EXCEPT ![s] = [a |-> a, marks |-> marks]]
    /\ Recalculate(r, a)
    /\ UNCHANGED <<bankRows, assessments, attached, assigned>>

UpdateSection(r, u, a, s, marks) ==
    /\ Idle(r) /\ FindAssessment(u, a) /\ sections[s].a = a
    /\ sections' = [sections EXCEPT ![s].marks = marks]
    /\ Recalculate(r, a)
    /\ UNCHANGED <<bankRows, assessments, attached, assigned>>

\* the section's questions stay, without a section
DeleteSection(r, u, a, s) ==
    /\ Idle(r) /\ FindAssessment(u, a) /\ sections[s].a = a
    /\ sections' = [sections EXCEPT ![s] = [a |-> None, marks |-> 0]]
    /\ attached' = [attached EXCEPT ![a] = [q \in Questions |->
           IF @[q].section = s THEN [@[q] EXCEPT !.section = None] ELSE @[q]]]
    /\ Recalculate(r, a)
    /\ UNCHANGED <<bankRows, assessments, assigned>>

\* the two unique keys of assessmentQuestion: (assessment, question) and
\* (assessment, displayOrder)
Free(a, q, order) ==
    ~attached[a][q].on /\ \A x \in Rows(a) : attached[a][x].order # order

AddAssessmentQuestion(r, u, a, q, s, order, marks) ==
    /\ Idle(r) /\ FindAssessment(u, a) /\ FindQuestion(u, q)
    /\ s # None => sections[s].a = a       \* the builder sends its own sections
    /\ assessments[a].college = questions[q].college
    /\ Free(a, q, order)
    /\ attached' = [attached EXCEPT ![a][q] =
           [on |-> TRUE, section |-> s, order |-> order, marks |-> marks]]
    /\ Recalculate(r, a)
    /\ UNCHANGED <<bankRows, assessments, sections, assigned>>

DeleteAssessmentQuestion(r, u, a, q) ==
    /\ Idle(r) /\ FindAssessment(u, a) /\ attached[a][q].on
    /\ attached' = [attached EXCEPT ![a][q] = NoRow]
    /\ Recalculate(r, a)
    /\ UNCHANGED <<bankRows, assessments, sections, assigned>>

FirstFree(a) == 1 + Max({0} \cup {attached[a][q].order : q \in Rows(a)})

\* addAssessmentImportSetQuestions up to createMany: the set's questions and
\* the first free position are read
ImportSetRead(r, u, a, id, s) ==
    LET set == SetQuestions(u, assessments[a].college, assessments[a].subject, id) IN
    /\ Idle(r) /\ FindAssessment(u, a) /\ assessments[a].subject # None
    /\ s # None => sections[s].a = a
    /\ set # {}
    /\ req' = [req EXCEPT ![r] = [NoReq EXCEPT !.at = "attach", !.a = a,
           !.set = set, !.section = s,
           !.first = FirstFree(a)]]
    /\ requests' = requests + 1
    /\ UNCHANGED <<bankRows, assessments, sections, attached, assigned, drift, approved>>

\* createMany with skipDuplicates: a row that meets either unique key is left
\* out; the statement fails when the section is gone
ImportSetAttach(r) ==
    LET w == req[r]
        order == [q \in w.set |->
                    w.first - 1 + CHOOSE i \in 1..Cardinality(w.set) :
                                     SetToSeq(w.set)[i] = q]
    IN /\ w.at = "attach" /\ (w.section # None => sections[w.section].a = w.a)
       /\ attached' = [attached EXCEPT ![w.a] = [q \in Questions |->
              IF q \in w.set /\ Free(w.a, q, order[q])
              THEN [on |-> TRUE, section |-> w.section,
                    order |-> order[q], marks |-> DefaultMarks]
              ELSE @[q]]]
       /\ req' = Touch(w.a, TRUE, [req EXCEPT ![r] = [NoReq EXCEPT !.at = "sum", !.a = w.a]])
       /\ approved' = approved \ {w.a}
       /\ UNCHANGED <<bankRows, assessments, sections, assigned, requests, drift>>

-----------------------------------------------------------------------------
(* recalculateAssessmentMarks and publishAssessment. *)

\* previewAssessment recalculates and shows the blockers, publishAssessment
\* recalculates and goes on
PreviewOrPublish(r, u, a, publish) ==
    /\ Idle(r) /\ FindAssessment(u, a)
    /\ req' = [req EXCEPT ![r] = [NoReq EXCEPT !.at = "sum", !.a = a,
                                               !.publish = publish]]
    /\ requests' = requests + 1
    /\ UNCHANGED <<bankRows, assessments, sections, attached, assigned, drift, approved>>

SumMarks(r) ==
    /\ req[r].at = "sum"
    /\ req' = [req EXCEPT ![r] = [@ EXCEPT !.at = "store", !.clean = TRUE,
                   !.current = TRUE, !.sum = CountedMarks(req[r].a)]]
    /\ UNCHANGED <<bankRows, assessments, sections, attached, assigned,
                   requests, drift, approved>>

StoreTotal(r) ==
    LET w == req[r] IN
    /\ w.at = "store"
    /\ assessments' = [assessments EXCEPT ![w.a].total = w.sum]
    /\ drift' = IF w.clean THEN drift \ {w.a} ELSE drift \cup {w.a}
    /\ req' = [req EXCEPT ![r] = IF w.publish THEN [w EXCEPT !.at = "blockers"]
                                 ELSE NoReq]
    /\ UNCHANGED <<bankRows, sections, attached, assigned, requests, approved>>

CheckBlockers(r) ==
    /\ req[r].at = "blockers"
    /\ req' = [req EXCEPT ![r] = IF Blocked(@.a, @.sum) THEN NoReq
                                 ELSE [@ EXCEPT !.at = "approve"]]
    /\ UNCHANGED <<bankRows, assessments, sections, attached, assigned,
                   requests, drift, approved>>

Approve(r) ==
    LET w == req[r] IN
    /\ w.at = "approve"
    /\ assessments' = [assessments EXCEPT ![w.a].status = "PUBLISHED"]
    /\ approved' = IF w.current THEN approved \cup {w.a} ELSE approved \ {w.a}
    /\ req' = Touch(w.a, FALSE, [req EXCEPT ![r] = NoReq])
    /\ UNCHANGED <<bankRows, sections, attached, assigned, requests, drift>>

\* the process dies or a statement fails: what was to follow never happens
RequestLost(r) ==
    /\ req[r].at # "idle"
    /\ drift' = IF req[r].at \in {"sum", "store"} THEN drift \cup {req[r].a} ELSE drift
    /\ req' = [req EXCEPT ![r] = NoReq]
    /\ UNCHANGED <<bankRows, assessments, sections, attached, assigned, requests, approved>>

\* a change to the bank ends the approval of assessments with the question
BankStep ==
    LET changed(a) == \E q \in Rows(a) : questions'[q] # questions[q] IN
    /\ BankNext
    /\ approved' = {a \in approved : ~changed(a)}
    /\ req' = [r \in Requests |->
           IF req[r].a # None /\ changed(req[r].a)
           THEN [req[r] EXCEPT !.current = FALSE] ELSE req[r]]
    /\ UNCHANGED <<assessments, sections, attached, assigned, drift>>

-----------------------------------------------------------------------------
AuthoringInit ==
    /\ assessments = [a \in Assessments |-> NoAssessment]
    /\ sections = [s \in Sections |-> [a |-> None, marks |-> 0]]
    /\ attached = [a \in Assessments |-> [q \in Questions |-> NoRow]]
    /\ assigned = [a \in Assessments |-> {}]
    /\ req = [r \in Requests |-> NoReq]
    /\ drift = {} /\ approved = {}

Init == BankInit /\ AuthoringInit

Authors(route) == Callers(AssessmentRoutes, route)
AuthoringRequest ==
    \/ \E u \in Authors("createAssessment"), a \in Assessments, c \in Colleges,
          s \in Subjects \cup {None}, p \in PassingMarks : CreateAssessment(u, a, c, s, p)
    \/ \E u \in Authors("duplicateAssessment"), a, copy \in Assessments, s \in Sections :
          DuplicateAssessment(u, a, copy, s)
    \/ \E r \in Requests, u \in Authors("updateAssessment"), a \in Assessments,
          status \in {"NONE", "DRAFT", "PUBLISHED"}, s \in Subjects \cup {None},
          p \in PassingMarks : UpdateAssessmentRead(r, u, a, status, s, p)
    \/ \E a \in Assessments :
          \/ \E u \in Authors("deleteAssessment") : DeleteAssessment(u, a)
          \/ \E u \in Authors("cancelAssessment") : CancelAssessment(u, a)
          \/ \E u \in Authors("scheduleAssessment") : ScheduleAssessment(u, a)
    \/ \E a \in Assessments, t \in Targets :
          \/ \E u \in Authors("addAssignment") : AddAssignment(u, a, t)
          \/ \E u \in Authors("deleteAssignment") : DeleteAssignment(u, a, t)
    \/ \E r \in Requests, a \in Assessments, s \in Sections :
          \/ \E u \in Authors("addSection"), m \in SectionMarks : AddSection(r, u, a, s, m)
          \/ \E u \in Authors("updateSection"), m \in SectionMarks : UpdateSection(r, u, a, s, m)
          \/ \E u \in Authors("deleteSection") : DeleteSection(r, u, a, s)
    \/ \E r \in Requests, a \in Assessments, q \in Questions :
          \/ \E u \in Authors("addAssessmentQuestion"), s \in Sections \cup {None},
                o \in Orders, m \in QuestionMarks : AddAssessmentQuestion(r, u, a, q, s, o, m)
          \/ \E u \in Authors("deleteAssessmentQuestion") : DeleteAssessmentQuestion(r, u, a, q)
    \/ \E r \in Requests, u \in Authors("addImportSet"), a \in Assessments, id \in SetIds,
          s \in Sections \cup {None} : ImportSetRead(r, u, a, id, s)
    \/ \E r \in Requests, a \in Assessments :
          \/ \E u \in Authors("previewAssessment") : PreviewOrPublish(r, u, a, FALSE)
          \/ \E u \in Authors("publishAssessment") : PreviewOrPublish(r, u, a, TRUE)

AuthoringContinue ==
    \E r \in Requests : \/ UpdateAssessmentWrite(r) \/ ImportSetAttach(r)
                        \/ SumMarks(r) \/ StoreTotal(r) \/ CheckBlockers(r)
                        \/ Approve(r) \/ RequestLost(r)

Next == BankStep \/ (requests < MaxRequests /\ AuthoringRequest) \/ AuthoringContinue

Spec == Init /\ [][Next]_vars

-----------------------------------------------------------------------------
(* Properties. *)

\* The questions that count themselves: no section with marks of its own stands
\* for them.
Standing(a) == {q \in Rows(a) : \A s \in SectionsOf(a) :
    attached[a][q].section = s => sections[s].marks = 0}

\* Whatever requests interleave, the stored total of an assessment is the sum
\* of its parts once nothing is being recalculated, unless the last
\* recalculation to write had read rows that changed before it wrote (or died
\* in between, or the assessment is an untouched copy): a lost race is
\* repaired by the next recalculation that runs alone.  The sum counts every
\* attached question once, or its section in its stead.
TotalExact ==
    \A a \in Assessments :
        (a \notin drift /\ \A r \in Requests : req[r].a = a => req[r].at \notin {"sum", "store"})
        => assessments[a].total =
             MapThenSumSet(LAMBDA q : attached[a][q].marks, Standing(a))
             + MapThenSumSet(LAMBDA s : sections[s].marks, SectionsOf(a))

\* An assessment that was published, and of which nothing that publication
\* checks has changed since the marks were summed, has questions, an audience,
\* attainable passing marks and only active, complete questions: the three
\* statements of publishAssessment check what they publish.
PublishedIsReady ==
    \A a \in approved : /\ assessments[a].status = "PUBLISHED"
                        /\ Rows(a) # {} /\ assigned[a] # {}
                        /\ CountedMarks(a) >= 1 /\ CountedMarks(a) >= assessments[a].passing
                        /\ \A q \in Rows(a) : /\ questions[q].status = "ACTIVE"
                                              /\ questions[q].coding => questions[q].complete

\* A cancelled assessment leaves that state only through a request to
\* schedule, publish or set a status, or through an edit that read it before
\* it was cancelled: an edit of other fields started later does not revive it.
CancellationStands ==
    [][\A a \in Assessments :
         assessments[a].status = "CANCELLED" /\ assessments'[a].status # "CANCELLED"
         => \/ assessments'[a].status = "SCHEDULED"
            \/ \E r \in Requests : /\ req[r].a = a
                                   /\ \/ req[r].at = "approve"
                                      \/ req[r].at = "save" /\ (req[r].asked \/ ~req[r].current)]_vars

\* The questions of an assessment, their subjects and its sections belong to
\* the assessment's college, for platform users too, who are not limited to
\* one college when they look a question up.
RowsInTenant ==
    \A a \in Assessments : \A q \in Rows(a) :
        /\ questions[q].college = assessments[a].college
        /\ SubjectCollege[questions[q].subject] = assessments[a].college
        /\ attached[a][q].section # None => sections[attached[a][q].section].a = a

\* Attaching an import set attaches every question of it, unless the
\* assessment changed between the read of the positions and the insertion.
ImportSetWhole ==
    [][\A r \in Requests :
         req[r].at = "attach" /\ req'[r].at = "sum" /\ req[r].current
         => \A q \in req[r].set : attached'[req[r].a][q].on]_vars

\* What the builder offers, it can attach: every listed import set selects a
\* question when it is attached by its identifier, and every offered question
\* is one the user finds, lists and may attach to this assessment.
OffersAttach ==
    \A u \in Users, a \in Assessments :
        LET c == assessments[a].college  s == assessments[a].subject IN
        FindAssessment(u, a) =>
            /\ s # None => \A id \in ListedSets(u, c, s) : SetQuestions(u, c, s, id) # {}
            /\ \A q \in Offered(u, c, s) : /\ FindQuestion(u, q) /\ q \in Listed(u, c)
                                           /\ questions[q].college = c

\* The counters of a finished import cover every row of the file once, and its
\* successes are exactly the questions that carry its identifier; a row whose
\* question was created but not tagged counts as failed.
ImportAccounts ==
    \A j \in Jobs :
        jobs[j].ok + jobs[j].failed > 0
        => /\ jobs[j].ok + jobs[j].failed = jobs[j].total
           /\ jobs[j].ok = Cardinality({q \in Questions : questions[q].job = j})

\* A deleted question comes back only through a change of status that had
\* read it before it was deleted.
DeletionStands ==
    [][\A q \in Questions : questions[q].deleted /\ ~questions'[q].deleted
         => \E e \in Editors : edit[e].op = "status" /\ edit[e].q = q /\ ~edit[e].clean]_vars

\* No request undoes a change it could not have known of: cancellations and
\* deletions stand, and an import set is attached as a whole.
ChangesStand ==
    /\ CancellationStands
    /\ DeletionStands
    /\ ImportSetWhole

\* An ACTIVE coding question has its configuration, except after an
\* activation that validated a row which was edited before the write.
ActiveIsComplete ==
    \A q \in Questions \ suspect :
        questions[q].status = "ACTIVE" => questions[q].complete

\* Rows of the bank and the builder agree while their requests interleave: they
\* stay in one tenant, what is offered can be attached, imports account for every
\* row, and active coding questions are complete.
AuthoringConsistent ==
    /\ TypeOK
    /\ RowsInTenant
    /\ OffersAttach
    /\ ImportAccounts
    /\ ActiveIsComplete
=============================================================================
