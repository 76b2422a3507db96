---------------------------- MODULE QuestionBank ----------------------------
(***************************************************************************)
(* The question bank of QuestionBankService: tenant scoping of staff, the   *)
(* life of a question (create, edit, change of status, copy, archive) and   *)
(* the import of a file of questions row by row.  Every handler reads the   *)
(* question with findQuestion and writes it in a later statement, so an     *)
(* edit and a change of status are two steps; createQuestion is one         *)
(* transaction.  Texts, options and tags are abstracted: a question is      *)
(* "complete" when its answer key (a coding question: its coding            *)
(* configuration with a test case) is present.                              *)
(***************************************************************************)
EXTENDS Integers, FiniteSets, AccessControl

CONSTANTS Questions,        \* identifiers rows can get
          Jobs,             \* identifiers of import jobs
          Users, RoleOf, CollegeOf, Teaches,
          Colleges, Subjects, SubjectCollege,
          Editors,          \* slots for staff requests to the bank in flight
          MaxRequests,      \* bound: requests started, here and in the builder
          Payloads,         \* the kinds of question a client sends
          MaxRows,          \* bound: rows of an import file
          None

QuestionStatus == {"DRAFT", "ACTIVE", "INACTIVE", "ARCHIVED"}

ASSUME BankAssumption ==
    /\ RoleOf \in [Users -> Roles]
    /\ CollegeOf \in [Users -> Colleges \cup {None}]
    /\ Teaches \in [Users -> SUBSET Subjects]
    /\ SubjectCollege \in [Subjects -> Colleges]
    /\ Payloads \subseteq [coding : BOOLEAN, complete : BOOLEAN]
    /\ MaxRequests \in Nat /\ MaxRows \in Nat
    /\ None \notin Questions \cup Jobs \cup Users \cup Colleges \cup Subjects
    /\ Jobs \cap {"legacy", "derived"} = {}
    /\ IsFiniteSet(Questions)

VARIABLES questions,   \* the table of questions, "NONE" where there is no row
          jobs,        \* questionImportJob rows
          edit,        \* what each slot's handler has read and will write
          suspect,     \* history: status written over a row edited since its read
          requests        \* requests started, the bound of the exploration

bankRows == <<questions, jobs, edit, suspect>>
bankVars == <<bankRows, requests>>

NoQuestion == [status |-> "NONE", deleted |-> FALSE, college |-> None,
               subject |-> None, owner |-> None, coding |-> FALSE,
               complete |-> FALSE, job |-> None, imported |-> "no"]
QuestionRow == [status : QuestionStatus \cup {"NONE"}, deleted : BOOLEAN,
                college : Colleges \cup {None}, subject : Subjects \cup {None},
                owner : Users \cup {None}, coding : BOOLEAN, complete : BOOLEAN,
                job : Jobs \cup {None}, imported : {"no", "plain", "grouped"}]
NoJob == [state |-> "NONE", college |-> None, subject |-> None,
          total |-> 0, ok |-> 0, failed |-> 0]
JobRow == [state : {"NONE", "COMPLETED", "COMPLETED_WITH_ERRORS"},
           college : Colleges \cup {None}, subject : Subjects \cup {None},
           total : 0..MaxRows, ok : 0..MaxRows, failed : 0..MaxRows]
NoEdit == [op |-> "idle", q |-> None, status |-> "NONE", deleted |-> FALSE,
           subject |-> None, complete |-> FALSE, coding |-> FALSE,
           user |-> None, job |-> None, ok |-> 0, failed |-> 0,
           clean |-> TRUE]
EditRow == [op : {"idle", "update", "status", "import", "tag"},
            q : Questions \cup {None}, status : QuestionStatus \cup {"NONE"},
            deleted : BOOLEAN, subject : Subjects \cup {None},
            complete : BOOLEAN, coding : BOOLEAN,
            user : Users \cup {None}, job : Jobs \cup {None},
            ok : 0..MaxRows, failed : 0..MaxRows, clean : BOOLEAN]

BankTypeOK ==
    /\ questions \in [Questions -> QuestionRow]
    /\ jobs \in [Jobs -> JobRow]
    /\ edit \in [Editors -> EditRow]
    /\ suspect \subseteq Questions /\ requests \in 0..MaxRequests

Exists(q) == questions[q].status # "NONE"

-----------------------------------------------------------------------------
(* Tenant scope. *)

\* scopeCollege without a requested college: which college a user's reads are
\* limited to; the students are refused and a platform user is not limited
Staff(u) == \/ RoleOf[u] = "SUPER_ADMIN"
            \/ RoleOf[u] \in {"COLLEGE_ADMIN", "FACULTY"} /\ CollegeOf[u] # None

\* scopeCollege(user, requested, true): the college a write is made in
WriteCollege(u, requested) ==
    IF RoleOf[u] = "SUPER_ADMIN" THEN requested ELSE CollegeOf[u]

\* questionScopeWhere(user, collegeId), collegeId = None when it is ""
InQuestionScope(u, college, q) ==
    LET row == questions[q] IN
    CASE RoleOf[u] = "SUPER_ADMIN" -> college = None \/ row.college = college
      [] RoleOf[u] = "FACULTY" -> /\ row.college = CollegeOf[u]
                                  /\ row.owner = u \/ row.subject \in Teaches[u]
      [] OTHER -> row.college = CollegeOf[u]

\* findQuestion: it does not filter deleted rows
FindQuestion(u, q) ==
    /\ Staff(u) /\ Exists(q)
    /\ InQuestionScope(u, IF RoleOf[u] = "SUPER_ADMIN" THEN None ELSE CollegeOf[u], q)

\* ensureSubjectAccess
SubjectAccess(u, college, subject) ==
    /\ SubjectCollege[subject] = college
    /\ RoleOf[u] = "FACULTY" => subject \in Teaches[u]

-----------------------------------------------------------------------------
(* The life of a question. *)

\* validateQuestion: a key for every type but CODING, which needs its
\* configuration only to become ACTIVE
ValidQuestion(coding, complete, status) ==
    complete \/ (coding /\ status # "ACTIVE")

\* every other request that holds a copy of row q now holds an old one
Outdate(q, e) == [x \in Editors |->
    IF e[x].q = q THEN [e[x] EXCEPT !.clean = FALSE] ELSE e[x]]

NewQuestion(u, college, subject, status, coding, complete, imported) ==
    [NoQuestion EXCEPT !.status = status, !.college = college,
        !.subject = subject, !.owner = u, !.coding = coding,
        !.complete = complete, !.imported = imported]

CreateQuestion(u, q, college, subject, status, coding, complete) ==
    /\ ~Exists(q) /\ Staff(u)
    /\ SubjectAccess(u, WriteCollege(u, college), subject)
    /\ ValidQuestion(coding, complete, status)
    /\ questions' = [questions EXCEPT ![q] = NewQuestion(u,
           WriteCollege(u, college), subject, status, coding, complete, "no")]
    /\ requests' = requests + 1
    /\ UNCHANGED <<jobs, edit, suspect>>

\* duplicateQuestion: the copy is a DRAFT of the caller, outside any import job
DuplicateQuestion(u, q, copy) ==
    /\ FindQuestion(u, q) /\ ~Exists(copy)
    /\ questions' = [questions EXCEPT ![copy] = [questions[q] EXCEPT
           !.status = "DRAFT", !.deleted = FALSE, !.owner = u, !.job = None]]
    /\ requests' = requests + 1
    /\ UNCHANGED <<jobs, edit, suspect>>

DeleteQuestion(u, q) ==
    /\ FindQuestion(u, q)
    /\ questions' = [questions EXCEPT ![q].status = "ARCHIVED", ![q].deleted = TRUE]
    /\ edit' = Outdate(q, edit)
    /\ requests' = requests + 1
    /\ UNCHANGED <<jobs, suspect>>

\* updateQuestion up to its transaction: the payload's status, or the one read
UpdateQuestionRead(e, u, q, subject, status, coding, complete) ==
    /\ edit[e].op = "idle" /\ FindQuestion(u, q)
    /\ SubjectAccess(u, questions[q].college, subject)
    /\ LET target == IF status = "NONE" THEN questions[q].status ELSE status IN
        /\ ValidQuestion(coding, complete, target)
        /\ edit' = [edit EXCEPT ![e] = [NoEdit EXCEPT !.op = "update", !.q = q,
                !.subject = subject, !.status = target, !.coding = coding, !.complete = complete]]
    /\ requests' = requests + 1
    /\ UNCHANGED <<questions, jobs, suspect>>

UpdateQuestionWrite(e) ==
    LET r == edit[e] IN
    /\ r.op = "update"
    /\ questions' = [questions EXCEPT ![r.q].status = r.status,
           ![r.q].subject = r.subject, ![r.q].coding = r.coding, ![r.q].complete = r.complete]
    /\ edit' = Outdate(r.q, [edit EXCEPT ![e] = NoEdit])
    /\ suspect' = suspect \ {r.q}
    /\ UNCHANGED <<jobs, requests>>

\* updateQuestionStatus: an activation validates the row it read; the write
\* puts back the deletedAt it read, except that ARCHIVED sets it
UpdateStatusRead(e, u, q, status) ==
    /\ edit[e].op = "idle" /\ FindQuestion(u, q)
    /\ status = "ACTIVE" =>
         ValidQuestion(questions[q].coding, questions[q].complete, status)
    /\ edit' = [edit EXCEPT ![e] = [NoEdit EXCEPT !.op = "status", !.q = q,
           !.status = status,
           !.deleted = (status = "ARCHIVED") \/ questions[q].deleted]]
    /\ requests' = requests + 1
    /\ UNCHANGED <<questions, jobs, suspect>>

UpdateStatusWrite(e) ==
    LET r == edit[e] IN
    /\ r.op = "status"
    /\ questions' = [questions EXCEPT ![r.q].status = r.status,
                                      ![r.q].deleted = r.deleted]
    /\ edit' = Outdate(r.q, [edit EXCEPT ![e] = NoEdit])
    /\ suspect' = IF r.clean THEN suspect ELSE suspect \cup {r.q}
    /\ UNCHANGED <<jobs, requests>>

-----------------------------------------------------------------------------
(* importQuestions: the job's row is created first, with the default status *)
(* COMPLETED, then the rows one by one (a row that fails is recorded and    *)
(* skipped), then the counters and the final status are written.            *)

ImportStart(e, u, j, college, subject, total) ==
    /\ edit[e].op = "idle" /\ jobs[j].state = "NONE"
    /\ Staff(u) /\ SubjectAccess(u, WriteCollege(u, college), subject)
    /\ jobs' = [jobs EXCEPT ![j] = [NoJob EXCEPT !.state = "COMPLETED",
           !.college = WriteCollege(u, college), !.subject = subject, !.total = total]]
    /\ edit' = [edit EXCEPT ![e] = [NoEdit EXCEPT
                   !.op = "import", !.user = u, !.job = j]]
    /\ requests' = requests + 1
    /\ UNCHANGED <<questions, suspect>>

RowsLeft(e) == edit[e].ok + edit[e].failed < jobs[edit[e].job].total

\* a row that validates: createQuestion commits, the tagging is still to come
ImportRow(e, q, imported) ==
    LET r == edit[e]  j == jobs[r.job] IN
    /\ r.op = "import" /\ RowsLeft(e) /\ ~Exists(q)
    /\ questions' = [questions EXCEPT ![q] =
           NewQuestion(r.user, j.college, j.subject, "ACTIVE", FALSE, TRUE, imported)]
    /\ edit' = [edit EXCEPT ![e].op = "tag", ![e].q = q]
    /\ UNCHANGED <<jobs, suspect, requests>>

\* a row that does not validate, or whose creation fails
ImportRowFails(e) ==
    /\ edit[e].op = "import" /\ RowsLeft(e)
    /\ edit' = [edit EXCEPT ![e].failed = @ + 1]
    /\ UNCHANGED <<questions, jobs, suspect, requests>>

\* the question gets its importJobId
ImportTag(e) ==
    LET r == edit[e] IN
    /\ r.op = "tag"
    /\ questions' = [questions EXCEPT ![r.q].job = r.job]
    /\ edit' = [edit EXCEPT ![e].op = "import", ![e].q = None, ![e].ok = @ + 1]
    /\ UNCHANGED <<jobs, suspect, requests>>

\* Mutant: successCount is incremented before the tagging.
MutImportTagFails(e) ==
    /\ edit[e].op = "tag"
    /\ edit' = [edit EXCEPT ![e].op = "import", ![e].q = None, ![e].ok = @ + 1]
    /\ UNCHANGED <<questions, jobs, suspect, requests>>

\* the update fails: the row counts as failed, its question stays, untagged
ImportTagFails(e) ==
    /\ edit[e].op = "tag"
    /\ edit' = [edit EXCEPT ![e].op = "import", ![e].q = None, ![e].failed = @ + 1]
    /\ UNCHANGED <<questions, jobs, suspect, requests>>

ImportFinish(e) ==
    LET r == edit[e] IN
    /\ r.op = "import" /\ ~RowsLeft(e)
    /\ jobs' = [jobs EXCEPT ![r.job].ok = r.ok, ![r.job].failed = r.failed,
           ![r.job].state = IF r.failed > 0 THEN "COMPLETED_WITH_ERRORS" ELSE "COMPLETED"]
    /\ edit' = [edit EXCEPT ![e] = NoEdit]
    /\ UNCHANGED <<questions, suspect, requests>>

\* the process dies, or the database refuses a statement outside the loop
EditLost(e) ==
    /\ edit[e].op # "idle"
    /\ edit' = [edit EXCEPT ![e] = NoEdit]
    /\ UNCHANGED <<questions, jobs, suspect, requests>>

-----------------------------------------------------------------------------
(* The import sets offered to the assessment builder and the questions each *)
(* one attaches.                                                            *)

\* listQuestions and the counts of questionStats
Listed(u, college) ==
    {q \in Questions : /\ Exists(q) /\ InQuestionScope(u, college, q)
                       /\ ~questions[q].deleted}

\* assessmentQuestionOptions, for an assessment with or without a subject
Offered(u, college, subject) ==
    {q \in Questions : /\ Exists(q) /\ InQuestionScope(u, college, q)
                       /\ ~questions[q].deleted /\ questions[q].status = "ACTIVE"
                       /\ subject # None => questions[q].subject = subject}

\* importSetQuestions
JobSet(u, college, subject, j) ==
    {q \in Offered(u, college, subject) : questions[q].job = j}
\* legacyImportedQuestionWhere
LegacySet(u, college, subject) ==
    {q \in Offered(u, college, subject) :
        questions[q].job = None /\ questions[q].imported # "no"}
\* derivedImportSetQuestions; a title of the form "<group> MCQ <n>" has a group
DerivedSet(u, college, subject) ==
    {q \in LegacySet(u, college, subject) : questions[q].imported = "grouped"}

SetIds == Jobs \cup {"legacy", "derived"}
SetQuestions(u, college, subject, id) ==
    CASE id = "legacy" -> LegacySet(u, college, subject)
      [] id = "derived" -> DerivedSet(u, college, subject)
      [] OTHER -> JobSet(u, college, subject, id)

\* derivedQuestionImportSets: the questions grouped by title, those that
\* belong to a job skipped
DerivedGroups(u, college, subject) ==
    {q \in Offered(u, college, subject) :
        questions[q].imported = "grouped" /\ questions[q].job = None}

\* assessmentQuestionImportSets
ListedSets(u, college, subject) ==
    {j \in Jobs : /\ jobs[j].state # "NONE" /\ jobs[j].college = college
                  /\ jobs[j].subject = subject
                  /\ JobSet(u, college, subject, j) # {}}
    \cup {"legacy" : q \in LegacySet(u, college, subject)}
    \cup {"derived" : q \in DerivedGroups(u, college, subject)}

-----------------------------------------------------------------------------
BankInit ==
    /\ questions = [q \in Questions |-> NoQuestion]
    /\ jobs = [j \in Jobs |-> NoJob]
    /\ edit = [e \in Editors |-> NoEdit]
    /\ suspect = {} /\ requests = 0

\* the users a controller lets through
Callers(routes, route) == {u \in Users : RoleAdmitted(routes[route], RoleOf[u])}

\* a request arrives
BankRequest ==
    \/ \E u \in Callers(QuestionRoutes, "createQuestion"), q \in Questions, c \in Colleges,
          s \in Subjects, status \in {"DRAFT", "ACTIVE"}, p \in Payloads :
            CreateQuestion(u, q, c, s, status, p.coding, p.complete)
    \/ \E u \in Callers(QuestionRoutes, "duplicateQuestion"), q, copy \in Questions :
            DuplicateQuestion(u, q, copy)
    \/ \E u \in Callers(QuestionRoutes, "deleteQuestion"), q \in Questions : DeleteQuestion(u, q)
    \/ \E e \in Editors, u \in Callers(QuestionRoutes, "updateQuestion"), q \in Questions,
          s \in Subjects, status \in {"NONE", "DRAFT", "ACTIVE"}, p \in Payloads :
            UpdateQuestionRead(e, u, q, s, status, p.coding, p.complete)
    \/ \E e \in Editors, u \in Callers(QuestionRoutes, "updateQuestionStatus"),
          q \in Questions, status \in QuestionStatus : UpdateStatusRead(e, u, q, status)
    \/ \E e \in Editors, u \in Callers(QuestionRoutes, "importQuestions"), j \in Jobs,
          c \in Colleges, s \in Subjects, n \in 1..MaxRows : ImportStart(e, u, j, c, s, n)

\* a request in flight goes on
BankContinue ==
    \/ \E e \in Editors, q \in Questions, i \in {"plain", "grouped"} : ImportRow(e, q, i)
    \/ \E e \in Editors : \/ UpdateQuestionWrite(e) \/ UpdateStatusWrite(e)
                          \/ ImportRowFails(e) \/ ImportTag(e)
                          \/ ImportTagFails(e) \/ ImportFinish(e) \/ EditLost(e)

BankNext == (requests < MaxRequests /\ BankRequest) \/ BankContinue
=============================================================================
