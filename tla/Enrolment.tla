----------------------------- MODULE Enrolment ------------------------------
(***************************************************************************)
(* Academic data (AcademicService): departments, courses with their          *)
(* semesters, subjects, batches, the profiles of faculty and students, the   *)
(* bulk import and update of students, and subject assignments.  Rows are    *)
(* never removed and never change college, so the checks of links before a   *)
(* create are as good as checks at the create.  A row names what it links to *)
(* by number; names and numbers shown to people are left out.                *)
(***************************************************************************)
EXTENDS Accounts

CONSTANTS MaxRows,     \* bound: academic rows
          MaxPayload,  \* bound: students of a bulk request
          RowsAtStart  \* the rows there are at the start, a sequence

Rows == 1..MaxRows
EntityStatus == {"ACTIVE", "INACTIVE"}
NoRow == [kind |-> "none", college |-> None, course |-> 0, semester |-> 0,
          link |-> 0, faculty |-> None, status |-> "INACTIVE"]
Payloads == {E \in SUBSET Users : Cardinality(E) \in 1..MaxPayload}
NoLinks == [department |-> 0, course |-> 0, semester |-> 0, batch |-> 0, bulk |-> FALSE]

ASSUME EnrolmentAssumption ==
    /\ MaxRows \in Nat
    /\ \A i \in Rows \cap DOMAIN RowsAtStart :
         LET x == RowsAtStart[i] IN
         /\ x \in [kind : {"department", "course", "semester", "subject", "batch", "assignment"},
                    college : Colleges, course : 0..MaxRows, semester : 0..MaxRows,
                    link : 0..MaxRows, faculty : Users \cup {None}, status : EntityStatus]
         /\ \A j \in {x.course, x.semester, x.link} \ {0} :
              j \in DOMAIN RowsAtStart /\ RowsAtStart[j].college = x.college

VARIABLES row,      \* department, course, semester, subject, batch and
                    \* subjectAssignment rows
          links,    \* the links of a student's profile
          imported  \* history: size and created rows of each import

enrolRows == <<row, links, imported>>
enrolVars == <<accountVars, enrolRows>>

EnrolTypeOK ==
    /\ row \in [Rows -> [kind : {"none", "department", "course", "semester",
                    "subject", "batch", "assignment"},
           college : Colleges \cup {None}, course : 0..MaxRows,
           semester : 0..MaxRows, link : 0..MaxRows,
           faculty : Users \cup {None}, status : EntityStatus]]
    /\ links \in [Users -> [department : 0..MaxRows, course : 0..MaxRows,
           semester : 0..MaxRows, batch : 0..MaxRows, bulk : BOOLEAN]]
    /\ imported \in [Requests -> [size : Nat, created : Nat]]

EnrolRowsInit ==
    /\ row = [i \in Rows |-> IF i \in DOMAIN RowsAtStart THEN RowsAtStart[i] ELSE NoRow]
    /\ links = [u \in Users |-> NoLinks]
    /\ imported = [r \in Requests |-> [size |-> 0, created |-> 0]]

-----------------------------------------------------------------------------
(* Scope and links. *)

FreeRows == {i \in Rows : row[i].kind = "none"}

\* scopeCollege: a platform user names a college, an administrator has one
Scope(u, c) == user[u].role = "SUPER_ADMIN" \/ c = user[u].college

\* ensureDepartmentInCollege, ensureCourseInCollege, ensureSemesterInCollege...
InCollege(i, kind, c) == i \in Rows /\ row[i].kind = kind /\ row[i].college = c

\* ensureAcademicLinks, ensureStudentLinks
LinksExist(c, l) ==
    /\ InCollege(l.department, "department", c) /\ InCollege(l.course, "course", c)
    /\ InCollege(l.semester, "semester", c) /\ InCollege(l.batch, "batch", c)

Of(kind) == {i \in Rows : row[i].kind = kind}
LinkChoices == [department : Of("department"), course : Of("course"),
                semester : Of("semester"), batch : Of("batch"), bulk : {FALSE}]

-----------------------------------------------------------------------------
(* The structure of a college. *)

NewRow(c, kind) == [NoRow EXCEPT !.college = c, !.kind = kind, !.status = "ACTIVE"]
RowCall(r, u, c, route) == Call(r, u, route) /\ Scope(u, c) /\ FreeRows # {}
AddRow(x) ==
    /\ row' = [row EXCEPT ![First(FreeRows)] = x]
    /\ UNCHANGED <<authRows, gateRows, college, req, overtaken, unmarked, crashes, links, imported>>

CreateDepartment(r, u, c) ==
    /\ RowCall(r, u, c, "createDepartment") /\ Visible(c)
    /\ AddRow(NewRow(c, "department"))

\* with its semesters, of which one is modelled; a course needs an instructor
CreateCourse(r, u, c, d) ==
    LET i == First(FreeRows) IN
    /\ RowCall(r, u, c, "createCourse")
    /\ InCollege(d, "department", c) /\ Cardinality(FreeRows) > 1
    /\ \E x \in Users : user[x].college = c /\ user[x].role \in {"FACULTY", "COLLEGE_ADMIN"}
    /\ row' = [row EXCEPT ![i] = [NewRow(c, "course") EXCEPT !.link = d],
           ![First(FreeRows \ {i})] = [NewRow(c, "semester") EXCEPT !.course = i]]
    /\ UNCHANGED <<authRows, gateRows, college, req, overtaken, unmarked, crashes, links, imported>>

CreateSubject(r, u, c, d, k, s) ==
    /\ RowCall(r, u, c, "createSubject") /\ InCollege(d, "department", c)
    /\ InCollege(k, "course", c) /\ InCollege(s, "semester", c)
    /\ AddRow([NewRow(c, "subject") EXCEPT !.course = k, !.semester = s, !.link = d])

\* the semester need not be one of the course
CreateBatch(r, u, c, k, s) ==
    /\ RowCall(r, u, c, "createBatch")
    /\ InCollege(k, "course", c) /\ InCollege(s, "semester", c)
    /\ AddRow([NewRow(c, "batch") EXCEPT !.course = k, !.semester = s])

\* updateX and deleteX (a status INACTIVE) of all these rows; nothing else of
\* them that is modelled can change
SetRowStatus(r, u, i, status) ==
    /\ Call(r, u, "updateCourse") /\ row[i].kind # "none" /\ Scope(u, row[i].college)
    /\ row' = [row EXCEPT ![i].status = status]
    /\ UNCHANGED <<authRows, gateRows, college, req, overtaken, unmarked, crashes, links, imported>>

\* assignSubject: an upsert that makes an old assignment active again; the
\* row's batch stands in the field course
AssignSubject(r, u, c, f, s, m, b) ==
    LET same == {i \in Rows : row[i].kind = "assignment" /\ row[i].faculty = f
                    /\ row[i].link = s /\ row[i].semester = m /\ row[i].course = b}
    IN
    /\ Call(r, u, "assignSubject") /\ Scope(u, c)
    /\ user[f].role = "FACULTY" /\ user[f].college = c
    /\ InCollege(s, "subject", c) /\ InCollege(m, "semester", c) /\ InCollege(b, "batch", c)
    /\ \/ \E i \in same : row' = [row EXCEPT ![i].status = "ACTIVE"]
       \/ /\ same = {} /\ FreeRows # {}
          /\ row' = [row EXCEPT ![First(FreeRows)] = [kind |-> "assignment",
                 college |-> c, course |-> b, semester |-> m, link |-> s,
                 faculty |-> f, status |-> "ACTIVE"]]
    /\ UNCHANGED <<authRows, gateRows, college, req, overtaken, unmarked, crashes, links, imported>>

-----------------------------------------------------------------------------
(* Faculty and students. *)

Person(role, c, status) == [NoUser EXCEPT !.role = role, !.college = c,
    !.active = (status = "ACTIVE"), !.pw = 1, !.profile = status]

\* createFaculty, createStudent: user and profile in one transaction; an
\* e-mail that is taken is refused
CreatePerson(r, u, c, e, l, role, status) ==
    /\ Call(r, u, IF role = "FACULTY" THEN "createFaculty" ELSE "createStudent")
    /\ Scope(u, c) /\ ~Exists(e)
    /\ IF role = "FACULTY" THEN InCollege(l.department, "department", c) ELSE LinksExist(c, l)
    /\ user' = [user EXCEPT ![e] = Person(role, c, status)]
    /\ links' = IF role = "FACULTY" THEN links ELSE [links EXCEPT ![e] = l]
    /\ UNCHANGED <<session, resetToken, access, gateRows, college, req, overtaken,
                   unmarked, crashes, row, imported>>

\* the nested update of updateFaculty and updateStudent
WithStatus(x, status) == [x EXCEPT !.profile = status, !.active = (status = "ACTIVE")]

UpdatePerson(r, u, e, status) ==
    /\ Call(r, u, "updateStudent")
    /\ user[e].profile # "NONE" /\ Scope(u, user[e].college)
    /\ user' = [user EXCEPT ![e] = WithStatus(@, status)]
    /\ UNCHANGED <<session, resetToken, access, gateRows, college, req, overtaken,
                   unmarked, crashes, enrolRows>>

\* resetFacultyPassword, resetStudentPassword: a new password; the sessions of
\* the user stay
ResetPersonPassword(r, u, e) ==
    /\ Call(r, u, "resetStudentPassword")
    /\ user[e].profile # "NONE" /\ Scope(u, user[e].college)
    /\ user' = [user EXCEPT ![e].pw = @ + 1]
    /\ UNCHANGED <<session, resetToken, access, gateRows, college, req, overtaken,
                   unmarked, crashes, enrolRows>>

-----------------------------------------------------------------------------
(* Bulk import and bulk update. *)

\* addStudentLinkErrors: beyond the college, the semester is one of the course
\* and the batch one of both
ImportLinks(c, l) ==
    /\ LinksExist(c, l) /\ row[l.semester].course = l.course
    /\ row[l.batch].course = l.course /\ row[l.batch].semester = l.semester

\* bulkCreateStudents: one error in any row refuses the whole payload ...
BulkCreateStudents(r, u, c, E, l) ==
    /\ Call(r, u, "bulkCreateStudents") /\ Scope(u, c)
    /\ (\A e \in E : ~Exists(e)) /\ ImportLinks(c, l)
    /\ req' = [req EXCEPT ![r] = [NoReq EXCEPT !.op = "import", !.college = c, !.todo = E,
           !.data = l]]
    /\ UNCHANGED <<authRows, gateRows, college, overtaken, unmarked, crashes, enrolRows>>

\* Mutant: rows that clash are skipped.
MutImportWrite(r) ==
    LET q == req[r]  new == {e \in q.todo : ~Exists(e)} IN
    /\ q.op = "import" /\ Done(r)
    /\ user' = [e \in Users |-> IF e \in new
           THEN Person("STUDENT", q.college, "ACTIVE") ELSE user[e]]
    /\ links' = [e \in Users |-> IF e \in new THEN [q.data EXCEPT !.bulk = TRUE] ELSE links[e]]
    /\ imported' = [imported EXCEPT ![r] =
           [size |-> Cardinality(q.todo), created |-> Cardinality(new)]]
    /\ UNCHANGED <<session, resetToken, access, gateRows, college, overtaken,
                   unmarked, requests, crashes, row>>

\* ... and the create is one transaction, so an e-mail taken meanwhile undoes
\* all of it
ImportWrite(r) ==
    LET q == req[r]
        clash == \E e \in q.todo : Exists(e)
    IN
    /\ q.op = "import" /\ Done(r)
    /\ user' = [e \in Users |-> IF ~clash /\ e \in q.todo
           THEN Person("STUDENT", q.college, "ACTIVE") ELSE user[e]]
    /\ links' = [e \in Users |-> IF ~clash /\ e \in q.todo
           THEN [q.data EXCEPT !.bulk = TRUE] ELSE links[e]]
    /\ imported' = [imported EXCEPT ![r] = [size |-> Cardinality(q.todo),
           created |-> IF clash THEN 0 ELSE Cardinality(q.todo)]]
    /\ UNCHANGED <<session, resetToken, access, gateRows, college, overtaken,
                   unmarked, requests, crashes, row>>

\* bulkUpdateStudents: student by student, those it finds
BulkUpdateStudents(r, u, E) ==
    /\ Call(r, u, "bulkUpdateStudents")
    /\ req' = [req EXCEPT ![r] = [NoReq EXCEPT !.op = "update", !.todo = E, !.user = u]]
    /\ UNCHANGED <<authRows, gateRows, college, overtaken, unmarked, crashes, enrolRows>>

BulkUpdateNext(r) ==
    LET q == req[r] IN
    /\ q.op = "update"
    /\ \E e \in q.todo :
         /\ req' = [req EXCEPT ![r] = IF q.todo = {e} THEN NoReq ELSE [q EXCEPT !.todo = q.todo \ {e}]]
         /\ \/ /\ user[e].role = "STUDENT" /\ Scope(q.user, user[e].college)
               /\ \E s \in EntityStatus : user' = [user EXCEPT ![e] = WithStatus(@, s)]
            \/ /\ ~(user[e].role = "STUDENT" /\ Scope(q.user, user[e].college))
               /\ UNCHANGED user
    /\ UNCHANGED <<session, resetToken, access, gateRows, college, overtaken,
                   unmarked, requests, crashes, enrolRows>>

StructureNext ==
    \E r \in Requests, u \in Users :
      \/ \E c \in Colleges :
           \/ CreateDepartment(r, u, c)
           \/ \E d \in Of("department") :
                \/ CreateCourse(r, u, c, d)
                \/ \E k \in Of("course"), s \in Of("semester") :
                      CreateSubject(r, u, c, d, k, s)
           \/ \E k \in Of("course"), s \in Of("semester") : CreateBatch(r, u, c, k, s)
           \/ \E f \in Users, s \in Of("subject"), m \in Of("semester"), b \in Of("batch") :
                AssignSubject(r, u, c, f, s, m, b)
      \/ \E i \in Rows, s \in EntityStatus : SetRowStatus(r, u, i, s)

EnrolNext ==
    \E r \in Requests :
      \/ \E u \in Users, c \in Colleges, l \in LinkChoices :
           \/ \E e \in Users, role \in {"FACULTY", "STUDENT"}, s \in EntityStatus :
                CreatePerson(r, u, c, e, l, role, s)
           \/ \E E \in Payloads : BulkCreateStudents(r, u, c, E, l)
      \/ \E u \in Users, E \in Payloads : BulkUpdateStudents(r, u, E)
      \/ ImportWrite(r) \/ BulkUpdateNext(r)

PersonNext ==
    \E r \in Requests, u, e \in Users :
      \/ ResetPersonPassword(r, u, e)
      \/ \E s \in EntityStatus : UpdatePerson(r, u, e, s)

-----------------------------------------------------------------------------
(* Properties. *)

\* No academic row and no student refers to another college: every link leads
\* to a row of the same tenant.
LinksInTenant ==
    /\ \A i \in Rows : \A j \in {row[i].course, row[i].semester, row[i].link} \ {0} :
         row[j].college = row[i].college
    /\ \A e \in Users : links[e] # NoLinks =>
         \A j \in {links[e].department, links[e].course, links[e].semester, links[e].batch} :
            row[j].college = user[e].college

\* A student who came with an import is in a batch of its own course and
\* semester (only the import compares them; createStudent does not).
ImportedConsistent ==
    \A e \in Users : links[e].bulk =>
        /\ row[links[e].semester].course = links[e].course
        /\ row[links[e].batch].course = links[e].course
        /\ row[links[e].batch].semester = links[e].semester

\* An import creates all of its students or none, also when another request
\* takes one of the e-mails between the validation and the transaction.
ImportWhole ==
    \A r \in Requests : imported[r].created \in {0, imported[r].size}

\* The profile an administrator sees and the account that may log in agree,
\* through create, import, update, bulk update and status changes.
ProfileUserAgree ==
    \A e \in Users : user[e].profile # "NONE" =>
        (user[e].active <=> user[e].profile = "ACTIVE")

\* Academic rows, profiles and accounts fit together through single requests,
\* imports and bulk updates that interleave.
EnrolmentWhole ==
    /\ LinksInTenant
    /\ ImportedConsistent
    /\ ImportWhole
    /\ ProfileUserAgree
=============================================================================
