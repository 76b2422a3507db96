------------------------ MODULE Administration_proofs ------------------------
(***************************************************************************)
(* Proofs about Accounts, Enrolment, Tenancy and Administration, for any     *)
(* users, colleges, plans, and numbers of sessions, tokens, rows, requests   *)
(* and restarts.                                                             *)
(***************************************************************************)
EXTENDS Administration, FiniteSetTheorems, WellFoundedInduction, TLAPS

-----------------------------------------------------------------------------
(* The invariant. *)

Handler(q) == DOMAIN q = {"op", "data", "user", "college", "id", "n", "raced", "todo"}
HandlersFormed == req = [r \in Requests |-> req[r]] /\ \A r \in Requests : Handler(req[r])

\* What a handler of AuthService knows of sessions and reset tokens: a refresh
\* still has the session it read, and the tokens a reset request will add to
\* are the ones it revoked and newer ones.
AuthGood(q, sessions, tokens, users) ==
    /\ q.op \in {"expire", "lookup", "create", "refresh", "mark", "issue", "reset"} =>
         q.user \in Users
    /\ q.op \in {"create", "refresh"} => q.n \in Nat
    /\ q.op \in {"refresh", "mark"} => q.id \in Sessions /\ sessions[q.id].state # "none"
    /\ q.op = "refresh" => q.raced \in BOOLEAN /\ (q.raced \/ sessions[q.id].auth = q.n)
    /\ q.op = "issue" =>
         /\ q.n \in 0..MaxResetTokens
         /\ \A t \in ResetTokens :
              /\ tokens[t].status = "none" => t > q.n
              /\ tokens[t].status = "ACTIVE" /\ tokens[t].user = q.user => t > q.n
    /\ q.op = "reset" => /\ q.id \in ResetTokens /\ tokens[q.id].status # "none"
                         /\ users[q.user].role # "NONE"

\* A change of a college's status read a college that was not archived.
CollegeGood(q) ==
    q.op \in {"ACTIVE", "INACTIVE", "archive"} => q.college \in Colleges /\ q.raced = FALSE

\* The links of a student: rows of the college, and for an import of one course
\* and semester.
LinkRow == [department : 0..MaxRows, course : 0..MaxRows, semester : 0..MaxRows,
            batch : 0..MaxRows, bulk : BOOLEAN]
Linked(rows, i, kind, c) == i \in Rows /\ rows[i].kind = kind /\ rows[i].college = c
StudentLinked(rows, c, l) ==
    /\ Linked(rows, l.department, "department", c) /\ Linked(rows, l.course, "course", c)
    /\ Linked(rows, l.semester, "semester", c) /\ Linked(rows, l.batch, "batch", c)
OneCourse(rows, l) ==
    /\ rows[l.semester].course = l.course
    /\ rows[l.batch].course = l.course /\ rows[l.batch].semester = l.semester

EnrolGood(q, rows) ==
    /\ q.op = "import" =>
         /\ q.college \in Colleges /\ q.todo \subseteq Users /\ q.data \in LinkRow
         /\ StudentLinked(rows, q.college, q.data) /\ OneCourse(rows, q.data)
    /\ q.op = "update" => q.user \in Users /\ q.todo \subseteq Users

\* The handlers of SaasService: a trial has its profile, a percentage counts the
\* steps of now unless a save was overtaken, a plan under synchronisation is
\* subscribed to, and the versions before the one to be written are kept.
TenantGood(q, profiles, plans, steps, laps, kept) ==
    /\ q.op \in {"admin", "profile", "trial", "count", "percent", "sync", "snapshot", "brand"} =>
         q.college \in Colleges
    /\ q.op = "admin" => q.data \in Users
    /\ q.op = "trial" => profiles[q.college].status # "NONE"
    /\ q.op = "percent" => q.n \in Nat
         /\ (q.n = Cardinality(steps[q.college]) \/ q.college \in laps)
    /\ q.op = "sync" => /\ q.data \in plans[q.college] /\ q.data \in Plans
                        /\ q.todo \subseteq DOMAIN PlanFeature[q.data]
    /\ q.op \in {"snapshot", "brand"} =>
         /\ q.n \in 0..MaxVersion
         /\ \A v \in 1..MaxVersion : v < q.n => v \in kept[q.college]
    /\ q.op = "snapshot" => q.n > 0
    /\ q.op = "brand" => q.n = 0 \/ q.n \in kept[q.college]

PanelGood(q) ==
    /\ q.op = "settings" => q.college \in Colleges /\ q.n \in 0..MaxRequests
    /\ q.op = "mark-read" => q.data \in Notices
    /\ q.op = "record" => q.college \in Scopes

HandlersGood ==
    \A r \in Requests :
        /\ AuthGood(req[r], session, resetToken, user) /\ CollegeGood(req[r])
        /\ EnrolGood(req[r], row)
        /\ TenantGood(req[r], profile, subscribed, step, lapped, snapshots)
        /\ PanelGood(req[r])

\* Rows that are not there have their defaults, and rows that are there lead to
\* rows that are there.
UserRows == \A u \in Users :
    /\ ~Exists(u) => user[u] = NoUser /\ links[u] = NoLinks
    /\ Exists(u) /\ user[u].role # "SUPER_ADMIN" => user[u].college \in Colleges

SessionRows == \A s \in Sessions :
    /\ session[s].state = "live" => session[s].user \in Users
    /\ session[s].parent # 0 => session[session[s].parent].state # "none"

\* Reset tokens are used up from the first on.
TokenRows ==
    /\ \A s, t \in ResetTokens : s < t /\ resetToken[s].status = "none" =>
         resetToken[t].status = "none"
    /\ \A t \in ResetTokens : resetToken[t].status = "ACTIVE" => resetToken[t].user \in Users

RowLinks == \A i \in Rows :
    /\ row[i].kind = "none" => row[i] = NoRow
    /\ \A j \in {row[i].course, row[i].semester, row[i].link} \ {0} :
         row[j].kind # "none" /\ row[j].college = row[i].college

LinkedStudents == \A e \in Users : links[e] # NoLinks =>
    StudentLinked(row, user[e].college, links[e])

\* Steps of onboarding without a profile to count them in are being counted, or
\* the save was overtaken.
StepsCounted == \A c \in Colleges : profile[c].status = "NONE" /\ step[c] # {} =>
    InFlight(c, {"count", "percent"}) \/ c \in lapped

PlatformInv ==
    /\ AccTypeOK /\ HandlersFormed /\ HandlersGood
    /\ UserRows /\ SessionRows /\ TokenRows /\ SessionsEnd
    /\ RowLinks /\ LinkedStudents /\ ImportedConsistent /\ ImportWhole /\ ProfileUserAgree
    /\ TenantsConsistent /\ StepsCounted
    /\ ChangesAudited /\ SettingsAsRequested

-----------------------------------------------------------------------------
(* Rows and constants. *)

\* Some well-founded order of the naturals goes up with them.
LEMMA NatOrder ==
  \E R : IsWellFoundedOn(R, Nat) /\ \A x, y \in Nat : x < y => <<x, y>> \in R
<1> DEFINE R == OpToRel(<, Nat)
<1>1. IsWellFoundedOn(R, Nat)
  BY NatLessThanWellFounded
<1>2. \A x, y \in Nat : x < y => <<x, y>> \in R
  BY DEF OpToRel
<1> QED
  BY <1>1, <1>2

\* First picks a row that is there.
LEMMA FirstIsLeast ==
  ASSUME NEW S \in SUBSET Nat, S # {}
  PROVE  First(S) \in S /\ \A y \in S : First(S) <= y
<1>1. PICK R : IsWellFoundedOn(R, Nat) /\ \A x, y \in Nat : x < y => <<x, y>> \in R
  BY NatOrder
<1>2. S \subseteq Nat /\ S # {}
  OBVIOUS
<1>3. \E x \in S : \A y \in S : ~(<<y, x>> \in R)
  <2>1. IsWellFoundedOn(R, Nat)
    BY <1>1
  <2>2. \A R0, S0, T0 : IsWellFoundedOn(R0, S0) /\ T0 \subseteq S0 /\ T0 # {} =>
           \E x \in T0 : \A y \in T0 : ~(<<y, x>> \in R0)
    BY WFMin, Zenon
  <2> QED
    BY <1>2, <2>1, <2>2, ZenonT(30)
<1>4. PICK x \in S : \A y \in S : ~(<<y, x>> \in R)
  BY <1>3
<1>5. ASSUME NEW y \in S PROVE x <= y
  <2>1. x \in Nat /\ y \in Nat /\ ~(<<y, x>> \in R)
    BY <1>2, <1>4
  <2>2. ~(y < x)
    BY <1>1, <2>1
  <2> QED
    BY <2>1, <2>2
<1> QED
  BY <1>5 DEF First

\* What the assumptions say of the constants.
LEMMA Constants ==
  /\ MaxSessions \in Nat /\ MaxResetTokens \in Nat /\ MaxRequests \in Nat
  /\ MaxCrashes \in Nat /\ LoginLimit \in Nat \ {0} /\ MaxRows \in Nat
  /\ MaxVersion \in Nat /\ MaxVersion > 0
  /\ IsFiniteSet(Requests) /\ IsFiniteSet(Users) /\ IsFiniteSet(Steps)
  /\ None \notin Users /\ None \notin Colleges
  BY AccountsAssumption, EnrolmentAssumption, TenancyAssumption

\* The row a create takes is one that is free.
LEMMA Free ==
  /\ FreeSessions # {} => First(FreeSessions) \in FreeSessions
  /\ FreeResets # {} => First(FreeResets) \in FreeResets
  /\ \A S \in SUBSET FreeRows : S # {} => First(S) \in S
<1>1. FreeSessions \in SUBSET Nat /\ FreeResets \in SUBSET Nat /\ FreeRows \in SUBSET Nat
  BY Constants DEF FreeSessions, FreeResets, FreeRows, Sessions, ResetTokens, Rows
<1>2. \A S \in SUBSET Nat : S # {} => First(S) \in S
  BY FirstIsLeast, ZenonT(30)
<1> QED
  BY <1>1, <1>2

-----------------------------------------------------------------------------
(* What each service leaves alone. *)

\* AuthService writes no college.
LEMMA AuthLeaves ==
  AuthNext => UNCHANGED <<college, overtaken, unmarked, crashes>>
  BY ZenonT(60) DEF AuthNext, Login, LoginExpire, LoginLookup, LoginCreate, Refresh, RefreshCreate,
     RefreshMark, Logout, SessionExpires, RequestPasswordReset, IssueReset, ResetPassword,
     ResetWrite, AccessExpires, WindowEnds, UpdateMaintenance

\* CollegesService writes no session and no token.
LEMMA CollegesLeave ==
  CollegesNext => UNCHANGED <<session, resetToken, access, gateRows, unmarked, crashes>>
  BY ZenonT(60) DEF CollegesNext, CreateCollege, ChangeCollege, CollegeWrite, authRows

\* The academic structure is written alone.
LEMMA StructureLeaves ==
  StructureNext =>
    UNCHANGED <<authRows, gateRows, college, req, overtaken, unmarked, crashes, links, imported>>
<1> DEFINE Same == UNCHANGED <<authRows, gateRows, college, req, overtaken, unmarked, crashes, links, imported>>
<1>1. ASSUME NEW r, NEW u, NEW c, CreateDepartment(r, u, c) PROVE Same
  BY <1>1 DEF CreateDepartment, AddRow
<1>2. ASSUME NEW r, NEW u, NEW c, NEW d, CreateCourse(r, u, c, d) PROVE Same
  BY <1>2 DEF CreateCourse, AddRow
<1>3. ASSUME NEW r, NEW u, NEW c, NEW d, NEW k, NEW s, CreateSubject(r, u, c, d, k, s) PROVE Same
  BY <1>3 DEF CreateSubject, AddRow
<1>4. ASSUME NEW r, NEW u, NEW c, NEW k, NEW s, CreateBatch(r, u, c, k, s) PROVE Same
  BY <1>4 DEF CreateBatch, AddRow
<1>5. ASSUME NEW r, NEW u, NEW c, NEW f, NEW s, NEW m, NEW b, AssignSubject(r, u, c, f, s, m, b) PROVE Same
  BY <1>5 DEF AssignSubject, AddRow
<1>6. ASSUME NEW r, NEW u, NEW i, NEW s, SetRowStatus(r, u, i, s) PROVE Same
  BY <1>6 DEF SetRowStatus, AddRow
<1> HIDE DEF Same
<1>. SUFFICES ASSUME StructureNext PROVE Same
  BY DEF Same
<1> QED
  BY <1>1, <1>2, <1>3, <1>4, <1>5, <1>6 DEF StructureNext

\* AcademicService writes users and their links, no session.
LEMMA EnrolLeaves ==
  EnrolNext =>
    UNCHANGED <<session, resetToken, access, gateRows, college, overtaken, unmarked, crashes, row>>
<1> DEFINE Same == UNCHANGED <<session, resetToken, access, gateRows, college, overtaken, unmarked, crashes, row>>
<1>1. ASSUME NEW r, NEW u, NEW c, NEW e, NEW l, NEW o, NEW s, CreatePerson(r, u, c, e, l, o, s) PROVE Same
  BY <1>1 DEF CreatePerson, authRows, enrolRows
<1>2. ASSUME NEW r, NEW u, NEW c, NEW E, NEW l, BulkCreateStudents(r, u, c, E, l) PROVE Same
  BY <1>2 DEF BulkCreateStudents, authRows, enrolRows
<1>3. ASSUME NEW r, NEW u, NEW E, BulkUpdateStudents(r, u, E) PROVE Same
  BY <1>3 DEF BulkUpdateStudents, authRows, enrolRows
<1>4. ASSUME NEW r, ImportWrite(r) PROVE Same
  BY <1>4 DEF ImportWrite, authRows, enrolRows
<1>5. ASSUME NEW r, BulkUpdateNext(r) PROVE Same
  BY <1>5 DEF BulkUpdateNext, authRows, enrolRows
<1> HIDE DEF Same
<1>. SUFFICES ASSUME EnrolNext PROVE Same
  BY DEF Same
<1> QED
  BY <1>1, <1>2, <1>3, <1>4, <1>5 DEF EnrolNext

\* Updates of a person write its account only.
LEMMA PersonLeaves ==
  PersonNext =>
    UNCHANGED <<session, resetToken, access, gateRows, college, req, overtaken, unmarked,
                crashes, enrolRows>>
  BY DEF PersonNext, UpdatePerson, ResetPersonPassword

\* SaasService writes no session and no academic row.
LEMMA TenancyLeaves ==
  TenancyNext =>
    UNCHANGED <<session, resetToken, access, gateRows, overtaken, unmarked, crashes, enrolRows>>
<1> DEFINE Same == UNCHANGED <<session, resetToken, access, gateRows, overtaken, unmarked, crashes, enrolRows>>
<1>1. ASSUME NEW r, NEW c, NEW e, Signup(r, c, e) PROVE Same
  BY <1>1 DEF Signup, accountRows, authRows
<1>2. ASSUME NEW r, SignupAdmin(r) PROVE Same
  BY <1>2 DEF SignupAdmin, accountRows, authRows
<1>3. ASSUME NEW r, SignupProfile(r) PROVE Same
  BY <1>3 DEF SignupProfile, accountRows, authRows
<1>4. ASSUME NEW r, NEW p, SignupTrial(r, p) PROVE Same
  BY <1>4 DEF SignupTrial, accountRows, authRows
<1>5. ASSUME NEW r, NEW u, NEW s, NEW b, SaveOnboardingStep(r, u, s, b) PROVE Same
  BY <1>5 DEF SaveOnboardingStep, accountRows, authRows
<1>6. ASSUME NEW r, OnboardingCount(r) PROVE Same
  BY <1>6 DEF OnboardingCount, accountRows, authRows
<1>7. ASSUME NEW r, OnboardingPercent(r) PROVE Same
  BY <1>7 DEF OnboardingPercent, accountRows, authRows
<1>8. ASSUME NEW r, NEW u, NEW c, NEW s, SetLifecycle(r, u, c, s) PROVE Same
  BY <1>8 DEF SetLifecycle, accountRows, authRows
<1>9. ASSUME NEW r, NEW u, NEW c, NEW p, PlatformChangePlan(r, u, c, p) PROVE Same
  BY <1>9 DEF PlatformChangePlan, accountRows, authRows
<1>10. ASSUME NEW r, SyncEntitlement(r) PROVE Same
  BY <1>10 DEF SyncEntitlement, accountRows, authRows
<1>11. ASSUME NEW r, NEW u, UpdateBranding(r, u) PROVE Same
  BY <1>11 DEF UpdateBranding, accountRows, authRows
<1>12. ASSUME NEW r, BrandingSnapshot(r) PROVE Same
  BY <1>12 DEF BrandingSnapshot, accountRows, authRows
<1>13. ASSUME NEW r, BrandingWrite(r) PROVE Same
  BY <1>13 DEF BrandingWrite, accountRows, authRows
<1>14. ASSUME NEW r, NEW u, CreateDomain(r, u) PROVE Same
  BY <1>14 DEF CreateDomain, accountRows, authRows
<1>15. ASSUME NEW r, Webhook(r) PROVE Same
  BY <1>15 DEF Webhook, accountRows, authRows
<1>16. ASSUME NEW r, NEW u, CreateSupportTicket(r, u) PROVE Same
  BY <1>16 DEF CreateSupportTicket, accountRows, authRows
<1>17. ASSUME NEW r, NEW u, NEW b, ReplySupportTicket(r, u, b) PROVE Same
  BY <1>17 DEF ReplySupportTicket, accountRows, authRows
<1>18. ASSUME NEW r, NEW u, CreatePushToken(r, u) PROVE Same
  BY <1>18 DEF CreatePushToken, accountRows, authRows
<1> HIDE DEF Same
<1>. SUFFICES ASSUME TenancyNext PROVE Same
  BY SMTT(20) DEF Same
<1> QED
  BY <1>1, <1>2, <1>3, <1>4, <1>5, <1>6, <1>7, <1>8, <1>9, <1>10, <1>11, <1>12, <1>13, <1>14, <1>15, <1>16, <1>17, <1>18 DEF TenancyNext

\* The panel writes no row of the other services.
LEMMA PanelLeaves == PanelNext => UNCHANGED serviceRows
  BY ZenonT(60) DEF PanelNext, WriteCollegeSettings, WriteNotificationRead, Record, ReadCollegeSettings,
     UpdateCollegeSettings, UpdateProfile, MarkNotificationRead, UpsertPermission

\* A restart forgets the handlers and keeps the rows.
LEMMA CrashLeaves ==
  PanelCrash =>
    /\ UNCHANGED <<authRows, rate, maintenance, college, overtaken, requests, enrolRows>>
    /\ UNCHANGED <<profile, subscribed, entitled, step, branding, snapshots>>
    /\ UNCHANGED <<domain, push, ticket, event, setting, theme, read, override, audits, asked, changes>>
    /\ req' = [r \in Requests |-> NoReq]
  BY DEF PanelCrash, Crash, CrashAccounts

-----------------------------------------------------------------------------
(* Users. *)

UserRow == [role : Roles \cup {"NONE"}, college : Colleges \cup {None}, active : BOOLEAN,
            pw : Nat, resets : Nat, profile : {"NONE", "ACTIVE", "INACTIVE"}]
Agreeing(x) == x.profile # "NONE" => (x.active <=> x.profile = "ACTIVE")

\* A row that was just created.
Born(x) ==
    /\ x \in UserRow /\ x.role \notin {"NONE", "SUPER_ADMIN"} /\ x.college \in Colleges
    /\ x.resets = 0 /\ Agreeing(x)

\* A row after an update: the same user with the same rights.
Changed(x, y) ==
    /\ y \in UserRow /\ y.role = x.role /\ y.college = x.college /\ y.resets = x.resets
    /\ y.pw >= x.pw /\ (Agreeing(x) => Agreeing(y))

UserMove(u) ==
    \/ user'[u] = user[u]
    \/ ~Exists(u) /\ Born(user'[u]) /\ user'[u].pw > 0
    \/ ~Exists(u) /\ Born(user'[u]) /\ \E r \in Requests :
          SignupAdmin(r) /\ req[r].op = "admin" /\ user'[u].college = req[r].college
          /\ req'[r].op = "profile" /\ req'[r].college = req[r].college
    \/ Exists(u) /\ Changed(user[u], user'[u])
    \/ Exists(u) /\ \E r \in Requests : ResetWrite(r) /\ req[r].user = u
          /\ user'[u] = [user[u] EXCEPT !.pw = @ + 1, !.resets = @ + 1]

\* The row that CreateCollege, CreatePerson and SignupAdmin put together.
RowOf(o, c, a, p, t) ==
  [NoUser EXCEPT !.role = o, !.college = c, !.active = a, !.pw = p, !.profile = t]

\* The row of a user who is not there.
LEMMA NoUserRow ==
  NoUser \in UserRow /\ NoUser.resets = 0 /\ NoUser.profile = "NONE" /\ NoUser.role = "NONE"
  BY DEF NoUser, UserRow

\* A row put together from these parts is one of a new user.
LEMMA RowOfBorn ==
  ASSUME NEW o \in {"COLLEGE_ADMIN", "FACULTY", "STUDENT"}, NEW c \in Colleges,
         NEW a \in BOOLEAN, NEW p \in Nat, NEW t \in {"NONE", "ACTIVE", "INACTIVE"},
         t # "NONE" => (a <=> t = "ACTIVE")
  PROVE  Born(RowOf(o, c, a, p, t)) /\ RowOf(o, c, a, p, t).pw = p /\ RowOf(o, c, a, p, t).college = c
<1> DEFINE y == RowOf(o, c, a, p, t)
<1>1. o \in Roles \cup {"NONE"} /\ c \in Colleges \cup {None} /\ o \notin {"NONE", "SUPER_ADMIN"}
  BY DEF Roles
<1>2. /\ y \in UserRow /\ y.role = o /\ y.college = c /\ y.resets = 0 /\ y.pw = p
      /\ y.active = a /\ y.profile = t
  BY <1>1, NoUserRow DEF UserRow, RowOf
<1> HIDE DEF y
<1>3. Agreeing(y)
  BY <1>2, Zenon DEF Agreeing
<1>4. Born(y) /\ y.pw = p /\ y.college = c
  BY <1>1, <1>2, <1>3 DEF Born
<1> QED
  BY <1>4 DEF y

\* So is that of a person AcademicService creates.
LEMMA PersonBorn ==
  ASSUME NEW o \in {"FACULTY", "STUDENT"}, NEW c \in Colleges, NEW s \in EntityStatus
  PROVE  Born(Person(o, c, s)) /\ Person(o, c, s).pw > 0 /\ Person(o, c, s).college = c
<1>1. Person(o, c, s) = RowOf(o, c, (s = "ACTIVE"), 1, s)
  BY Zenon DEF Person, RowOf
<1>2. /\ (s = "ACTIVE") \in BOOLEAN /\ s \in {"NONE", "ACTIVE", "INACTIVE"} /\ 1 \in Nat /\ 1 > 0
      /\ o \in {"COLLEGE_ADMIN", "FACULTY", "STUDENT"}
  BY DEF EntityStatus
<1>3. \A a \in BOOLEAN : (a <=> s = "ACTIVE") =>
        Born(RowOf(o, c, a, 1, s)) /\ RowOf(o, c, a, 1, s).pw = 1 /\ RowOf(o, c, a, 1, s).college = c
  <2> TAKE a \in BOOLEAN
  <2> HAVE a <=> s = "ACTIVE"
  <2>1. s # "NONE" => (a <=> s = "ACTIVE")
    OBVIOUS
  <2> QED
    BY <1>2, <2>1, RowOfBorn
<1>4. /\ Born(RowOf(o, c, (s = "ACTIVE"), 1, s)) /\ RowOf(o, c, (s = "ACTIVE"), 1, s).pw = 1
      /\ RowOf(o, c, (s = "ACTIVE"), 1, s).college = c
  BY <1>2, <1>3, Zenon
<1> QED
  BY <1>1, <1>2, <1>4, Zenon

\* A status given to a person is given to its account too.
LEMMA StatusChanges ==
  ASSUME NEW x \in UserRow, NEW s \in EntityStatus
  PROVE  Changed(x, WithStatus(x, s))
<1> DEFINE y(a, t) == [x EXCEPT !.profile = t, !.active = a]
<1>1. WithStatus(x, s) = y((s = "ACTIVE"), s) /\ s \in {"ACTIVE", "INACTIVE"}
  BY DEF WithStatus, EntityStatus
<1>2. \A a \in BOOLEAN, t \in {"ACTIVE", "INACTIVE"} :
        (a <=> t = "ACTIVE") => Changed(x, y(a, t))
  <2> TAKE a \in BOOLEAN, t \in {"ACTIVE", "INACTIVE"}
  <2> HAVE a <=> t = "ACTIVE"
  <2> DEFINE z == y(a, t)
  <2>1. /\ z \in UserRow /\ z.role = x.role /\ z.college = x.college /\ z.resets = x.resets
        /\ z.pw = x.pw /\ x.pw \in Nat
    BY DEF UserRow
  <2>2. z.active = a /\ z.profile = t
    BY DEF UserRow
  <2> HIDE DEF z, y
  <2>3. Agreeing(z)
    BY <2>2, Zenon DEF Agreeing
  <2>4. Changed(x, z)
    BY <2>1, <2>3 DEF Changed
  <2> QED
    BY <2>4 DEF z
<1> HIDE DEF y
<1>3. (s = "ACTIVE") \in BOOLEAN
  OBVIOUS
<1>4. Changed(x, y((s = "ACTIVE"), s))
  BY <1>1, <1>2, <1>3, Zenon
<1> QED
  BY <1>1, <1>4, Zenon

\* A reset counts, and leaves the rest of the row.
LEMMA ResetRow ==
  ASSUME NEW x \in UserRow
  PROVE  LET y == [x EXCEPT !.pw = @ + 1, !.resets = @ + 1] IN
         /\ y \in UserRow /\ y.role = x.role /\ y.college = x.college
         /\ y.pw = x.pw + 1 /\ y.resets = x.resets + 1 /\ (Agreeing(x) => Agreeing(y))
<1> DEFINE a == x.pw + 1
           b == x.resets + 1
           y == [x EXCEPT !.pw = a, !.resets = b]
<1>1. a \in Nat /\ b \in Nat
  BY DEF UserRow
<1> HIDE DEF a, b
<1>2. /\ y \in UserRow /\ y.role = x.role /\ y.college = x.college /\ y.pw = a
      /\ y.resets = b /\ y.active = x.active /\ y.profile = x.profile
  BY <1>1 DEF UserRow
<1>3. [x EXCEPT !.pw = @ + 1, !.resets = @ + 1] = y
  BY DEF a, b
<1> HIDE DEF y
<1>4. Agreeing(x) => Agreeing(y)
  BY <1>2, Zenon DEF Agreeing
<1> QED
  BY <1>2, <1>3, <1>4 DEF a, b

\* How the row of a user may change in one step.
LEMMA UsersMove ==
  PlatformInv /\ [PlatformNext]_panelVars => user' = [u \in Users |-> user'[u]] /\ \A u \in Users : UserMove(u)
<1> DEFINE Good == user' = [u \in Users |-> user'[u]] /\ \A u \in Users : UserMove(u)
<1> SUFFICES ASSUME PlatformInv, [PlatformNext]_panelVars PROVE Good
  OBVIOUS
<1>1. /\ user \in [Users -> UserRow] /\ DOMAIN user = Users
      /\ \A u \in Users : user[u] = NoUser \/ Exists(u)
      /\ \A u \in Users : Exists(u) /\ user[u].role # "SUPER_ADMIN" => user[u].college \in Colleges
  BY DEF PlatformInv, AccTypeOK, AccountsTypeOK, UserRow, UserRows
<1>2. ASSUME user' = user PROVE Good
  BY <1>1, <1>2, SMTT(30) DEF UserMove
<1>3. ASSUME NEW e \in Users, NEW x, user' = [user EXCEPT ![e] = x],
             user'[e] = x => UserMove(e)
      PROVE  Good
  <2>1. user' = [u \in Users |-> user'[u]] /\ user'[e] = x
        /\ \A u \in Users : u # e => user'[u] = user[u]
    BY <1>1, <1>3
  <2> QED
    BY <1>3, <2>1 DEF UserMove
<1>4. ASSUME NEW r \in Requests, NEW u \in Users, NEW c \in Colleges, NEW e \in Users \cup {None},
             NEW s \in {"ACTIVE", "INACTIVE"}, CreateCollege(r, u, c, e, s)
      PROVE  Good
  <2> DEFINE x == [NoUser EXCEPT !.role = "COLLEGE_ADMIN", !.college = c, !.active = TRUE, !.pw = 1]
  <2>1. user' = user \/ (e \in Users /\ ~Exists(e) /\ user' = [user EXCEPT ![e] = x])
    BY <1>4 DEF CreateCollege
  <2>4. /\ x \in UserRow /\ x.role = "COLLEGE_ADMIN" /\ x.college = c /\ x.resets = 0
        /\ x.pw = 1 /\ x.profile = "NONE"
    BY NoUserRow DEF UserRow, Roles
  <2> HIDE DEF x
  <2>2. Born(x) /\ x.pw > 0
    BY <2>4 DEF Born, Agreeing
  <2> HIDE DEF x
  <2>3. ~Exists(e) /\ user'[e] = x => UserMove(e)
    BY <2>2, Zenon DEF UserMove
  <2> QED
    BY <1>2, <1>3, <2>1, <2>3
<1>5. ASSUME NEW r \in Requests, NEW u \in Users, NEW c \in Colleges, NEW l \in LinkChoices,
             NEW e \in Users, NEW o \in {"FACULTY", "STUDENT"}, NEW s \in EntityStatus,
             CreatePerson(r, u, c, e, l, o, s)
      PROVE  Good
  <2>1. ~Exists(e) /\ user' = [user EXCEPT ![e] = Person(o, c, s)]
    BY <1>5 DEF CreatePerson
  <2>2. user'[e] = Person(o, c, s) => UserMove(e)
    BY <2>1, PersonBorn DEF UserMove
  <2> QED
    BY <1>3, <2>1, <2>2
<1>6. ASSUME NEW r \in Requests, ImportWrite(r) PROVE Good
  <2>1. /\ req[r].op = "import"
        /\ \A u \in Users : user'[u] = user[u] \/
              (~Exists(u) /\ user'[u] = Person("STUDENT", req[r].college, "ACTIVE"))
        /\ user' = [u \in Users |-> user'[u]]
    BY <1>6 DEF ImportWrite
  <2>2. req[r].college \in Colleges
    BY <2>1 DEF PlatformInv, HandlersGood, EnrolGood
  <2> QED
    BY <2>1, <2>2, PersonBorn, ZenonT(120) DEF UserMove, EntityStatus
<1>7. ASSUME NEW e \in Users, NEW s \in EntityStatus, Exists(e),
             user' = [user EXCEPT ![e] = WithStatus(@, s)]
      PROVE  Good
  <2>1. user' = [user EXCEPT ![e] = WithStatus(user[e], s)] /\ user[e] \in UserRow
    BY <1>1, <1>7
  <2>2. user'[e] = WithStatus(user[e], s) => UserMove(e)
    BY <1>7, <2>1, StatusChanges DEF UserMove
  <2> QED
    BY <1>3, <2>1, <2>2
<1>8. ASSUME NEW r \in Requests, BulkUpdateNext(r) PROVE Good
  <2>1. req[r].op = "update"
    BY <1>8 DEF BulkUpdateNext
  <2>2. req[r].todo \subseteq Users
    BY <2>1 DEF PlatformInv, HandlersGood, EnrolGood
  <2>3. \/ user' = user
        \/ \E e \in req[r].todo, s \in EntityStatus :
              user[e].role = "STUDENT" /\ user' = [user EXCEPT ![e] = WithStatus(@, s)]
    BY <1>8 DEF BulkUpdateNext
  <2> QED
    BY <1>2, <1>7, <2>2, <2>3 DEF Exists
<1>9. ASSUME NEW r \in Requests, NEW u \in Users, NEW e \in Users, NEW s \in EntityStatus,
             UpdatePerson(r, u, e, s)
      PROVE  Good
  <2>1. user[e].profile # "NONE" /\ user' = [user EXCEPT ![e] = WithStatus(@, s)]
    BY <1>9 DEF UpdatePerson
  <2>2. Exists(e)
    BY <1>1, <2>1 DEF NoUser
  <2> QED
    BY <1>7, <2>1, <2>2
<1>10. ASSUME NEW r \in Requests, NEW u \in Users, NEW e \in Users, ResetPersonPassword(r, u, e)
       PROVE  Good
  <2> DEFINE x == [user[e] EXCEPT !.pw = user[e].pw + 1]
  <2>1. user[e].profile # "NONE" /\ user' = [user EXCEPT ![e] = x] /\ user[e] \in UserRow
    BY <1>1, <1>10 DEF ResetPersonPassword
  <2>2. Exists(e) /\ Changed(user[e], x)
    BY <1>1, <2>1 DEF NoUser, Changed, UserRow, Agreeing
  <2> HIDE DEF x
  <2> QED
    BY <1>3, <2>1, <2>2 DEF UserMove
<1>11. ASSUME NEW r \in Requests, ResetWrite(r) PROVE Good
  <2> DEFINE e == req[r].user
             x == [user[e] EXCEPT !.pw = user[e].pw + 1, !.resets = user[e].resets + 1]
  <2>1. req[r].op = "reset" /\ user' = [user EXCEPT ![e] = x]
    BY <1>1, <1>11 DEF ResetWrite
  <2>2. e \in Users /\ Exists(e)
    BY <2>1 DEF PlatformInv, HandlersGood, AuthGood, Exists
  <2>3. x = [user[e] EXCEPT !.pw = @ + 1, !.resets = @ + 1]
    BY <1>1, <2>2 DEF UserRow
  <2> HIDE DEF x
  <2> QED
    BY <1>3, <1>11, <2>1, <2>2, <2>3 DEF UserMove
<1>12. ASSUME NEW r \in Requests, SignupAdmin(r) PROVE Good
  <2> DEFINE e == req[r].data
             x == [NoUser EXCEPT !.role = "COLLEGE_ADMIN", !.college = req[r].college, !.active = TRUE]
  <2>1. /\ req[r].op = "admin"
        /\ \/ user' = user
           \/ /\ ~Exists(e) /\ user' = [user EXCEPT ![e] = x]
              /\ req' = [req EXCEPT ![r].op = "profile"]
    BY <1>12 DEF SignupAdmin
  <2>2. e \in Users /\ req[r].college \in Colleges
    BY <2>1 DEF PlatformInv, HandlersGood, TenantGood
  <2>6. /\ x \in UserRow /\ x.role = "COLLEGE_ADMIN" /\ x.college = req[r].college
        /\ x.resets = 0 /\ x.profile = "NONE"
    BY <2>2, NoUserRow DEF UserRow, Roles
  <2>3. Born(x) /\ x.college = req[r].college
    <3> HIDE DEF x
    <3> QED
      BY <2>2, <2>6 DEF Born, Agreeing
  <2>4. req' = [req EXCEPT ![r].op = "profile"] =>
          req'[r].op = "profile" /\ req'[r].college = req[r].college
    BY DEF PlatformInv, HandlersFormed, Handler
  <2> HIDE DEF x
  <2>5. ~Exists(e) /\ user'[e] = x /\ req' = [req EXCEPT ![r].op = "profile"] => UserMove(e)
    BY <1>12, <2>1, <2>3, <2>4 DEF UserMove
  <2> QED
    BY <1>2, <1>3, <2>1, <2>2, <2>5
<1>13. AuthNext => user' = user \/ \E r \in Requests : ResetWrite(r)
  BY ZenonT(30) DEF AuthNext, Login, LoginExpire, LoginLookup, LoginCreate, Refresh, RefreshCreate,
     RefreshMark, Logout, SessionExpires, RequestPasswordReset, IssueReset, ResetPassword,
     AccessExpires, WindowEnds, UpdateMaintenance, authRows
<1>14. ASSUME CollegesNext PROVE Good
  BY <1>2, <1>4, <1>14, ZenonT(60) DEF CollegesNext, ChangeCollege, CollegeWrite, authRows
<1>15. ASSUME EnrolNext PROVE Good
  <2>1. ASSUME NEW r, NEW u, NEW c, NEW E, NEW l,
               BulkCreateStudents(r, u, c, E, l) \/ BulkUpdateStudents(r, u, E)
        PROVE  user' = user
    BY <2>1 DEF BulkCreateStudents, BulkUpdateStudents, authRows
  <2> QED
    BY <1>2, <1>5, <1>6, <1>8, <1>15, <2>1 DEF EnrolNext
<1>16. ASSUME PersonNext PROVE Good
  BY <1>9, <1>10, <1>16 DEF PersonNext
<1>17. ASSUME TenancyNext PROVE Good
  <2>1. ASSUME NEW r, NEW c, NEW e, NEW u, NEW s, NEW b, NEW p,
               \/ SignupProfile(r) \/ SignupTrial(r, p) \/ OnboardingCount(r) \/ OnboardingPercent(r)
               \/ SyncEntitlement(r) \/ BrandingSnapshot(r) \/ BrandingWrite(r) \/ Webhook(r)
        PROVE  user' = user
    BY <2>1 DEF SignupProfile, SignupTrial, OnboardingCount, OnboardingPercent,
       SyncEntitlement, BrandingSnapshot, BrandingWrite, Webhook, accountRows, authRows
  <2>2. ASSUME NEW r, NEW c, NEW e, NEW u, NEW s, NEW b, NEW p,
               \/ Signup(r, c, e) \/ SaveOnboardingStep(r, u, s, b) \/ SetLifecycle(r, u, c, s)
               \/ PlatformChangePlan(r, u, c, p) \/ UpdateBranding(r, u) \/ CreateDomain(r, u)
               \/ CreateSupportTicket(r, u) \/ ReplySupportTicket(r, u, b) \/ CreatePushToken(r, u)
        PROVE  user' = user
    BY <2>2 DEF Signup, SaveOnboardingStep, SetLifecycle, PlatformChangePlan, UpdateBranding,
       CreateDomain, CreateSupportTicket, ReplySupportTicket, CreatePushToken, accountRows, authRows
  <2> HIDE DEF Good
  <2> QED
    BY <1>2, <1>12, <1>17, <2>1, <2>2 DEF TenancyNext
<1>18. StructureNext \/ PanelNext \/ PanelCrash \/ UNCHANGED panelVars => user' = user
  BY StructureLeaves, PanelLeaves, CrashLeaves
     DEF serviceRows, accountRows, authRows, panelVars, tenantVars, enrolVars, accountVars
<1> HIDE DEF Good
<1> QED
  BY <1>2, <1>11, <1>12, <1>13, <1>14, <1>15, <1>16, <1>17, <1>18 DEF PlatformNext

\* A user stays, with its role and college, and only a reset by e-mail counts
\* as one.
LEMMA UsersStep ==
  PlatformInv /\ [PlatformNext]_panelVars =>
    /\ user' \in [Users -> UserRow] /\ ProfileUserAgree'
    /\ \A u \in Users :
         /\ user'[u].role = "NONE" => user'[u] = NoUser /\ ~Exists(u)
         /\ Exists(u) => user'[u].role = user[u].role /\ user'[u].college = user[u].college
         /\ ~Exists(u) /\ user'[u] # user[u] => Born(user'[u])
         /\ user'[u].role \notin {"NONE", "SUPER_ADMIN"} => user'[u].college \in Colleges
         /\ \/ user'[u].resets = user[u].resets
            \/ \E r \in Requests : ResetWrite(r) /\ req[r].user = u
<1> SUFFICES ASSUME PlatformInv, [PlatformNext]_panelVars
             PROVE  /\ user' \in [Users -> UserRow] /\ ProfileUserAgree'
                    /\ \A u \in Users :
                         /\ user'[u].role = "NONE" => user'[u] = NoUser /\ ~Exists(u)
                         /\ Exists(u) => user'[u].role = user[u].role /\ user'[u].college = user[u].college
                         /\ ~Exists(u) /\ user'[u] # user[u] => Born(user'[u])
                         /\ user'[u].role \notin {"NONE", "SUPER_ADMIN"} => user'[u].college \in Colleges
                         /\ \/ user'[u].resets = user[u].resets
                            \/ \E r \in Requests : ResetWrite(r) /\ req[r].user = u
  OBVIOUS
<1>1. /\ \A u \in Users : user[u] \in UserRow /\ Agreeing(user[u])
      /\ \A u \in Users : ~Exists(u) => user[u] = NoUser
      /\ \A u \in Users : Exists(u) /\ user[u].role # "SUPER_ADMIN" => user[u].college \in Colleges
  BY DEF PlatformInv, AccTypeOK, AccountsTypeOK, UserRow, UserRows, ProfileUserAgree, Agreeing
<1> DEFINE Good(u) ==
      /\ user'[u] \in UserRow /\ Agreeing(user'[u])
      /\ user'[u].role = "NONE" => user'[u] = NoUser /\ ~Exists(u)
      /\ Exists(u) => user'[u].role = user[u].role /\ user'[u].college = user[u].college
      /\ ~Exists(u) /\ user'[u] # user[u] => Born(user'[u])
      /\ user'[u].role \notin {"NONE", "SUPER_ADMIN"} => user'[u].college \in Colleges
      /\ \/ user'[u].resets = user[u].resets
         \/ \E r \in Requests : ResetWrite(r) /\ req[r].user = u
<1>2. ASSUME NEW u \in Users PROVE Good(u)
  <2>1. UserMove(u)
    BY UsersMove
  <2>2. CASE user'[u] = user[u]
    BY <1>1, <2>2 DEF Exists
  <2>3. CASE ~Exists(u) /\ Born(user'[u])
    BY <1>1, <2>3, NoUserRow DEF Born
  <2>4. CASE Exists(u) /\ Changed(user[u], user'[u])
    BY <1>1, <2>4 DEF Changed, Exists
  <2>5. CASE Exists(u) /\ \E r \in Requests : ResetWrite(r) /\ req[r].user = u
                            /\ user'[u] = [user[u] EXCEPT !.pw = @ + 1, !.resets = @ + 1]
    BY <1>1, <2>5, ResetRow, ZenonT(60) DEF Exists
  <2> QED
    BY <2>1, <2>2, <2>3, <2>4, <2>5 DEF UserMove
<1>3. user' \in [Users -> UserRow]
  BY <1>2, UsersMove
<1>4. ProfileUserAgree'
  BY <1>2, Zenon DEF ProfileUserAgree, Agreeing
<1> QED
  BY <1>2, <1>3, <1>4

-----------------------------------------------------------------------------
(* Sessions and reset tokens. *)

SessionRow == [user : Users \cup {None}, state : {"none", "live", "revoked", "expired"},
               parent : 0..MaxSessions, auth : Nat, raced : BOOLEAN]

\* The session a login or a refresh creates.
Opened(s) == \E r \in Requests : \E p \in 0..MaxSessions : \E a \in Nat : \E b \in BOOLEAN :
    /\ session[s].state = "none"
    /\ session'[s] = [user |-> req[r].user, state |-> "live", parent |-> p, auth |-> a,
                      raced |-> b]
    /\ req[r].user \in Users /\ user' = user
    /\ b \/ user[req[r].user].resets = a
    /\ p # 0 => session[p].state # "none" /\ req'[r].op = "mark" /\ req'[r].id = p

\* The session is closed, by its mark, a logout or a reset, or runs out.
Closed(s) == session[s].state # "none" /\
    \E x \in {"revoked", "expired"} : session'[s] = [session[s] EXCEPT !.state = x]

SessionMove(s) == session'[s] = session[s] \/ Opened(s) \/ Closed(s)

\* createSession writes a free row and no other.
LEMMA NewSessionRow ==
  ASSUME PlatformInv, NEW u \in Users, NEW p \in 0..MaxSessions, NEW a \in Nat, NEW n, NEW d \in BOOLEAN,
         NewSession(u, p, a, n, d), NEW s \in Sessions
  PROVE  \/ session'[s] = session[s]
         \/ /\ session[s].state = "none"
            /\ session'[s] = [user |-> u, state |-> "live", parent |-> p, auth |-> a,
                              raced |-> (d \/ user[u].resets # n)]
<1>1. First(FreeSessions) \in FreeSessions
  BY Free DEF NewSession
<1>2. session[First(FreeSessions)].state = "none"
  BY <1>1 DEF FreeSessions
<1> DEFINE f == First(FreeSessions)
           x == [user |-> u, state |-> "live", parent |-> p, auth |-> a,
                 raced |-> (d \/ user[u].resets # n)]
<1>3. session' = [session EXCEPT ![f] = x]
  BY DEF NewSession
<1>4. session \in [Sessions -> SessionRow]
  BY DEF PlatformInv, AccTypeOK, AccountsTypeOK, SessionRow
<1> HIDE DEF f, x
<1>5. session'[s] = session[s] \/ (s = f /\ session'[s] = x)
  BY <1>3, <1>4
<1> QED
  BY <1>2, <1>5 DEF f, x

\* How the row of a session may change in one step.
LEMMA SessionsMove ==
  PlatformInv /\ [PlatformNext]_panelVars =>
    session' = [s \in Sessions |-> session'[s]] /\ \A s \in Sessions : SessionMove(s)
<1> DEFINE Good == session' = [s \in Sessions |-> session'[s]] /\ \A s \in Sessions : SessionMove(s)
<1> SUFFICES ASSUME PlatformInv, [PlatformNext]_panelVars PROVE Good
  OBVIOUS
<1>1. session \in [Sessions -> SessionRow] /\ user \in [Users -> UserRow]
  BY DEF PlatformInv, AccTypeOK, AccountsTypeOK, SessionRow, UserRow
<1>2. ASSUME session' = session PROVE Good
  BY <1>1, <1>2 DEF SessionMove
<1>3. ASSUME NEW s \in Sessions, session[s].state # "none", NEW x \in {"revoked", "expired"},
             session' = [session EXCEPT ![s].state = x]
      PROVE  Good
  <2>1. session' = [t \in Sessions |-> session'[t]] /\ session'[s] = [session[s] EXCEPT !.state = x]
        /\ \A t \in Sessions : t # s => session'[t] = session[t]
    BY <1>1, <1>3
  <2> QED
    BY <1>3, <2>1 DEF SessionMove, Closed
<1>4. ASSUME NEW r \in Requests, LoginCreate(r) PROVE Good
  <2>1. /\ req[r].op = "create" /\ NewSession(req[r].user, 0, req[r].n, req[r].n, FALSE)
        /\ user' = user /\ \E i : session' = [session EXCEPT ![i] = session'[i]]
    BY <1>1, <1>4 DEF LoginCreate, NewSession
  <2>2. req[r].user \in Users /\ req[r].n \in Nat /\ 0 \in 0..MaxSessions
    BY <2>1, Constants DEF PlatformInv, HandlersGood, AuthGood
  <2>5. PICK d \in BOOLEAN : d = FALSE
    OBVIOUS
  <2>6. NewSession(req[r].user, 0, req[r].n, req[r].n, d)
    BY <2>1, <2>5
  <2>3. ASSUME NEW s \in Sessions, session'[s] # session[s] PROVE Opened(s)
    <3> DEFINE b == (d \/ user[req[r].user].resets # req[r].n)
    <3>1. /\ session[s].state = "none"
          /\ session'[s] = [user |-> req[r].user, state |-> "live", parent |-> 0,
                            auth |-> req[r].n, raced |-> b]
      BY <2>2, <2>3, <2>5, <2>6, NewSessionRow
    <3>2. b \in BOOLEAN /\ (b \/ user[req[r].user].resets = req[r].n)
      OBVIOUS
    <3> HIDE DEF b
    <3> QED
      BY <2>1, <2>2, <3>1, <3>2 DEF Opened
  <2>4. session' = [s \in Sessions |-> session'[s]]
    BY <1>1, <2>1
  <2> QED
    BY <2>3, <2>4 DEF SessionMove
<1>5. ASSUME NEW r \in Requests, RefreshCreate(r) PROVE Good
  <2> DEFINE q == req[r]
             a == session[q.id].auth
             x == [q EXCEPT !.op = "mark", !.n = First(FreeSessions)]
  <2>1. /\ q.op = "refresh" /\ NewSession(q.user, q.id, a, q.n, q.raced)
        /\ user' = user /\ req' = [req EXCEPT ![r] = x]
        /\ \E i : session' = [session EXCEPT ![i] = session'[i]]
    BY <1>1, <1>5 DEF RefreshCreate, NewSession
  <2>2. /\ q.user \in Users /\ q.n \in Nat /\ q.id \in Sessions /\ session[q.id].state # "none"
        /\ q.raced \in BOOLEAN /\ (q.raced \/ a = q.n)
    BY <2>1 DEF PlatformInv, HandlersGood, AuthGood
  <2>3. a \in Nat /\ q.id \in 0..MaxSessions /\ q.id # 0
    BY <1>1, <2>2, Constants DEF SessionRow, Sessions
  <2>4. req'[r].op = "mark" /\ req'[r].id = q.id
    <3>1. req = [y \in Requests |-> req[y]] /\ Handler(q)
      BY DEF PlatformInv, HandlersFormed
    <3>2. x.op = "mark" /\ x.id = q.id
      <4> HIDE DEF q
      <4> QED
        BY <3>1 DEF Handler
    <3> HIDE DEF x, q
    <3>3. req'[r] = x
      BY <2>1, <3>1
    <3> QED
      BY <3>2, <3>3
  <2> HIDE DEF a, q
  <2>5. ASSUME NEW s \in Sessions, session'[s] # session[s] PROVE Opened(s)
    <3> DEFINE b == (q.raced \/ user[q.user].resets # q.n)
    <3>1. /\ session[s].state = "none"
          /\ session'[s] = [user |-> q.user, state |-> "live", parent |-> q.id,
                            auth |-> a, raced |-> b]
      BY <2>1, <2>2, <2>3, <2>5, NewSessionRow
    <3>2. b \in BOOLEAN /\ (b \/ user[q.user].resets = a)
      BY <2>2
    <3> HIDE DEF b
    <3> QED
      BY <2>1, <2>2, <2>3, <2>4, <3>1, <3>2 DEF Opened, q
  <2>6. session' = [s \in Sessions |-> session'[s]]
    BY <1>1, <2>1
  <2> QED
    BY <2>5, <2>6 DEF SessionMove
<1>6. ASSUME NEW r \in Requests, RefreshMark(r) PROVE Good
  <2>1. req[r].op = "mark" /\ session' = [session EXCEPT ![req[r].id].state = "revoked"]
    BY <1>6 DEF RefreshMark
  <2>2. req[r].id \in Sessions /\ session[req[r].id].state # "none"
    BY <2>1 DEF PlatformInv, HandlersGood, AuthGood
  <2> QED
    BY <1>3, <2>1, <2>2
<1>7. ASSUME NEW r \in Requests, ResetWrite(r) PROVE Good
  <2>1. session' = [s \in Sessions |->
           IF session[s].user = req[r].user /\ session[s].state \in {"live", "expired"}
           THEN [session[s] EXCEPT !.state = "revoked"] ELSE session[s]]
    BY <1>7 DEF ResetWrite
  <2>2. \A s \in Sessions : session'[s] = session[s] \/ Closed(s)
    BY <2>1 DEF Closed
  <2> QED
    BY <2>1, <2>2 DEF SessionMove
<1>8. ASSUME NEW r, NEW u, NEW s \in Sessions, Logout(r, u, s) PROVE Good
  BY <1>3, <1>8 DEF Logout
<1>9. ASSUME NEW s \in Sessions, SessionExpires(s) PROVE Good
  BY <1>3, <1>9 DEF SessionExpires
<1>10. ASSUME AuthNext PROVE Good
  <2>1. ASSUME NEW r, NEW u, NEW s, NEW t, NEW on,
               \/ Login(r, u) \/ RequestPasswordReset(r, u) \/ LoginExpire(r) \/ LoginLookup(r)
               \/ Refresh(r, s) \/ ResetPassword(r, t) \/ IssueReset(r)
               \/ AccessExpires(u) \/ WindowEnds(u) \/ UpdateMaintenance(u, on)
        PROVE  session' = session
    BY <2>1 DEF Login, RequestPasswordReset, LoginExpire, LoginLookup, Refresh, ResetPassword,
       IssueReset, AccessExpires, WindowEnds, UpdateMaintenance, authRows
  <2> HIDE DEF Good
  <2> QED
    BY <1>2, <1>4, <1>5, <1>6, <1>7, <1>8, <1>9, <1>10, <2>1 DEF AuthNext
<1>11. ~AuthNext => session' = session
  BY CollegesLeave, StructureLeaves, EnrolLeaves, PersonLeaves, TenancyLeaves, PanelLeaves, CrashLeaves
     DEF PlatformNext, serviceRows, accountRows, authRows, panelVars, tenantVars, enrolVars, accountVars
<1> QED
  BY <1>2, <1>10, <1>11

\* Sessions keep what they were opened with, and a reset closes those of its user.
LEMMA SessionsStep ==
  PlatformInv /\ [PlatformNext]_panelVars =>
    /\ session' \in [Sessions -> SessionRow] /\ SessionRows' /\ SelfResetEndsSessions'
    /\ \A s \in Sessions : session[s].state # "none" =>
         session'[s].state # "none" /\ session'[s].auth = session[s].auth
<1> SUFFICES ASSUME PlatformInv, [PlatformNext]_panelVars
             PROVE  /\ session' \in [Sessions -> SessionRow] /\ SessionRows' /\ SelfResetEndsSessions'
                    /\ \A s \in Sessions : session[s].state # "none" =>
                         session'[s].state # "none" /\ session'[s].auth = session[s].auth
  OBVIOUS
<1>1. /\ session \in [Sessions -> SessionRow] /\ user \in [Users -> UserRow]
      /\ SessionRows /\ SelfResetEndsSessions
  BY DEF PlatformInv, AccTypeOK, AccountsTypeOK, SessionRow, UserRow, SessionsEnd
<1>2. \A s \in Sessions : SessionMove(s)
  BY SessionsMove
<1>3. ASSUME NEW s \in Sessions, Closed(s)
      PROVE  /\ session'[s] \in SessionRow /\ session'[s].state \in {"revoked", "expired"}
             /\ session'[s].auth = session[s].auth /\ session'[s].parent = session[s].parent
             /\ session[s].state # "none"
  BY <1>1, <1>3 DEF Closed, SessionRow
<1>4. ASSUME NEW s \in Sessions, Opened(s)
      PROVE  /\ session[s].state = "none" /\ session'[s] \in SessionRow
             /\ session'[s].state = "live" /\ session'[s].user \in Users
             /\ session'[s].raced \/ user'[session'[s].user].resets = session'[s].auth
             /\ session'[s].parent # 0 => session[session'[s].parent].state # "none"
  BY <1>1, <1>4 DEF Opened, SessionRow
<1>5. session' \in [Sessions -> SessionRow]
  <2>1. ASSUME NEW s \in Sessions PROVE session'[s] \in SessionRow
    BY <1>1, <1>2, <1>3, <1>4 DEF SessionMove
  <2> QED
    BY <2>1, SessionsMove
<1>6. ASSUME NEW s \in Sessions, session[s].state # "none"
      PROVE  session'[s].state # "none" /\ session'[s].auth = session[s].auth
  BY <1>2, <1>3, <1>4, <1>6 DEF SessionMove
<1>7. SessionRows'
  <2>1. ASSUME NEW s \in Sessions, session'[s].state = "live" PROVE session'[s].user \in Users
    BY <1>1, <1>2, <1>3, <1>4, <2>1 DEF SessionMove, SessionRows
  <2>2. ASSUME NEW s \in Sessions, session'[s].parent # 0
        PROVE  session'[session'[s].parent].state # "none"
    <3>1. session'[s].parent \in Sessions
      BY <1>5, <2>2, Constants DEF SessionRow, Sessions
    <3>2. session[session'[s].parent].state # "none"
      BY <1>1, <1>2, <1>3, <1>4, <2>2 DEF SessionMove, SessionRows
    <3> QED
      BY <1>6, <3>1, <3>2
  <2> QED
    BY <2>1, <2>2 DEF SessionRows
<1>8. SelfResetEndsSessions'
  <2> SUFFICES ASSUME NEW s \in Sessions, session'[s].state = "live"
               PROVE  session'[s].raced \/ session'[s].auth = user'[session'[s].user].resets
    BY DEF SelfResetEndsSessions
  <2>1. CASE Opened(s)
    BY <1>4, <2>1
  <2>2. CASE session'[s] = session[s]
    <3> DEFINE u == session[s].user
    <3>1. u \in Users /\ (session[s].raced \/ session[s].auth = user[u].resets)
      BY <1>1, <2>2 DEF SessionRows, SelfResetEndsSessions
    <3>2. CASE user'[u].resets = user[u].resets
      BY <2>2, <3>1, <3>2
    <3>3. CASE \E r \in Requests : ResetWrite(r) /\ req[r].user = u
      <4>1. session' = [t \in Sessions |->
              IF session[t].user = u /\ session[t].state \in {"live", "expired"}
              THEN [session[t] EXCEPT !.state = "revoked"] ELSE session[t]]
        BY <3>3 DEF ResetWrite
      <4>2. session'[s] = [session[s] EXCEPT !.state = "revoked"]
        BY <2>2, <4>1
      <4>3. session'[s].state = "revoked"
        BY <1>1, <4>2 DEF SessionRow
      <4> QED
        BY <4>3
    <3> QED
      BY <3>1, <3>2, <3>3, UsersStep
  <2> QED
    BY <1>2, <1>3, <2>1, <2>2 DEF SessionMove
<1> QED
  BY <1>5, <1>6, <1>7, <1>8

TokenRow == [user : Users \cup {None}, status : {"none", "ACTIVE", "USED", "REVOKED"},
             base : 0..MaxResetTokens]

\* The token a request for a reset adds: the first that is free.
Issued(t) ==
    /\ resetToken[t].status = "none"
    /\ \A x \in ResetTokens : resetToken[x].status = "none" => t <= x
    /\ \E r \in Requests :
         /\ req[r].op = "issue" /\ req[r].user \in Users
         /\ resetToken'[t] = [user |-> req[r].user, status |-> "ACTIVE", base |-> req[r].n]

\* The token is used or revoked.
Spent(t) == resetToken[t].status # "none" /\
    \E x \in {"USED", "REVOKED"} : resetToken'[t] = [resetToken[t] EXCEPT !.status = x]

\* How a reset token may change in one step.
LEMMA TokensMove ==
  PlatformInv /\ [PlatformNext]_panelVars =>
    /\ resetToken' = [t \in ResetTokens |-> resetToken'[t]]
    /\ \A t \in ResetTokens : resetToken'[t] = resetToken[t] \/ Issued(t) \/ Spent(t)
<1> DEFINE Good == /\ resetToken' = [t \in ResetTokens |-> resetToken'[t]]
                   /\ \A t \in ResetTokens : resetToken'[t] = resetToken[t] \/ Issued(t) \/ Spent(t)
<1> SUFFICES ASSUME PlatformInv, [PlatformNext]_panelVars PROVE Good
  OBVIOUS
<1>1. resetToken \in [ResetTokens -> TokenRow]
  BY DEF PlatformInv, AccTypeOK, AccountsTypeOK, TokenRow
<1>2. ASSUME resetToken' = resetToken PROVE Good
  BY <1>1, <1>2
<1>3. ASSUME NEW r \in Requests, NEW u \in Users, RequestPasswordReset(r, u) PROVE Good
  <2>1. resetToken' = [t \in ResetTokens |-> IF resetToken[t].user = u
                         THEN Revoked(resetToken[t]) ELSE resetToken[t]]
    BY <1>3 DEF RequestPasswordReset
  <2>2. \A t \in ResetTokens : resetToken'[t] = resetToken[t] \/
           (resetToken[t].status = "ACTIVE" /\ resetToken'[t] = [resetToken[t] EXCEPT !.status = "REVOKED"])
    BY <2>1 DEF Revoked
  <2> QED
    BY <2>1, <2>2 DEF Spent
<1>4. ASSUME NEW r \in Requests, IssueReset(r) PROVE Good
  <2> DEFINE f == First(FreeResets)
             x == [user |-> req[r].user, status |-> "ACTIVE", base |-> req[r].n]
  <2>1. req[r].op = "issue" /\ FreeResets # {} /\ resetToken' = [resetToken EXCEPT ![f] = x]
    BY <1>4 DEF IssueReset
  <2>2. req[r].user \in Users
    BY <2>1 DEF PlatformInv, HandlersGood, AuthGood
  <2>3. f \in FreeResets /\ \A y \in FreeResets : f <= y
    <3>1. FreeResets \in SUBSET Nat /\ FreeResets # {}
      BY <2>1, Constants DEF FreeResets, ResetTokens
    <3> QED
      BY <3>1, FirstIsLeast, Zenon
  <2>4. /\ f \in ResetTokens /\ resetToken[f].status = "none"
        /\ \A y \in ResetTokens : resetToken[y].status = "none" => f <= y
    BY <2>3 DEF FreeResets
  <2> HIDE DEF f, x
  <2>5. /\ resetToken' = [t \in ResetTokens |-> resetToken'[t]] /\ resetToken'[f] = x
        /\ \A t \in ResetTokens : t # f => resetToken'[t] = resetToken[t]
    BY <1>1, <2>1, <2>4
  <2>6. Issued(f)
    BY <2>1, <2>2, <2>4, <2>5 DEF Issued, x
  <2> QED
    BY <2>5, <2>6
<1>5. ASSUME NEW r \in Requests, ResetWrite(r) PROVE Good
  <2> DEFINE f == req[r].id
  <2>1. req[r].op = "reset" /\ resetToken' = [resetToken EXCEPT ![f].status = "USED"]
    BY <1>5 DEF ResetWrite
  <2>2. f \in ResetTokens /\ resetToken[f].status # "none"
    BY <2>1 DEF PlatformInv, HandlersGood, AuthGood
  <2> HIDE DEF f
  <2>3. /\ resetToken' = [t \in ResetTokens |-> resetToken'[t]]
        /\ resetToken'[f] = [resetToken[f] EXCEPT !.status = "USED"]
        /\ \A t \in ResetTokens : t # f => resetToken'[t] = resetToken[t]
    BY <1>1, <2>1, <2>2
  <2>4. Spent(f)
    BY <2>2, <2>3 DEF Spent
  <2> QED
    BY <2>3, <2>4
<1>6. ASSUME AuthNext PROVE Good
  <2>1. ASSUME NEW r, NEW u, NEW s, NEW t, NEW on,
               \/ Login(r, u) \/ LoginExpire(r) \/ LoginLookup(r) \/ LoginCreate(r)
               \/ Refresh(r, s) \/ RefreshCreate(r) \/ RefreshMark(r) \/ Logout(r, u, s)
               \/ ResetPassword(r, t) \/ SessionExpires(s)
               \/ AccessExpires(u) \/ WindowEnds(u) \/ UpdateMaintenance(u, on)
        PROVE  resetToken' = resetToken
    BY <2>1 DEF Login, LoginExpire, LoginLookup, LoginCreate, Refresh, RefreshCreate, RefreshMark,
       Logout, ResetPassword, SessionExpires, AccessExpires, WindowEnds, UpdateMaintenance, authRows
  <2> HIDE DEF Good
  <2> QED
    BY <1>2, <1>3, <1>4, <1>5, <1>6, <2>1 DEF AuthNext
<1>7. ~AuthNext => resetToken' = resetToken
  BY CollegesLeave, StructureLeaves, EnrolLeaves, PersonLeaves, TenancyLeaves, PanelLeaves, CrashLeaves
     DEF PlatformNext, serviceRows, accountRows, authRows, panelVars, tenantVars, enrolVars, accountVars
<1> QED
  BY <1>2, <1>6, <1>7

\* Tokens are used up in order, and two of a user are good at once only when
\* the requests for them overlapped.
LEMMA TokensStep ==
  PlatformInv /\ [PlatformNext]_panelVars =>
    /\ resetToken' \in [ResetTokens -> TokenRow] /\ TokenRows' /\ ActiveResetsOverlap'
    /\ \A t \in ResetTokens :
         /\ resetToken'[t].status = "none" => resetToken[t].status = "none"
         /\ resetToken'[t].status = "ACTIVE" =>
              \/ resetToken[t].status = "none"
              \/ resetToken[t].status = "ACTIVE" /\ resetToken'[t].user = resetToken[t].user
<1> SUFFICES ASSUME PlatformInv, [PlatformNext]_panelVars
             PROVE  /\ resetToken' \in [ResetTokens -> TokenRow] /\ TokenRows' /\ ActiveResetsOverlap'
                    /\ \A t \in ResetTokens :
                         /\ resetToken'[t].status = "none" => resetToken[t].status = "none"
                         /\ resetToken'[t].status = "ACTIVE" =>
                              \/ resetToken[t].status = "none"
                              \/ resetToken[t].status = "ACTIVE" /\ resetToken'[t].user = resetToken[t].user
  OBVIOUS
<1>1. /\ resetToken \in [ResetTokens -> TokenRow] /\ TokenRows /\ ActiveResetsOverlap
      /\ \A r \in Requests : AuthGood(req[r], session, resetToken, user)
      /\ ResetTokens \subseteq Nat
  BY Constants DEF PlatformInv, AccTypeOK, AccountsTypeOK, TokenRow, SessionsEnd, HandlersGood, ResetTokens
<1>2. \A t \in ResetTokens : resetToken'[t] = resetToken[t] \/ Issued(t) \/ Spent(t)
  BY TokensMove
<1>3. ASSUME NEW t \in ResetTokens, Spent(t)
      PROVE  /\ resetToken'[t] \in TokenRow /\ resetToken'[t].status \in {"USED", "REVOKED"}
             /\ resetToken[t].status # "none"
  BY <1>1, <1>3 DEF Spent, TokenRow
<1>4. ASSUME NEW t \in ResetTokens, Issued(t)
      PROVE  /\ resetToken'[t] \in TokenRow /\ resetToken'[t].status = "ACTIVE"
             /\ resetToken'[t].user \in Users /\ resetToken[t].status = "none"
             /\ \A x \in ResetTokens : resetToken[x].status = "none" => t <= x
             /\ \A x \in ResetTokens : resetToken[x].status = "ACTIVE"
                  /\ resetToken[x].user = resetToken'[t].user => x > resetToken'[t].base
  <2>1. PICK r \in Requests : /\ req[r].op = "issue" /\ req[r].user \in Users
           /\ resetToken'[t] = [user |-> req[r].user, status |-> "ACTIVE", base |-> req[r].n]
    BY <1>4 DEF Issued
  <2>2. /\ req[r].n \in 0..MaxResetTokens
        /\ \A x \in ResetTokens : resetToken[x].status = "ACTIVE" /\ resetToken[x].user = req[r].user => x > req[r].n
    BY <1>1, <2>1 DEF AuthGood
  <2> QED
    BY <1>4, <2>1, <2>2 DEF Issued, TokenRow
<1>5. resetToken' \in [ResetTokens -> TokenRow]
  <2>1. ASSUME NEW t \in ResetTokens PROVE resetToken'[t] \in TokenRow
    BY <1>1, <1>2, <1>3, <1>4
  <2> QED
    BY <2>1, TokensMove
<1>6. ASSUME NEW t \in ResetTokens
      PROVE  /\ resetToken'[t].status = "none" => resetToken[t].status = "none"
             /\ resetToken'[t].status = "ACTIVE" =>
                  \/ resetToken[t].status = "none"
                  \/ resetToken[t].status = "ACTIVE" /\ resetToken'[t].user = resetToken[t].user
  BY <1>2, <1>3, <1>4
<1>7. TokenRows'
  <2>1. ASSUME NEW s \in ResetTokens, NEW t \in ResetTokens, s < t, resetToken'[s].status = "none"
        PROVE  resetToken'[t].status = "none"
    <3>1. resetToken[s].status = "none" /\ resetToken[t].status = "none" /\ s \in Nat /\ t \in Nat
      BY <1>1, <1>6, <2>1 DEF TokenRows
    <3>2. ~Issued(t)
      BY <1>4, <2>1, <3>1
    <3> QED
      BY <1>2, <1>3, <3>1, <3>2
  <2>2. ASSUME NEW t \in ResetTokens, resetToken'[t].status = "ACTIVE"
        PROVE  resetToken'[t].user \in Users
    BY <1>1, <1>2, <1>3, <1>4, <2>2 DEF TokenRows
  <2> QED
    BY <2>1, <2>2 DEF TokenRows
<1>8. ActiveResetsOverlap'
  <2> SUFFICES ASSUME NEW s \in ResetTokens, NEW t \in ResetTokens, s < t,
                      resetToken'[s].status = "ACTIVE", resetToken'[t].status = "ACTIVE",
                      resetToken'[s].user = resetToken'[t].user
               PROVE  resetToken'[t].base < s
    BY DEF ActiveResetsOverlap
  <2>1. s \in Nat /\ t \in Nat /\ resetToken'[t].base \in Nat
    BY <1>1, <1>5, Constants DEF TokenRow
  <2>2. ~Spent(s) /\ ~Spent(t)
    BY <1>3
  <2>3. CASE Issued(s)
    <3>1. resetToken[t].status = "none"
      BY <1>1, <1>4, <2>3 DEF TokenRows
    <3>2. Issued(t)
      BY <1>2, <2>2, <3>1
    <3> QED
      BY <1>4, <2>1, <2>3, <3>2
  <2>4. CASE resetToken'[s] = resetToken[s] /\ Issued(t)
    BY <1>4, <2>1, <2>4
  <2>5. CASE resetToken'[s] = resetToken[s] /\ resetToken'[t] = resetToken[t]
    BY <1>1, <2>5 DEF ActiveResetsOverlap
  <2> QED
    BY <1>2, <2>2, <2>3, <2>4, <2>5
<1> QED
  BY <1>5, <1>6, <1>7, <1>8

\* What the handlers of AuthService know stays true while they wait.
LEMMA AuthKept ==
  PlatformInv /\ [PlatformNext]_panelVars =>
    \A q : AuthGood(q, session, resetToken, user) => AuthGood(q, session', resetToken', user')
<1> SUFFICES ASSUME PlatformInv, [PlatformNext]_panelVars, NEW q,
                    AuthGood(q, session, resetToken, user)
             PROVE  AuthGood(q, session', resetToken', user')
  OBVIOUS
<1>1. \A s \in Sessions : session[s].state # "none" =>
         session'[s].state # "none" /\ session'[s].auth = session[s].auth
  BY SessionsStep
<1>2. \A t \in ResetTokens :
         /\ resetToken'[t].status = "none" => resetToken[t].status = "none"
         /\ resetToken'[t].status = "ACTIVE" =>
              \/ resetToken[t].status = "none"
              \/ resetToken[t].status = "ACTIVE" /\ resetToken'[t].user = resetToken[t].user
  BY TokensStep
<1>3. \A u \in Users : user[u].role # "NONE" => user'[u].role # "NONE"
  BY UsersStep DEF Exists
<1> QED
  BY <1>1, <1>2, <1>3 DEF AuthGood

-----------------------------------------------------------------------------
(* Handlers in flight. *)

\* A free slot.
LEMMA NoReqFields ==
  /\ Handler(NoReq) /\ NoReq.op = "idle" /\ NoReq.data = None /\ NoReq.user = None
  /\ NoReq.college = None /\ NoReq.id = 0 /\ NoReq.n = 0 /\ NoReq.raced = FALSE /\ NoReq.todo = {}
  BY DEF NoReq, Handler


-----------------------------------------------------------------------------
(* Academic rows. *)

RowRec == [kind : {"none", "department", "course", "semester", "subject", "batch", "assignment"},
           college : Colleges \cup {None}, course : 0..MaxRows, semester : 0..MaxRows,
           link : 0..MaxRows, faculty : Users \cup {None}, status : EntityStatus]

Sound(x, rows) == \A j \in {x.course, x.semester, x.link} \ {0} :
    rows[j].kind # "none" /\ rows[j].college = x.college

\* A row is added, or only its status changes.
Filled(i) == row[i].kind = "none" /\ row'[i] \in RowRec /\ row'[i].kind # "none" /\ Sound(row'[i], row')
Restated(i) == row[i].kind # "none" /\ \E s \in EntityStatus : row'[i] = [row[i] EXCEPT !.status = s]

\* A new row links to nothing.
LEMMA NewRowFields ==
  ASSUME NEW c \in Colleges, NEW k \in {"department", "course", "semester", "subject", "batch"}
  PROVE  /\ NewRow(c, k) \in RowRec /\ NewRow(c, k).kind = k /\ NewRow(c, k).college = c
         /\ NewRow(c, k).course = 0 /\ NewRow(c, k).semester = 0 /\ NewRow(c, k).link = 0
<1>1. /\ NoRow \in RowRec /\ NoRow.course = 0 /\ NoRow.semester = 0 /\ NoRow.link = 0
  BY Constants DEF NoRow, RowRec, EntityStatus
<1> QED
  BY <1>1 DEF NewRow, RowRec, EntityStatus

\* How an academic row may change in one step.
LEMMA RowsMove ==
  PlatformInv /\ [PlatformNext]_panelVars =>
    /\ row' = [i \in Rows |-> row'[i]]
    /\ \A i \in Rows : row'[i] = row[i] \/ Filled(i) \/ Restated(i)
<1> DEFINE Good == /\ row' = [i \in Rows |-> row'[i]]
                   /\ \A i \in Rows : row'[i] = row[i] \/ Filled(i) \/ Restated(i)
<1> SUFFICES ASSUME PlatformInv, [PlatformNext]_panelVars PROVE Good
  OBVIOUS
<1>1. row \in [Rows -> RowRec] /\ FreeRows \subseteq Rows /\ (\A i \in FreeRows : row[i].kind = "none")
      /\ RowLinks /\ Rows \subseteq Nat
  BY Constants DEF PlatformInv, AccTypeOK, EnrolTypeOK, RowRec, FreeRows, Rows
<1>2. ASSUME row' = row PROVE Good
  BY <1>1, <1>2
<1>3. ASSUME NEW x \in RowRec, x.kind # "none", FreeRows # {}, Sound(x, row),
             row' = [row EXCEPT ![First(FreeRows)] = x]
      PROVE  Good
  <2> DEFINE f == First(FreeRows)
  <2>1. f \in Rows /\ row[f].kind = "none"
    BY <1>1, <1>3, Free
  <2>4. row' = [row EXCEPT ![f] = x]
    BY <1>3
  <2> HIDE DEF f
  <2>2. /\ row' = [i \in Rows |-> row'[i]] /\ row'[f] = x
        /\ \A i \in Rows : i # f => row'[i] = row[i]
    BY <1>1, <2>1, <2>4
  <2>3. Sound(x, row')
    <3> SUFFICES ASSUME NEW j \in {x.course, x.semester, x.link} \ {0}
                 PROVE  row'[j].kind # "none" /\ row'[j].college = x.college
      BY DEF Sound
    <3>1. j \in Rows /\ row[j].kind # "none" /\ row[j].college = x.college
      BY <1>3, Constants DEF Sound, RowRec, Rows
    <3> QED
      BY <2>1, <2>2, <3>1
  <2> QED
    BY <1>3, <2>1, <2>2, <2>3 DEF Filled
<1>4. ASSUME NEW i \in Rows, NEW s \in EntityStatus, row[i].kind # "none",
             row' = [row EXCEPT ![i].status = s]
      PROVE  Good
  <2>1. row' = [j \in Rows |-> row'[j]] /\ row'[i] = [row[i] EXCEPT !.status = s]
        /\ \A j \in Rows : j # i => row'[j] = row[j]
    BY <1>1, <1>4
  <2> QED
    BY <1>4, <2>1 DEF Restated
<1>5. ASSUME NEW i, NEW k, NEW c, InCollege(i, k, c), k # "none"
      PROVE  i \in Rows /\ i \in 0..MaxRows /\ row[i].kind # "none" /\ row[i].college = c
  BY <1>5, Constants DEF InCollege, Rows
<1>6. ASSUME NEW r, NEW u, NEW c \in Colleges, CreateDepartment(r, u, c) PROVE Good
  <2>1. FreeRows # {} /\ row' = [row EXCEPT ![First(FreeRows)] = NewRow(c, "department")]
    BY <1>6 DEF CreateDepartment, RowCall, AddRow
  <2> DEFINE x == NewRow(c, "department")
  <2>2. x \in RowRec /\ x.kind # "none" /\ Sound(x, row)
    BY NewRowFields DEF Sound
  <2> QED
    BY <1>3, <2>1, <2>2
<1>7. ASSUME NEW r, NEW u, NEW c \in Colleges, NEW d, NEW k, NEW s, CreateSubject(r, u, c, d, k, s)
      PROVE  Good
  <2> DEFINE x == [NewRow(c, "subject") EXCEPT !.course = k, !.semester = s, !.link = d]
  <2>1. /\ FreeRows # {} /\ row' = [row EXCEPT ![First(FreeRows)] = x]
        /\ InCollege(d, "department", c) /\ InCollege(k, "course", c) /\ InCollege(s, "semester", c)
    BY <1>7 DEF CreateSubject, RowCall, AddRow
  <2>2. /\ x \in RowRec /\ x.kind = "subject" /\ x.college = c
        /\ x.course = k /\ x.semester = s /\ x.link = d
    <3> DEFINE n == NewRow(c, "subject")
    <3>1. n \in RowRec /\ n.kind = "subject" /\ n.college = c
      BY NewRowFields
    <3>2. d \in 0..MaxRows /\ k \in 0..MaxRows /\ s \in 0..MaxRows
      BY <1>5, <2>1
    <3> HIDE DEF n
    <3>3. LET z == [n EXCEPT !.course = k, !.semester = s, !.link = d] IN
          /\ z \in RowRec /\ z.kind = "subject" /\ z.college = c
          /\ z.course = k /\ z.semester = s /\ z.link = d
      BY <3>1, <3>2 DEF RowRec
    <3> QED
      BY <3>3 DEF n
  <2> HIDE DEF x
  <2>3. Sound(x, row)
    BY <1>5, <2>1, <2>2 DEF Sound
  <2> QED
    BY <1>3, <2>1, <2>2, <2>3
<1>8. ASSUME NEW r, NEW u, NEW c \in Colleges, NEW k, NEW s, CreateBatch(r, u, c, k, s) PROVE Good
  <2> DEFINE x == [NewRow(c, "batch") EXCEPT !.course = k, !.semester = s]
  <2>1. /\ FreeRows # {} /\ row' = [row EXCEPT ![First(FreeRows)] = x]
        /\ InCollege(k, "course", c) /\ InCollege(s, "semester", c)
    BY <1>8 DEF CreateBatch, RowCall, AddRow
  <2>2. /\ x \in RowRec /\ x.kind = "batch" /\ x.college = c
        /\ x.course = k /\ x.semester = s /\ x.link = 0
    <3> DEFINE n == NewRow(c, "batch")
    <3>1. n \in RowRec /\ n.kind = "batch" /\ n.college = c /\ n.link = 0
      BY NewRowFields
    <3>2. k \in 0..MaxRows /\ s \in 0..MaxRows
      BY <1>5, <2>1
    <3> HIDE DEF n
    <3>3. LET z == [n EXCEPT !.course = k, !.semester = s] IN
          /\ z \in RowRec /\ z.kind = "batch" /\ z.college = c
          /\ z.course = k /\ z.semester = s /\ z.link = 0
      BY <3>1, <3>2 DEF RowRec
    <3> QED
      BY <3>3 DEF n
  <2> HIDE DEF x
  <2>3. Sound(x, row)
    BY <1>5, <2>1, <2>2 DEF Sound
  <2> QED
    BY <1>3, <2>1, <2>2, <2>3
<1>9. ASSUME NEW r, NEW u, NEW c \in Colleges, NEW f \in Users, NEW s, NEW m, NEW b,
             AssignSubject(r, u, c, f, s, m, b)
      PROVE  Good
  <2> DEFINE x == [kind |-> "assignment", college |-> c, course |-> b, semester |-> m, link |-> s,
                   faculty |-> f, status |-> "ACTIVE"]
  <2>1. /\ InCollege(s, "subject", c) /\ InCollege(m, "semester", c) /\ InCollege(b, "batch", c)
        /\ \/ \E i \in Rows : row[i].kind = "assignment" /\ row' = [row EXCEPT ![i].status = "ACTIVE"]
           \/ FreeRows # {} /\ row' = [row EXCEPT ![First(FreeRows)] = x]
    BY <1>9 DEF AssignSubject
  <2>2. x \in RowRec /\ x.kind = "assignment" /\ x.college = c
        /\ x.course = b /\ x.semester = m /\ x.link = s
    BY <1>5, <2>1 DEF RowRec, EntityStatus
  <2> HIDE DEF x
  <2>3. Sound(x, row)
    BY <1>5, <2>1, <2>2 DEF Sound
  <2> QED
    BY <1>3, <1>4, <2>1, <2>2, <2>3 DEF EntityStatus
<1>10. ASSUME NEW r, NEW u, NEW i \in Rows, NEW s \in EntityStatus, SetRowStatus(r, u, i, s) PROVE Good
  BY <1>4, <1>10 DEF SetRowStatus
<1>11. ASSUME NEW r, NEW u, NEW c \in Colleges, NEW d, CreateCourse(r, u, c, d) PROVE Good
  <2> DEFINE f == First(FreeRows)
             g == First(FreeRows \ {f})
             x == [NewRow(c, "course") EXCEPT !.link = d]
             y == [NewRow(c, "semester") EXCEPT !.course = f]
  <2>1. /\ FreeRows # {} /\ Cardinality(FreeRows) > 1 /\ InCollege(d, "department", c)
        /\ row' = [row EXCEPT ![f] = x, ![g] = y]
    BY <1>11 DEF CreateCourse, RowCall
  <2>2. f \in FreeRows
    BY <2>1, Free
  <2>3. g \in FreeRows \ {f}
    <3>1. FreeRows # {f}
      <4> HIDE DEF f
      <4> QED
        BY <2>1, FS_Singleton, SMTT(30)
    <3>2. FreeRows \ {f} # {} /\ FreeRows \ {f} \in SUBSET FreeRows
      BY <2>2, <3>1
    <3> QED
      BY <3>2, Free
  <2>4. f \in Rows /\ g \in Rows /\ f # g /\ row[f].kind = "none" /\ row[g].kind = "none"
        /\ f \in 0..MaxRows /\ f # 0
    <3> HIDE DEF f, g
    <3>1. f \in Rows /\ g \in Rows /\ f # g /\ row[f].kind = "none" /\ row[g].kind = "none"
      BY <1>1, <2>2, <2>3
    <3> QED
      BY <3>1, Constants DEF Rows
  <2> HIDE DEF f, g
  <2>5. /\ x \in RowRec /\ x.kind = "course" /\ x.college = c
        /\ x.course = 0 /\ x.semester = 0 /\ x.link = d
    BY <1>5, <2>1, NewRowFields DEF RowRec
  <2>6. /\ y \in RowRec /\ y.kind = "semester" /\ y.college = c
        /\ y.course = f /\ y.semester = 0 /\ y.link = 0
    BY <2>4, NewRowFields DEF RowRec
  <2> HIDE DEF x, y
  <2>7. /\ row' = [i \in Rows |-> row'[i]] /\ row'[f] = x /\ row'[g] = y
        /\ \A i \in Rows : i \notin {f, g} => row'[i] = row[i]
    BY <1>1, <2>1, <2>4
  <2>8. Filled(f)
    <3>1. d \in Rows /\ row[d].kind # "none" /\ row[d].college = c
      BY <1>5, <2>1
    <3>2. row'[d].kind # "none" /\ row'[d].college = c
      BY <2>4, <2>7, <3>1
    <3> QED
      BY <2>4, <2>5, <2>7, <3>2 DEF Filled, Sound
  <2>9. Filled(g)
    BY <2>4, <2>5, <2>6, <2>7 DEF Filled, Sound
  <2> QED
    BY <2>7, <2>8, <2>9
<1>12. ASSUME StructureNext PROVE Good
  <2> HIDE DEF Good
  <2> QED
    BY <1>6, <1>7, <1>8, <1>9, <1>10, <1>11, <1>12 DEF StructureNext
<1>13. AuthNext /\ UNCHANGED <<enrolRows, tenantRows, panelRows>> => row' = row
  BY DEF enrolRows
<1>14. CollegesNext /\ UNCHANGED <<enrolRows, tenantRows, panelRows>> => row' = row
  BY DEF enrolRows
<1>15. EnrolNext \/ PersonNext \/ TenancyNext \/ PanelNext \/ PanelCrash \/ UNCHANGED panelVars => row' = row
  BY EnrolLeaves, PersonLeaves, TenancyLeaves, PanelLeaves, CrashLeaves
     DEF enrolRows, serviceRows, accountRows, panelVars, tenantVars, enrolVars
<1> HIDE DEF Good
<1> QED
  BY <1>2, <1>12, <1>13, <1>14, <1>15 DEF PlatformNext

\* Rows stay with their college and their links.
LEMMA RowsStep ==
  PlatformInv /\ [PlatformNext]_panelVars =>
    /\ row' \in [Rows -> RowRec] /\ RowLinks'
    /\ \A i \in Rows : row[i].kind # "none" =>
         /\ row'[i].kind = row[i].kind /\ row'[i].college = row[i].college
         /\ row'[i].course = row[i].course /\ row'[i].semester = row[i].semester
<1> SUFFICES ASSUME PlatformInv, [PlatformNext]_panelVars
             PROVE  /\ row' \in [Rows -> RowRec] /\ RowLinks'
                    /\ \A i \in Rows : row[i].kind # "none" =>
                         /\ row'[i].kind = row[i].kind /\ row'[i].college = row[i].college
                         /\ row'[i].course = row[i].course /\ row'[i].semester = row[i].semester
  OBVIOUS
<1>1. row \in [Rows -> RowRec] /\ RowLinks
  BY DEF PlatformInv, AccTypeOK, EnrolTypeOK, RowRec
<1>2. \A i \in Rows : row'[i] = row[i] \/ Filled(i) \/ Restated(i)
  BY RowsMove
<1>3. ASSUME NEW i \in Rows, Restated(i)
      PROVE  /\ row'[i] \in RowRec /\ row'[i].kind = row[i].kind /\ row'[i].college = row[i].college
             /\ row'[i].course = row[i].course /\ row'[i].semester = row[i].semester
             /\ row'[i].link = row[i].link /\ row[i].kind # "none"
  BY <1>1, <1>3 DEF Restated, RowRec
<1>4. ASSUME NEW i \in Rows, row[i].kind # "none"
      PROVE  /\ row'[i].kind = row[i].kind /\ row'[i].college = row[i].college
             /\ row'[i].course = row[i].course /\ row'[i].semester = row[i].semester
  BY <1>2, <1>3, <1>4 DEF Filled
<1>5. ASSUME NEW i \in Rows PROVE row'[i] \in RowRec
  BY <1>1, <1>2, <1>3 DEF Filled
<1>6. row' \in [Rows -> RowRec]
  BY <1>5, RowsMove
<1>7. ASSUME NEW i \in Rows
      PROVE  (row'[i].kind = "none" => row'[i] = NoRow) /\ Sound(row'[i], row')
  <2>1. CASE Filled(i)
    BY <2>1 DEF Filled
  <2>2. CASE row'[i] = row[i] \/ Restated(i)
    <3>1. /\ row'[i].course = row[i].course /\ row'[i].semester = row[i].semester
          /\ row'[i].link = row[i].link /\ row'[i].college = row[i].college
          /\ row'[i].kind = "none" => row'[i] = NoRow
      BY <1>1, <1>3, <2>2 DEF RowLinks
    <3>2. ASSUME NEW j \in {row[i].course, row[i].semester, row[i].link} \ {0}
          PROVE  row'[j].kind # "none" /\ row'[j].college = row[i].college
      <4>1. j \in Rows /\ row[j].kind # "none" /\ row[j].college = row[i].college
        BY <1>1, Constants, SMTT(30) DEF RowLinks, RowRec, Rows
      <4> QED
        BY <1>4, <4>1
    <3> QED
      BY <3>1, <3>2 DEF Sound
  <2> QED
    BY <1>2, <2>1, <2>2
<1>8. RowLinks'
  BY <1>7 DEF RowLinks, Sound
<1> QED
  BY <1>4, <1>6, <1>8

-----------------------------------------------------------------------------
(* Links of students and imports. *)

\* A new student gets links to rows of its college, an imported one to rows of
\* one course and semester.
Enrolled(u) ==
    /\ user'[u].role # "NONE"
    /\ links'[u] \in LinkRow /\ StudentLinked(row, user'[u].college, links'[u])
    /\ links'[u].bulk => OneCourse(row, links'[u])

\* The links a form gives.
LEMMA LinkChosen ==
  ASSUME NEW l \in LinkChoices
  PROVE  l \in LinkRow /\ ~l.bulk
<1>1. \A k : Of(k) \subseteq 0..MaxRows
  BY Constants DEF Of, Rows
<1>2. PICK D \in SUBSET (0..MaxRows), K \in SUBSET (0..MaxRows), S \in SUBSET (0..MaxRows),
           B \in SUBSET (0..MaxRows) :
        l \in [department : D, course : K, semester : S, batch : B, bulk : {FALSE}]
  BY <1>1, ZenonT(60) DEF LinkChoices
<1>3. /\ l = [department |-> l.department, course |-> l.course, semester |-> l.semester,
              batch |-> l.batch, bulk |-> l.bulk]
      /\ l.department \in 0..MaxRows /\ l.course \in 0..MaxRows
      /\ l.semester \in 0..MaxRows /\ l.batch \in 0..MaxRows /\ l.bulk = FALSE
  BY <1>2
<1> QED
  BY <1>3 DEF LinkRow

\* How the links of a student may change in one step.
LEMMA LinksMove ==
  PlatformInv /\ [PlatformNext]_panelVars =>
    /\ links' = [u \in Users |-> links'[u]]
    /\ \A u \in Users : links'[u] = links[u] \/ Enrolled(u)
<1> DEFINE Good == /\ links' = [u \in Users |-> links'[u]]
                   /\ \A u \in Users : links'[u] = links[u] \/ Enrolled(u)
<1> SUFFICES ASSUME PlatformInv, [PlatformNext]_panelVars PROVE Good
  OBVIOUS
<1>1. links \in [Users -> LinkRow] /\ user \in [Users -> UserRow]
  BY DEF PlatformInv, AccTypeOK, AccountsTypeOK, EnrolTypeOK, LinkRow, UserRow
<1>2. ASSUME links' = links PROVE Good
  BY <1>1, <1>2
<1>3. ASSUME NEW r, NEW u, NEW c \in Colleges, NEW l \in LinkChoices, NEW e \in Users,
             NEW o \in {"FACULTY", "STUDENT"}, NEW s \in EntityStatus,
             CreatePerson(r, u, c, e, l, o, s)
      PROVE  Good
  <2>1. /\ ~Exists(e) /\ user' = [user EXCEPT ![e] = Person(o, c, s)]
        /\ \/ links' = links
           \/ LinksExist(c, l) /\ links' = [links EXCEPT ![e] = l]
    BY <1>3 DEF CreatePerson
  <2>2. l \in LinkRow /\ ~l.bulk
    BY LinkChosen
  <2>3. LinksExist(c, l) => StudentLinked(row, c, l)
    BY DEF LinksExist, InCollege, StudentLinked, Linked
  <2>4. user'[e].college = c /\ user'[e].role # "NONE"
    BY <1>1, <2>1, PersonBorn DEF Born
  <2>5. ASSUME links' = [links EXCEPT ![e] = l], LinksExist(c, l) PROVE Good
    <3>1. links' = [u_1 \in Users |-> links'[u_1]] /\ links'[e] = l
          /\ \A u_1 \in Users : u_1 # e => links'[u_1] = links[u_1]
      BY <1>1, <2>5
    <3>2. Enrolled(e)
      BY <2>1, <2>2, <2>3, <2>4, <2>5, <3>1 DEF Enrolled
    <3> QED
      BY <3>1, <3>2
  <2> QED
    BY <1>2, <2>1, <2>5
<1>4. ASSUME NEW r \in Requests, ImportWrite(r) PROVE Good
  <2> DEFINE q == req[r]
             l == [q.data EXCEPT !.bulk = TRUE]
  <2>1. /\ q.op = "import"
        /\ links' = [u \in Users |-> links'[u]]
        /\ \A u \in Users : links'[u] = links[u] \/
             (~Exists(u) /\ links'[u] = l /\ user'[u] = Person("STUDENT", q.college, "ACTIVE"))
    BY <1>4 DEF ImportWrite
  <2>2. /\ q.college \in Colleges /\ q.data \in LinkRow
        /\ StudentLinked(row, q.college, q.data) /\ OneCourse(row, q.data)
    BY <2>1 DEF PlatformInv, HandlersGood, EnrolGood
  <2>3. l \in LinkRow /\ StudentLinked(row, q.college, l) /\ OneCourse(row, l)
    <3> HIDE DEF q
    <3>1. /\ l \in LinkRow /\ l.department = q.data.department /\ l.course = q.data.course
          /\ l.semester = q.data.semester /\ l.batch = q.data.batch
      BY <2>2 DEF LinkRow
    <3> HIDE DEF l
    <3> QED
      BY <2>2, <3>1 DEF StudentLinked, Linked, OneCourse
  <2> HIDE DEF l, q
  <2>4. /\ Person("STUDENT", q.college, "ACTIVE").college = q.college
        /\ Person("STUDENT", q.college, "ACTIVE").role # "NONE"
    BY <2>2, PersonBorn DEF EntityStatus, Born
  <2> QED
    BY <2>1, <2>3, <2>4 DEF Enrolled
<1>5. ASSUME EnrolNext PROVE Good
  <2>1. ASSUME NEW r, NEW u, NEW c, NEW E, NEW l,
               BulkCreateStudents(r, u, c, E, l) \/ BulkUpdateStudents(r, u, E) \/ BulkUpdateNext(r)
        PROVE  links' = links
    BY <2>1 DEF BulkCreateStudents, BulkUpdateStudents, BulkUpdateNext, enrolRows
  <2> HIDE DEF Good
  <2> QED
    BY <1>2, <1>3, <1>4, <1>5, <2>1 DEF EnrolNext
<1>6. AuthNext /\ UNCHANGED <<enrolRows, tenantRows, panelRows>> => links' = links
  BY DEF enrolRows
<1>7. CollegesNext /\ UNCHANGED <<enrolRows, tenantRows, panelRows>> => links' = links
  BY DEF enrolRows
<1>8. StructureNext \/ PersonNext \/ TenancyNext \/ PanelNext \/ PanelCrash \/ UNCHANGED panelVars
        => links' = links
  BY StructureLeaves, PersonLeaves, TenancyLeaves, PanelLeaves, CrashLeaves
     DEF enrolRows, serviceRows, accountRows, panelVars, tenantVars, enrolVars
<1> HIDE DEF Good
<1> QED
  BY <1>2, <1>5, <1>6, <1>7, <1>8 DEF PlatformNext

\* Links stay in their college, also those an import writes later than it checked them.
LEMMA LinksStep ==
  PlatformInv /\ [PlatformNext]_panelVars =>
    /\ links' \in [Users -> LinkRow] /\ UserRows' /\ LinkedStudents' /\ ImportedConsistent'
<1> SUFFICES ASSUME PlatformInv, [PlatformNext]_panelVars
             PROVE  links' \in [Users -> LinkRow] /\ UserRows' /\ LinkedStudents' /\ ImportedConsistent'
  OBVIOUS
<1>1. /\ links \in [Users -> LinkRow] /\ UserRows /\ LinkedStudents /\ ImportedConsistent
  BY DEF PlatformInv, AccTypeOK, EnrolTypeOK, LinkRow
<1>2. \A u \in Users : links'[u] = links[u] \/ Enrolled(u)
  BY LinksMove
<1>3. ASSUME NEW c, NEW l, StudentLinked(row, c, l)
      PROVE  StudentLinked(row', c, l) /\ (OneCourse(row, l) => OneCourse(row', l))
  BY <1>3, RowsStep DEF StudentLinked, Linked, OneCourse
<1>4. \A u \in Users : links'[u] \in LinkRow
  BY <1>1, <1>2 DEF Enrolled
<1>5. links' \in [Users -> LinkRow]
  BY <1>4, LinksMove
<1>6. NoLinks \in LinkRow /\ ~NoLinks.bulk
  BY Constants DEF NoLinks, LinkRow
<1>7. UserRows'
  <2> SUFFICES ASSUME NEW u \in Users
               PROVE  /\ user'[u].role = "NONE" => user'[u] = NoUser /\ links'[u] = NoLinks
                      /\ user'[u].role # "NONE" /\ user'[u].role # "SUPER_ADMIN" => user'[u].college \in Colleges
    BY DEF UserRows, Exists
  <2>1. user'[u].role = "NONE" => links'[u] = NoLinks
    <3> SUFFICES ASSUME user'[u].role = "NONE" PROVE links'[u] = NoLinks
      OBVIOUS
    <3>1. ~Exists(u) /\ user'[u] = NoUser
      BY UsersStep
    <3>2. ~Enrolled(u)
      BY DEF Enrolled
    <3> QED
      BY <1>1, <1>2, <3>1, <3>2 DEF UserRows
  <2> QED
    BY <2>1, UsersStep
<1>8. ASSUME NEW e \in Users, links'[e] # NoLinks
      PROVE  /\ StudentLinked(row', user'[e].college, links'[e])
             /\ links'[e].bulk => OneCourse(row', links'[e])
  <2>1. CASE Enrolled(e)
    BY <1>3, <2>1 DEF Enrolled
  <2>2. CASE links'[e] = links[e]
    <3>1. Exists(e) /\ StudentLinked(row, user[e].college, links[e])
      BY <1>1, <1>8, <2>2 DEF UserRows, LinkedStudents
    <3>2. user'[e].college = user[e].college
      BY <3>1, UsersStep
    <3>3. links[e].bulk => OneCourse(row, links[e])
      BY <1>1 DEF ImportedConsistent, OneCourse
    <3> QED
      BY <1>3, <2>2, <3>1, <3>2, <3>3
  <2> QED
    BY <1>2, <2>1, <2>2
<1>9. LinkedStudents'
  BY <1>8 DEF LinkedStudents
<1>10. ImportedConsistent'
  BY <1>6, <1>8 DEF ImportedConsistent, OneCourse
<1> QED
  BY <1>5, <1>7, <1>9, <1>10

\* An import creates all of its students or none.
LEMMA ImportsStep ==
  PlatformInv /\ [PlatformNext]_panelVars =>
    imported' \in [Requests -> [size : Nat, created : Nat]] /\ ImportWhole'
<1> DEFINE Good == imported' \in [Requests -> [size : Nat, created : Nat]] /\ ImportWhole'
<1> SUFFICES ASSUME PlatformInv, [PlatformNext]_panelVars PROVE Good
  OBVIOUS
<1>1. imported \in [Requests -> [size : Nat, created : Nat]] /\ ImportWhole
  BY DEF PlatformInv, AccTypeOK, EnrolTypeOK
<1>2. ASSUME imported' = imported PROVE Good
  BY <1>1, <1>2 DEF ImportWhole
<1>3. ASSUME NEW r \in Requests, ImportWrite(r) PROVE Good
  <2> DEFINE n == Cardinality(req[r].todo)
             clash == \E e \in req[r].todo : Exists(e)
             m == IF clash THEN 0 ELSE n
             x == [size |-> n, created |-> m]
  <2>1. req[r].op = "import" /\ imported' = [imported EXCEPT ![r] = x]
    BY <1>3 DEF ImportWrite
  <2>2. req[r].todo \subseteq Users
    BY <2>1 DEF PlatformInv, HandlersGood, EnrolGood
  <2>3. n \in Nat
    BY <2>2, Constants, FS_Subset, FS_CardinalityType
  <2> HIDE DEF n, clash
  <2>4. m \in Nat /\ m \in {0, n}
    BY <2>3
  <2> HIDE DEF m
  <2>5. x \in [size : Nat, created : Nat] /\ x.created \in {0, x.size}
    BY <2>3, <2>4
  <2> HIDE DEF x
  <2> QED
    BY <1>1, <2>1, <2>5 DEF ImportWhole
<1>4. ASSUME EnrolNext PROVE Good
  <2>1. ASSUME NEW r, NEW u, NEW c, NEW E, NEW l, NEW e, NEW o, NEW s,
               \/ BulkCreateStudents(r, u, c, E, l) \/ BulkUpdateStudents(r, u, E)
               \/ BulkUpdateNext(r) \/ CreatePerson(r, u, c, e, l, o, s)
        PROVE  imported' = imported
    BY <2>1 DEF BulkCreateStudents, BulkUpdateStudents, BulkUpdateNext, CreatePerson, enrolRows
  <2> HIDE DEF Good
  <2> QED
    BY <1>2, <1>3, <1>4, <2>1 DEF EnrolNext
<1>5. AuthNext /\ UNCHANGED <<enrolRows, tenantRows, panelRows>> => imported' = imported
  BY DEF enrolRows
<1>6. CollegesNext /\ UNCHANGED <<enrolRows, tenantRows, panelRows>> => imported' = imported
  BY DEF enrolRows
<1>7. StructureNext \/ PersonNext \/ TenancyNext \/ PanelNext \/ PanelCrash \/ UNCHANGED panelVars
        => imported' = imported
  BY StructureLeaves, PersonLeaves, TenancyLeaves, PanelLeaves, CrashLeaves
     DEF enrolRows, serviceRows, accountRows, panelVars, tenantVars, enrolVars
<1> HIDE DEF Good
<1> QED
  BY <1>2, <1>4, <1>5, <1>6, <1>7 DEF PlatformNext


-----------------------------------------------------------------------------
(* Tenants. *)

\* Which action writes what.
Written ==
    /\ profile' = profile \/ \E r \in Requests : SignupProfile(r) \/ OnboardingPercent(r)
         \/ \E u \in Users, c \in Colleges, y \in Lifecycle : SetLifecycle(r, u, c, y)
    /\ subscribed' = subscribed \/ \E r \in Requests, p \in Plans : SignupTrial(r, p)
         \/ \E u \in Users, c \in Colleges : PlatformChangePlan(r, u, c, p)
    /\ entitled' = entitled \/ \E r \in Requests : SyncEntitlement(r)
    /\ step' = step \/ \E r \in Requests, u \in Users, s \in Steps, b \in BOOLEAN :
         SaveOnboardingStep(r, u, s, b)
    /\ branding' = branding \/ \E r \in Requests : BrandingWrite(r)
    /\ snapshots' = snapshots \/ \E r \in Requests : BrandingSnapshot(r)
    /\ torn' = torn \/ \E r \in Requests : SignupAdmin(r) \/ SignupProfile(r)
    /\ lapped' = lapped \/ \E r \in Requests : OnboardingPercent(r)
         \/ \E u \in Users, s \in Steps, b \in BOOLEAN : SaveOnboardingStep(r, u, s, b)
    /\ college' = college \/ \E r \in Requests, c \in Colleges, e \in Users : Signup(r, c, e)
    /\ domain' = domain \/ \E r \in Requests, u \in Users : CreateDomain(r, u)
    /\ push' = push \/ \E r \in Requests, u \in Users : CreatePushToken(r, u)
    /\ ticket' = ticket \/ \E r \in Requests, u \in Users : CreateSupportTicket(r, u)
         \/ \E b \in BOOLEAN : ReplySupportTicket(r, u, b)
    /\ event' = event \/ \E r \in Requests : Webhook(r)

\* A table of SaasService is written by the actions Written names.
LEMMA TenancyWrites == TenancyNext => Written
<1>1. ASSUME NEW r \in Requests, NEW c \in Colleges, NEW e \in Users, Signup(r, c, e)
      PROVE  Written
  <2>1. UNCHANGED <<profile, subscribed, entitled, step, branding, snapshots, torn, lapped, domain, push, ticket, event>>
    BY <1>1 DEF Signup, accountRows, tenantRows
  <2> QED
    BY <1>1, <2>1 DEF Written
<1>2. ASSUME NEW r \in Requests, SignupAdmin(r)
      PROVE  Written
  <2>1. UNCHANGED <<profile, subscribed, entitled, step, branding, snapshots, lapped, college, domain, push, ticket, event>>
    BY <1>2 DEF SignupAdmin, accountRows, tenantRows
  <2> QED
    BY <1>2, <2>1 DEF Written
<1>3. ASSUME NEW r \in Requests, SignupProfile(r)
      PROVE  Written
  <2>1. UNCHANGED <<subscribed, entitled, step, branding, snapshots, lapped, college, domain, push, ticket, event>>
    BY <1>3 DEF SignupProfile, accountRows, tenantRows
  <2> QED
    BY <1>3, <2>1 DEF Written
<1>4. ASSUME NEW r \in Requests, NEW p \in Plans, SignupTrial(r, p)
      PROVE  Written
  <2>1. UNCHANGED <<profile, entitled, step, branding, snapshots, torn, lapped, college, domain, push, ticket, event>>
    BY <1>4 DEF SignupTrial, accountRows, tenantRows
  <2> QED
    BY <1>4, <2>1 DEF Written
<1>5. ASSUME NEW r \in Requests, OnboardingCount(r)
      PROVE  Written
  <2>1. UNCHANGED <<profile, subscribed, entitled, step, branding, snapshots, torn, lapped, college, domain, push, ticket, event>>
    BY <1>5 DEF OnboardingCount, accountRows, tenantRows
  <2> QED
    BY <1>5, <2>1 DEF Written
<1>6. ASSUME NEW r \in Requests, OnboardingPercent(r)
      PROVE  Written
  <2>1. UNCHANGED <<subscribed, entitled, step, branding, snapshots, torn, college, domain, push, ticket, event>>
    BY <1>6 DEF OnboardingPercent, accountRows, tenantRows
  <2> QED
    BY <1>6, <2>1 DEF Written
<1>7. ASSUME NEW r \in Requests, SyncEntitlement(r)
      PROVE  Written
  <2>1. UNCHANGED <<profile, subscribed, step, branding, snapshots, torn, lapped, college, domain, push, ticket, event>>
    BY <1>7 DEF SyncEntitlement, accountRows, tenantRows
  <2> QED
    BY <1>7, <2>1 DEF Written
<1>8. ASSUME NEW r \in Requests, BrandingSnapshot(r)
      PROVE  Written
  <2>1. UNCHANGED <<profile, subscribed, entitled, step, branding, torn, lapped, college, domain, push, ticket, event>>
    BY <1>8 DEF BrandingSnapshot, accountRows, tenantRows
  <2> QED
    BY <1>8, <2>1 DEF Written
<1>9. ASSUME NEW r \in Requests, BrandingWrite(r)
      PROVE  Written
  <2>1. UNCHANGED <<profile, subscribed, entitled, step, snapshots, torn, lapped, college, domain, push, ticket, event>>
    BY <1>9 DEF BrandingWrite, accountRows, tenantRows
  <2> QED
    BY <1>9, <2>1 DEF Written
<1>10. ASSUME NEW r \in Requests, Webhook(r)
      PROVE  Written
  <2>1. UNCHANGED <<profile, subscribed, entitled, step, branding, snapshots, torn, lapped, college, domain, push, ticket>>
    BY <1>10 DEF Webhook, accountRows, tenantRows
  <2> QED
    BY <1>10, <2>1 DEF Written
<1>11. ASSUME NEW r \in Requests, NEW u \in Users, NEW s \in Steps, NEW b \in BOOLEAN, SaveOnboardingStep(r, u, s, b)
      PROVE  Written
  <2>1. UNCHANGED <<profile, subscribed, entitled, branding, snapshots, torn, college, domain, push, ticket, event>>
    BY <1>11 DEF SaveOnboardingStep, accountRows, tenantRows
  <2> QED
    BY <1>11, <2>1 DEF Written
<1>12. ASSUME NEW r \in Requests, NEW u \in Users, NEW c \in Colleges, NEW y \in Lifecycle, SetLifecycle(r, u, c, y)
      PROVE  Written
  <2>1. UNCHANGED <<subscribed, entitled, step, branding, snapshots, torn, lapped, college, domain, push, ticket, event>>
    BY <1>12 DEF SetLifecycle, accountRows, tenantRows
  <2> QED
    BY <1>12, <2>1 DEF Written
<1>13. ASSUME NEW r \in Requests, NEW u \in Users, NEW c \in Colleges, NEW p \in Plans, PlatformChangePlan(r, u, c, p)
      PROVE  Written
  <2>1. UNCHANGED <<profile, entitled, step, branding, snapshots, torn, lapped, college, domain, push, ticket, event>>
    BY <1>13 DEF PlatformChangePlan, accountRows, tenantRows
  <2> QED
    BY <1>13, <2>1 DEF Written
<1>14. ASSUME NEW r \in Requests, NEW u \in Users, UpdateBranding(r, u)
      PROVE  Written
  <2>1. UNCHANGED <<profile, subscribed, entitled, step, branding, snapshots, torn, lapped, college, domain, push, ticket, event>>
    BY <1>14 DEF UpdateBranding, accountRows, tenantRows
  <2> QED
    BY <1>14, <2>1 DEF Written
<1>15. ASSUME NEW r \in Requests, NEW u \in Users, CreateDomain(r, u)
      PROVE  Written
  <2>1. UNCHANGED <<profile, subscribed, entitled, step, branding, snapshots, torn, lapped, college, push, ticket, event>>
    BY <1>15 DEF CreateDomain, accountRows, tenantRows
  <2> QED
    BY <1>15, <2>1 DEF Written
<1>16. ASSUME NEW r \in Requests, NEW u \in Users, CreateSupportTicket(r, u)
      PROVE  Written
  <2>1. UNCHANGED <<profile, subscribed, entitled, step, branding, snapshots, torn, lapped, college, domain, push, event>>
    BY <1>16 DEF CreateSupportTicket, accountRows, tenantRows
  <2> QED
    BY <1>16, <2>1 DEF Written
<1>17. ASSUME NEW r \in Requests, NEW u \in Users, NEW b \in BOOLEAN, ReplySupportTicket(r, u, b)
      PROVE  Written
  <2>1. UNCHANGED <<profile, subscribed, entitled, step, branding, snapshots, torn, lapped, college, domain, push, event>>
    BY <1>17 DEF ReplySupportTicket, accountRows, tenantRows
  <2> QED
    BY <1>17, <2>1 DEF Written
<1>18. ASSUME NEW r \in Requests, NEW u \in Users, CreatePushToken(r, u)
      PROVE  Written
  <2>1. UNCHANGED <<profile, subscribed, entitled, step, branding, snapshots, torn, lapped, college, domain, ticket, event>>
    BY <1>18 DEF CreatePushToken, accountRows, tenantRows
  <2> QED
    BY <1>18, <2>1 DEF Written
<1> SUFFICES ASSUME TenancyNext PROVE Written
  OBVIOUS
<1> QED
  BY <1>1, <1>2, <1>3, <1>4, <1>5, <1>6, <1>7, <1>8, <1>9, <1>10, <1>11, <1>12, <1>13, <1>14, <1>15, <1>16, <1>17, <1>18 DEF TenancyNext

-----------------------------------------------------------------------------
(* Which handler goes on. *)

\* The handler of the slot takes its next step.
Own(r) ==
    \/ LoginExpire(r) \/ LoginLookup(r) \/ LoginCreate(r) \/ RefreshCreate(r) \/ RefreshMark(r)
    \/ IssueReset(r) \/ ResetWrite(r) \/ CollegeWrite(r) \/ ImportWrite(r) \/ BulkUpdateNext(r)
    \/ SignupAdmin(r) \/ SignupProfile(r) \/ \E p \in Plans : SignupTrial(r, p)
    \/ OnboardingCount(r) \/ OnboardingPercent(r) \/ SyncEntitlement(r)
    \/ BrandingSnapshot(r) \/ BrandingWrite(r)
    \/ WriteCollegeSettings(r) \/ WriteNotificationRead(r) \/ Record(r)

\* At most one slot changes, one that was free or whose handler went on.
Slots ==
    /\ req' = [r \in Requests |-> req'[r]]
    /\ \A r \in Requests : req'[r] = req[r] \/ req[r] = NoReq \/ Own(r)
    /\ \A r, x \in Requests : req'[r] # req[r] /\ req'[x] # req[x] => r = x

\* A step moves one handler, unless it is a restart.
LEMMA SlotsMove == PlatformInv /\ [PlatformNext]_panelVars => PanelCrash \/ Slots
<1> SUFFICES ASSUME PlatformInv, [PlatformNext]_panelVars PROVE PanelCrash \/ Slots
  OBVIOUS
<1>1. req = [r \in Requests |-> req[r]]
  BY DEF PlatformInv, HandlersFormed
<1>2. ASSUME req' = req PROVE Slots
  BY <1>1, <1>2 DEF Slots
<1>3. ASSUME NEW r \in Requests, req[r] = NoReq \/ Own(r), NEW x, req' = [req EXCEPT ![r] = x]
      PROVE  Slots
  BY <1>1, <1>3 DEF Slots
<1>4. ASSUME NEW r \in Requests, NEW u, Login(r, u)
      PROVE  Slots
  <2>1. req' = req \/ (req[r] = NoReq /\ \E x : req' = [req EXCEPT ![r] = x])
    BY <1>4 DEF Login, Begin, LocalLimit, Step, Done
  <2> QED
    BY <1>2, <1>3, <2>1
<1>5. ASSUME NEW r \in Requests, LoginExpire(r)
      PROVE  Slots
  <2>1. \E x : req' = [req EXCEPT ![r] = x]
    BY <1>1, <1>5 DEF LoginExpire, LocalLimit, Step, Done
  <2>2. Own(r)
    BY <1>5 DEF Own
  <2> QED
    BY <1>3, <2>1, <2>2
<1>6. ASSUME NEW r \in Requests, LoginLookup(r)
      PROVE  Slots
  <2>1. \E x : req' = [req EXCEPT ![r] = x]
    BY <1>1, <1>6 DEF LoginLookup, Step, Done
  <2>2. Own(r)
    BY <1>6 DEF Own
  <2> QED
    BY <1>3, <2>1, <2>2
<1>7. ASSUME NEW r \in Requests, LoginCreate(r)
      PROVE  Slots
  <2>1. \E x : req' = [req EXCEPT ![r] = x]
    BY <1>1, <1>7 DEF LoginCreate, Done
  <2>2. Own(r)
    BY <1>7 DEF Own
  <2> QED
    BY <1>3, <2>1, <2>2
<1>8. ASSUME NEW r \in Requests, NEW s, Refresh(r, s)
      PROVE  Slots
  <2>1. req' = req \/ (req[r] = NoReq /\ \E x : req' = [req EXCEPT ![r] = x])
    BY <1>8 DEF Refresh, Begin
  <2> QED
    BY <1>2, <1>3, <2>1
<1>9. ASSUME NEW r \in Requests, RefreshCreate(r)
      PROVE  Slots
  <2>1. \E x : req' = [req EXCEPT ![r] = x]
    BY <1>1, <1>9 DEF RefreshCreate
  <2>2. Own(r)
    BY <1>9 DEF Own
  <2> QED
    BY <1>3, <2>1, <2>2
<1>10. ASSUME NEW r \in Requests, RefreshMark(r)
      PROVE  Slots
  <2>1. \E x : req' = [req EXCEPT ![r] = x]
    BY <1>1, <1>10 DEF RefreshMark, Done
  <2>2. Own(r)
    BY <1>10 DEF Own
  <2> QED
    BY <1>3, <2>1, <2>2
<1>11. ASSUME NEW r \in Requests, NEW u, RequestPasswordReset(r, u)
      PROVE  Slots
  <2>1. req' = req \/ (req[r] = NoReq /\ \E x : req' = [req EXCEPT ![r] = x])
    BY <1>11 DEF RequestPasswordReset, Begin, Step
  <2> QED
    BY <1>2, <1>3, <2>1
<1>12. ASSUME NEW r \in Requests, IssueReset(r)
      PROVE  Slots
  <2>1. \E x : req' = [req EXCEPT ![r] = x]
    BY <1>1, <1>12 DEF IssueReset, Done
  <2>2. Own(r)
    BY <1>12 DEF Own
  <2> QED
    BY <1>3, <2>1, <2>2
<1>13. ASSUME NEW r \in Requests, NEW t, ResetPassword(r, t)
      PROVE  Slots
  <2>1. req' = req \/ (req[r] = NoReq /\ \E x : req' = [req EXCEPT ![r] = x])
    BY <1>13 DEF ResetPassword, Begin
  <2> QED
    BY <1>2, <1>3, <2>1
<1>14. ASSUME NEW r \in Requests, ResetWrite(r)
      PROVE  Slots
  <2>1. \E x : req' = [req EXCEPT ![r] = x]
    BY <1>1, <1>14 DEF ResetWrite, Done
  <2>2. Own(r)
    BY <1>14 DEF Own
  <2> QED
    BY <1>3, <2>1, <2>2
<1>15. ASSUME NEW r \in Requests, NEW u, NEW c, NEW op, ChangeCollege(r, u, c, op)
      PROVE  Slots
  <2>1. req' = req \/ (req[r] = NoReq /\ \E x : req' = [req EXCEPT ![r] = x])
    BY <1>15 DEF ChangeCollege, Call, Begin
  <2> QED
    BY <1>2, <1>3, <2>1
<1>16. ASSUME NEW r \in Requests, CollegeWrite(r)
      PROVE  Slots
  <2>1. \E x : req' = [req EXCEPT ![r] = x]
    BY <1>1, <1>16 DEF CollegeWrite, Done
  <2>2. Own(r)
    BY <1>16 DEF Own
  <2> QED
    BY <1>3, <2>1, <2>2
<1>17. ASSUME NEW r \in Requests, NEW u, NEW c, NEW E, NEW l, BulkCreateStudents(r, u, c, E, l)
      PROVE  Slots
  <2>1. req' = req \/ (req[r] = NoReq /\ \E x : req' = [req EXCEPT ![r] = x])
    BY <1>17 DEF BulkCreateStudents, Call, Begin
  <2> QED
    BY <1>2, <1>3, <2>1
<1>18. ASSUME NEW r \in Requests, ImportWrite(r)
      PROVE  Slots
  <2>1. \E x : req' = [req EXCEPT ![r] = x]
    BY <1>1, <1>18 DEF ImportWrite, Done
  <2>2. Own(r)
    BY <1>18 DEF Own
  <2> QED
    BY <1>3, <2>1, <2>2
<1>19. ASSUME NEW r \in Requests, NEW u, NEW E, BulkUpdateStudents(r, u, E)
      PROVE  Slots
  <2>1. req' = req \/ (req[r] = NoReq /\ \E x : req' = [req EXCEPT ![r] = x])
    BY <1>19 DEF BulkUpdateStudents, Call, Begin
  <2> QED
    BY <1>2, <1>3, <2>1
<1>20. ASSUME NEW r \in Requests, BulkUpdateNext(r)
      PROVE  Slots
  <2>1. \E x : req' = [req EXCEPT ![r] = x]
    BY <1>1, <1>20 DEF BulkUpdateNext
  <2>2. Own(r)
    BY <1>20 DEF Own
  <2> QED
    BY <1>3, <2>1, <2>2
<1>21. ASSUME NEW r \in Requests, NEW c, NEW e, Signup(r, c, e)
      PROVE  Slots
  <2>1. req' = req \/ (req[r] = NoReq /\ \E x : req' = [req EXCEPT ![r] = x])
    BY <1>21 DEF Signup, Begin, Go
  <2> QED
    BY <1>2, <1>3, <2>1
<1>22. ASSUME NEW r \in Requests, SignupAdmin(r)
      PROVE  Slots
  <2>1. \E x : req' = [req EXCEPT ![r] = x]
    BY <1>1, <1>22 DEF SignupAdmin, Done
  <2>2. Own(r)
    BY <1>22 DEF Own
  <2> QED
    BY <1>3, <2>1, <2>2
<1>23. ASSUME NEW r \in Requests, SignupProfile(r)
      PROVE  Slots
  <2>1. \E x : req' = [req EXCEPT ![r] = x]
    BY <1>1, <1>23 DEF SignupProfile, Done
  <2>2. Own(r)
    BY <1>23 DEF Own
  <2> QED
    BY <1>3, <2>1, <2>2
<1>24. ASSUME NEW r \in Requests, NEW p \in Plans, SignupTrial(r, p)
      PROVE  Slots
  <2>1. \E x : req' = [req EXCEPT ![r] = x]
    BY <1>1, <1>24 DEF SignupTrial, Done
  <2>2. Own(r)
    BY <1>24 DEF Own
  <2> QED
    BY <1>3, <2>1, <2>2
<1>25. ASSUME NEW r \in Requests, NEW u, NEW s, NEW b, SaveOnboardingStep(r, u, s, b)
      PROVE  Slots
  <2>1. req' = req \/ (req[r] = NoReq /\ \E x : req' = [req EXCEPT ![r] = x])
    BY <1>25 DEF SaveOnboardingStep, TenantCall, Call, Begin, Go
  <2> QED
    BY <1>2, <1>3, <2>1
<1>26. ASSUME NEW r \in Requests, OnboardingCount(r)
      PROVE  Slots
  <2>1. \E x : req' = [req EXCEPT ![r] = x]
    BY <1>1, <1>26 DEF OnboardingCount
  <2>2. Own(r)
    BY <1>26 DEF Own
  <2> QED
    BY <1>3, <2>1, <2>2
<1>27. ASSUME NEW r \in Requests, OnboardingPercent(r)
      PROVE  Slots
  <2>1. \E x : req' = [req EXCEPT ![r] = x]
    BY <1>1, <1>27 DEF OnboardingPercent, Done
  <2>2. Own(r)
    BY <1>27 DEF Own
  <2> QED
    BY <1>3, <2>1, <2>2
<1>28. ASSUME NEW r \in Requests, NEW u, NEW c, NEW p, PlatformChangePlan(r, u, c, p)
      PROVE  Slots
  <2>1. req' = req \/ (req[r] = NoReq /\ \E x : req' = [req EXCEPT ![r] = x])
    BY <1>28 DEF PlatformChangePlan, Call, Begin
  <2> QED
    BY <1>2, <1>3, <2>1
<1>29. ASSUME NEW r \in Requests, SyncEntitlement(r)
      PROVE  Slots
  <2>1. \E x : req' = [req EXCEPT ![r] = x]
    BY <1>1, <1>29 DEF SyncEntitlement, Done
  <2>2. Own(r)
    BY <1>29 DEF Own
  <2> QED
    BY <1>3, <2>1, <2>2
<1>30. ASSUME NEW r \in Requests, NEW u, UpdateBranding(r, u)
      PROVE  Slots
  <2>1. req' = req \/ (req[r] = NoReq /\ \E x : req' = [req EXCEPT ![r] = x])
    BY <1>30 DEF UpdateBranding, TenantCall, Call, Begin
  <2> QED
    BY <1>2, <1>3, <2>1
<1>31. ASSUME NEW r \in Requests, BrandingSnapshot(r)
      PROVE  Slots
  <2>1. \E x : req' = [req EXCEPT ![r] = x]
    BY <1>1, <1>31 DEF BrandingSnapshot, Done
  <2>2. Own(r)
    BY <1>31 DEF Own
  <2> QED
    BY <1>3, <2>1, <2>2
<1>32. ASSUME NEW r \in Requests, BrandingWrite(r)
      PROVE  Slots
  <2>1. \E x : req' = [req EXCEPT ![r] = x]
    BY <1>1, <1>32 DEF BrandingWrite, Done
  <2>2. Own(r)
    BY <1>32 DEF Own
  <2> QED
    BY <1>3, <2>1, <2>2
<1>33. ASSUME NEW r \in Requests, NEW u, NEW a, NEW g, UpdateCollegeSettings(r, u, a, g)
      PROVE  Slots
  <2>1. req' = req \/ (req[r] = NoReq /\ \E x : req' = [req EXCEPT ![r] = x])
    BY <1>33 DEF UpdateCollegeSettings, Call, Begin
  <2> QED
    BY <1>2, <1>3, <2>1
<1>34. ASSUME NEW r \in Requests, WriteCollegeSettings(r)
      PROVE  Slots
  <2>1. \E x : req' = [req EXCEPT ![r] = x]
    BY <1>1, <1>34 DEF WriteCollegeSettings, Done, Change
  <2>2. Own(r)
    BY <1>34 DEF Own
  <2> QED
    BY <1>3, <2>1, <2>2
<1>35. ASSUME NEW r \in Requests, NEW u, NEW ch, UpdateProfile(r, u, ch)
      PROVE  Slots
  <2>1. req' = req \/ (req[r] = NoReq /\ \E x : req' = [req EXCEPT ![r] = x])
    BY <1>35 DEF UpdateProfile, Call, Begin, Change
  <2> QED
    BY <1>2, <1>3, <2>1
<1>36. ASSUME NEW r \in Requests, NEW u, NEW k, MarkNotificationRead(r, u, k)
      PROVE  Slots
  <2>1. req' = req \/ (req[r] = NoReq /\ \E x : req' = [req EXCEPT ![r] = x])
    BY <1>36 DEF MarkNotificationRead, Call, Begin
  <2> QED
    BY <1>2, <1>3, <2>1
<1>37. ASSUME NEW r \in Requests, WriteNotificationRead(r)
      PROVE  Slots
  <2>1. \E x : req' = [req EXCEPT ![r] = x]
    BY <1>1, <1>37 DEF WriteNotificationRead, Change
  <2>2. Own(r)
    BY <1>37 DEF Own
  <2> QED
    BY <1>3, <2>1, <2>2
<1>38. ASSUME NEW r \in Requests, NEW u, NEW t, NEW g, UpsertPermission(r, u, t, g)
      PROVE  Slots
  <2>1. req' = req \/ (req[r] = NoReq /\ \E x : req' = [req EXCEPT ![r] = x])
    BY <1>38 DEF UpsertPermission, Call, Begin, Change
  <2> QED
    BY <1>2, <1>3, <2>1
<1>39. ASSUME NEW r \in Requests, Record(r)
      PROVE  Slots
  <2>1. \E x : req' = [req EXCEPT ![r] = x]
    BY <1>1, <1>39 DEF Record, Done
  <2>2. Own(r)
    BY <1>39 DEF Own
  <2> QED
    BY <1>3, <2>1, <2>2
<1>40. ASSUME AuthNext PROVE Slots
  <2>1. ASSUME NEW r, NEW u, NEW s, NEW b,
               Logout(r, u, s) \/ SessionExpires(s) \/ AccessExpires(u) \/ WindowEnds(u) \/ UpdateMaintenance(u, b)
        PROVE  req' = req
    BY <2>1 DEF Logout, SessionExpires, AccessExpires, WindowEnds, UpdateMaintenance
  <2> QED
    BY <1>2, <1>4, <1>5, <1>6, <1>7, <1>8, <1>9, <1>10, <1>11, <1>12, <1>13, <1>14, <1>40, <2>1 DEF AuthNext
<1>41. ASSUME CollegesNext PROVE Slots
  <2>1. ASSUME NEW r, NEW u, NEW c, NEW e, NEW s,
               CreateCollege(r, u, c, e, s)
        PROVE  req' = req
    BY <2>1 DEF CreateCollege
  <2> QED
    BY <1>2, <1>15, <1>16, <1>41, <2>1 DEF CollegesNext
<1>42. ASSUME EnrolNext PROVE Slots
  <2>1. ASSUME NEW r, NEW u, NEW c, NEW e, NEW l, NEW o, NEW s,
               CreatePerson(r, u, c, e, l, o, s)
        PROVE  req' = req
    BY <2>1 DEF CreatePerson
  <2> QED
    BY <1>2, <1>17, <1>18, <1>19, <1>20, <1>42, <2>1 DEF EnrolNext
<1>43. ASSUME TenancyNext PROVE Slots
  <2>1. ASSUME NEW r, NEW u, NEW c, NEW y, NEW b,
               Webhook(r) \/ SetLifecycle(r, u, c, y) \/ CreateDomain(r, u) \/ CreateSupportTicket(r, u)
               \/ ReplySupportTicket(r, u, b) \/ CreatePushToken(r, u)
        PROVE  req' = req
    BY <2>1 DEF Webhook, SetLifecycle, CreateDomain, CreateSupportTicket, ReplySupportTicket, CreatePushToken
  <2> QED
    BY <1>2, <1>21, <1>22, <1>23, <1>24, <1>25, <1>26, <1>27, <1>28, <1>29, <1>30, <1>31, <1>32, <1>43, <2>1 DEF TenancyNext
<1>44. ASSUME PanelNext PROVE Slots
  <2>1. ASSUME NEW r, NEW u, NEW a,
               ReadCollegeSettings(r, u, a)
        PROVE  req' = req
    BY <2>1 DEF ReadCollegeSettings
  <2> QED
    BY <1>2, <1>33, <1>34, <1>35, <1>36, <1>37, <1>38, <1>39, <1>44, <2>1 DEF PanelNext
<1>45. StructureNext \/ PersonNext \/ UNCHANGED panelVars => req' = req
  BY StructureLeaves, PersonLeaves DEF panelVars, tenantVars, enrolVars, accountVars
<1> HIDE DEF Slots
<1> QED
  BY <1>2, <1>40, <1>41, <1>42, <1>43, <1>44, <1>45 DEF PlatformNext

\* A handler goes on only by its own action.
LEMMA GoesOn ==
  ASSUME PlatformInv, [PlatformNext]_panelVars, ~PanelCrash, NEW r \in Requests, req'[r] # req[r]
  PROVE  /\ req[r].op = "expire" => LoginExpire(r)
         /\ req[r].op = "mark" => RefreshMark(r)
         /\ req[r].op = "profile" => SignupProfile(r)
         /\ req[r].op = "trial" => \E p \in Plans : SignupTrial(r, p)
         /\ req[r].op = "count" => OnboardingCount(r)
         /\ req[r].op = "percent" => OnboardingPercent(r)
         /\ req[r].op = "record" => Record(r)
<1>1. req[r] = NoReq \/ Own(r)
  BY SlotsMove DEF Slots
<1>2. NoReq.op = "idle"
  BY NoReqFields
<1>3. /\ LoginExpire(r) => req[r].op = "expire"
      /\ LoginLookup(r) => req[r].op = "lookup"
      /\ LoginCreate(r) => req[r].op = "create"
      /\ RefreshCreate(r) => req[r].op = "refresh"
      /\ RefreshMark(r) => req[r].op = "mark"
      /\ IssueReset(r) => req[r].op = "issue"
      /\ ResetWrite(r) => req[r].op = "reset"
  BY DEF LoginExpire, LoginLookup, LoginCreate, RefreshCreate, RefreshMark, IssueReset, ResetWrite
<1>4. /\ CollegeWrite(r) => req[r].op \in {"ACTIVE", "INACTIVE", "archive"}
      /\ ImportWrite(r) => req[r].op = "import"
      /\ BulkUpdateNext(r) => req[r].op = "update"
      /\ SignupAdmin(r) => req[r].op = "admin"
      /\ SignupProfile(r) => req[r].op = "profile"
      /\ \A p : SignupTrial(r, p) => req[r].op = "trial"
  BY DEF CollegeWrite, ImportWrite, BulkUpdateNext, SignupAdmin, SignupProfile, SignupTrial
<1>5. /\ OnboardingCount(r) => req[r].op = "count"
      /\ OnboardingPercent(r) => req[r].op = "percent"
      /\ SyncEntitlement(r) => req[r].op = "sync"
      /\ BrandingSnapshot(r) => req[r].op = "snapshot"
      /\ BrandingWrite(r) => req[r].op = "brand"
  BY DEF OnboardingCount, OnboardingPercent, SyncEntitlement, BrandingSnapshot, BrandingWrite
<1>6. /\ WriteCollegeSettings(r) => req[r].op = "settings"
      /\ WriteNotificationRead(r) => req[r].op = "mark-read"
      /\ Record(r) => req[r].op = "record"
  BY DEF WriteCollegeSettings, WriteNotificationRead, Record
<1> QED
  BY <1>1, <1>2, <1>3, <1>4, <1>5, <1>6 DEF Own

\* A save of onboarding under way is still under way, has written its
\* percentage, or was cut off.
LEMMA FlightKept ==
  ASSUME PlatformInv, [PlatformNext]_panelVars, NEW c \in Colleges,
         InFlight(c, {"count", "percent"})
  PROVE  \/ InFlight(c, {"count", "percent"})'
         \/ c \in lapped'
         \/ \E r \in Requests : OnboardingPercent(r) /\ req[r].op = "percent" /\ req[r].college = c
<1>1. PICK r \in Requests : req[r].op \in {"count", "percent"} /\ req[r].college = c
  BY DEF InFlight
<1>2. CASE PanelCrash
  BY <1>1, <1>2 DEF PanelCrash, Crash
<1>3. CASE req'[r] = req[r]
  BY <1>1, <1>3 DEF InFlight
<1>4. CASE ~PanelCrash /\ req'[r] # req[r] /\ req[r].op = "count"
  <2>1. req' = [req EXCEPT ![r].op = "percent", ![r].n = Cardinality(step[req[r].college])]
    BY <1>4, GoesOn DEF OnboardingCount
  <2>2. req = [x \in Requests |-> req[x]] /\ Handler(req[r])
    BY DEF PlatformInv, HandlersFormed
  <2>3. req'[r].op = "percent" /\ req'[r].college = c
    BY <1>1, <2>1, <2>2 DEF Handler
  <2> QED
    BY <2>3 DEF InFlight
<1>5. CASE ~PanelCrash /\ req'[r] # req[r] /\ req[r].op = "percent"
  BY <1>1, <1>5, GoesOn
<1> QED
  BY <1>1, <1>2, <1>3, <1>4, <1>5

\* A signup under way is still under way, has got the profile or the
\* subscription it was at, or did not finish.
LEMMA SignupKept ==
  ASSUME PlatformInv, [PlatformNext]_panelVars, NEW c \in Colleges,
         InFlight(c, {"profile", "trial"})
  PROVE  \/ InFlight(c, {"profile", "trial"})'
         \/ c \in torn'
         \/ profile'[c].status # "NONE" /\ subscribed'[c] # {}
<1>1. PICK r \in Requests : req[r].op \in {"profile", "trial"} /\ req[r].college = c
  BY DEF InFlight
<1>2. CASE PanelCrash
  BY <1>1, <1>2 DEF PanelCrash, Crash
<1>3. CASE req'[r] = req[r]
  BY <1>1, <1>3 DEF InFlight
<1>4. CASE ~PanelCrash /\ req'[r] # req[r] /\ req[r].op = "profile"
  <2>1. \/ torn' = torn \cup {req[r].college}
        \/ req' = [req EXCEPT ![r].op = "trial"]
    BY <1>4, GoesOn DEF SignupProfile
  <2>2. req = [x \in Requests |-> req[x]] /\ Handler(req[r])
    BY DEF PlatformInv, HandlersFormed
  <2>3. req' = [req EXCEPT ![r].op = "trial"] => req'[r].op = "trial" /\ req'[r].college = c
    BY <1>1, <2>2 DEF Handler
  <2> QED
    BY <1>1, <2>1, <2>3 DEF InFlight
<1>5. CASE ~PanelCrash /\ req'[r] # req[r] /\ req[r].op = "trial"
  <2>1. PICK p \in Plans : subscribed' = [subscribed EXCEPT ![c] = @ \cup {p}] /\ profile' = profile
    BY <1>1, <1>5, GoesOn DEF SignupTrial
  <2>2. subscribed \in [Colleges -> SUBSET Plans]
    BY DEF PlatformInv, AccTypeOK, TenancyTypeOK
  <2>3. p \in subscribed'[c]
    BY <2>1, <2>2
  <2>4. profile[c].status # "NONE"
    BY <1>1, <1>5 DEF PlatformInv, HandlersGood, TenantGood
  <2> QED
    BY <2>1, <2>3, <2>4
<1> QED
  BY <1>1, <1>2, <1>3, <1>4, <1>5

\* Only SaasService writes the rows of tenants.
LEMMA TenantRowsMove ==
  [PlatformNext]_panelVars =>
    \/ UNCHANGED tenantRows
    \/ TenancyNext
    \/ PanelCrash /\ UNCHANGED <<profile, subscribed, entitled, step, branding, snapshots, domain, push, ticket, event>>
<1>1. PanelCrash => UNCHANGED <<profile, subscribed, entitled, step, branding, snapshots, domain, push, ticket, event>>
  BY CrashLeaves
<1>2. PanelNext => UNCHANGED tenantRows
  BY PanelLeaves DEF serviceRows
<1>3. UNCHANGED panelVars => UNCHANGED tenantRows
  BY DEF panelVars, tenantVars
<1> QED
  BY <1>1, <1>2, <1>3 DEF PlatformNext

\* A tenant stays subscribed.
LEMMA SubscribedStep ==
  PlatformInv /\ [PlatformNext]_panelVars =>
    subscribed' \in [Colleges -> SUBSET Plans] /\ \A c \in Colleges : subscribed[c] \subseteq subscribed'[c]
<1> DEFINE Good == subscribed' \in [Colleges -> SUBSET Plans] /\ \A c \in Colleges : subscribed[c] \subseteq subscribed'[c]
<1> SUFFICES ASSUME PlatformInv, [PlatformNext]_panelVars PROVE Good
  OBVIOUS
<1>1. subscribed \in [Colleges -> SUBSET Plans]
  BY DEF PlatformInv, AccTypeOK, TenancyTypeOK
<1>2. ASSUME subscribed' = subscribed PROVE Good
  BY <1>1, <1>2
<1>3. ASSUME NEW d, NEW p \in Plans, subscribed' = [subscribed EXCEPT ![d] = @ \cup {p}] PROVE Good
  BY <1>1, <1>3
<1>4. ASSUME NEW r \in Requests, NEW p \in Plans, SignupTrial(r, p) PROVE Good
  BY <1>3, <1>4 DEF SignupTrial
<1>5. ASSUME NEW r, NEW u, NEW c, NEW p \in Plans, PlatformChangePlan(r, u, c, p) PROVE Good
  BY <1>3, <1>5 DEF PlatformChangePlan
<1> HIDE DEF Good
<1>6. ASSUME TenancyNext PROVE Good
  BY <1>2, <1>4, <1>5, <1>6, TenancyWrites DEF Written
<1> QED
  BY <1>2, <1>6, TenantRowsMove DEF tenantRows

ProfileRow == [status : Lifecycle \cup {"NONE"}, percent : Nat]

\* The share of the steps is written by the save that counted them.
Shared(c) ==
    \/ profile'[c].percent = profile[c].percent
    \/ profile[c].status = "NONE"
    \/ \E r \in Requests : req[r].op = "percent" /\ req[r].college = c
         /\ profile'[c].percent = req[r].n /\ step' = step

\* A tenant keeps its profile.
LEMMA ProfileStep ==
  PlatformInv /\ [PlatformNext]_panelVars =>
    /\ profile' \in [Colleges -> ProfileRow]
    /\ \A c \in Colleges : (profile[c].status # "NONE" => profile'[c].status # "NONE") /\ Shared(c)
<1> DEFINE Good == /\ profile' \in [Colleges -> ProfileRow]
                   /\ \A c \in Colleges : (profile[c].status # "NONE" => profile'[c].status # "NONE") /\ Shared(c)
<1> SUFFICES ASSUME PlatformInv, [PlatformNext]_panelVars PROVE Good
  OBVIOUS
<1>1. profile \in [Colleges -> ProfileRow]
  BY DEF PlatformInv, AccTypeOK, TenancyTypeOK, ProfileRow
<1>2. ASSUME profile' = profile PROVE Good
  BY <1>1, <1>2 DEF Shared
<1>3. ASSUME NEW c \in Colleges, NEW x \in ProfileRow, profile' = [profile EXCEPT ![c] = x],
             profile[c].status # "NONE" => x.status # "NONE", profile'[c] = x => Shared(c)
      PROVE  Good
  <2>1. profile' \in [Colleges -> ProfileRow] /\ profile'[c] = x
        /\ \A d \in Colleges : d # c => profile'[d] = profile[d]
    BY <1>1, <1>3
  <2> QED
    BY <1>3, <2>1 DEF Shared
<1>4. ASSUME NEW r \in Requests, SignupProfile(r) PROVE Good
  <2> DEFINE c == req[r].college
             x == [status |-> "TRIAL", percent |-> 1]
  <2>1. /\ req[r].op = "profile"
        /\ profile' = profile \/ (profile[c].status = "NONE" /\ profile' = [profile EXCEPT ![c] = x])
    BY <1>4 DEF SignupProfile
  <2>2. c \in Colleges /\ x \in ProfileRow
    BY <2>1 DEF PlatformInv, HandlersGood, TenantGood, ProfileRow, Lifecycle
  <2> HIDE DEF c, x
  <2> QED
    BY <1>2, <1>3, <2>1, <2>2 DEF Shared
<1>5. ASSUME NEW r \in Requests, OnboardingPercent(r) PROVE Good
  <2> DEFINE c == req[r].college
             n == req[r].n
             x == [profile[c] EXCEPT !.percent = n]
  <2>1. /\ req[r].op = "percent" /\ step' = step
        /\ profile' = profile \/ profile' = [profile EXCEPT ![c].percent = n]
    BY <1>5 DEF OnboardingPercent
  <2>2. c \in Colleges /\ n \in Nat
    BY <2>1 DEF PlatformInv, HandlersGood, TenantGood
  <2>3. req[r].college = c /\ req[r].n = n
    OBVIOUS
  <2> HIDE DEF c, n
  <2>4. x \in ProfileRow /\ x.status = profile[c].status /\ x.percent = n
    BY <1>1, <2>2 DEF ProfileRow
  <2>5. profile' = profile \/ profile' = [profile EXCEPT ![c] = x]
    BY <2>1
  <2> HIDE DEF x
  <2>6. profile'[c] = x => Shared(c)
    BY <2>1, <2>3, <2>4 DEF Shared
  <2> QED
    BY <1>2, <1>3, <2>2, <2>4, <2>5, <2>6
<1>6. ASSUME NEW r, NEW u, NEW c \in Colleges, NEW y \in Lifecycle, SetLifecycle(r, u, c, y) PROVE Good
  <2> DEFINE x == [profile[c] EXCEPT !.status = y]
  <2>1. profile' = [profile EXCEPT ![c] = x]
    BY <1>6 DEF SetLifecycle
  <2>2. x \in ProfileRow /\ x.status # "NONE" /\ x.percent = profile[c].percent
    BY <1>1 DEF ProfileRow, Lifecycle
  <2> HIDE DEF x
  <2> QED
    BY <1>3, <2>1, <2>2 DEF Shared
<1> HIDE DEF Good
<1>7. ASSUME TenancyNext PROVE Good
  BY <1>2, <1>4, <1>5, <1>6, <1>7, TenancyWrites DEF Written
<1> QED
  BY <1>2, <1>7, TenantRowsMove DEF tenantRows

\* A save of onboarding changes the steps and is then under way; one that
\* another was under way for is recorded.
LEMMA StepStep ==
  PlatformInv /\ [PlatformNext]_panelVars =>
    /\ step' \in [Colleges -> SUBSET Steps] /\ lapped' \in SUBSET Colleges /\ lapped \subseteq lapped'
    /\ \A c \in Colleges : step'[c] # step[c] =>
         /\ InFlight(c, {"count", "percent"})'
         /\ InFlight(c, {"count", "percent"}) => c \in lapped'
    /\ \A r \in Requests : OnboardingPercent(r) =>
         (profile'[req[r].college].status = "NONE" => req[r].college \in lapped')
<1> DEFINE Good == /\ step' \in [Colleges -> SUBSET Steps] /\ lapped' \in SUBSET Colleges /\ lapped \subseteq lapped'
                   /\ \A c \in Colleges : step'[c] # step[c] =>
                        /\ InFlight(c, {"count", "percent"})'
                        /\ InFlight(c, {"count", "percent"}) => c \in lapped'
<1>0. ASSUME PlatformInv, NEW r \in Requests, OnboardingPercent(r)
      PROVE  profile'[req[r].college].status = "NONE" => req[r].college \in lapped'
  <2>1. req[r].op = "percent" /\ (profile' = [profile EXCEPT ![req[r].college].percent = req[r].n]
          \/ req[r].college \in lapped')
        /\ (profile[req[r].college].status = "NONE" => req[r].college \in lapped')
    BY <1>0 DEF OnboardingPercent
  <2>2. req[r].college \in Colleges /\ profile \in [Colleges -> ProfileRow]
    BY <1>0, <2>1 DEF PlatformInv, HandlersGood, TenantGood, AccTypeOK, TenancyTypeOK, ProfileRow
  <2> QED
    BY <2>1, <2>2 DEF ProfileRow
<1> SUFFICES ASSUME PlatformInv, [PlatformNext]_panelVars PROVE Good
  BY <1>0
<1>1. step \in [Colleges -> SUBSET Steps] /\ lapped \subseteq Colleges
  BY DEF PlatformInv, AccTypeOK, TenancyTypeOK
<1>2. ASSUME step' = step, lapped' = lapped PROVE Good
  BY <1>1, <1>2
<1>3. ASSUME NEW r \in Requests, OnboardingPercent(r) PROVE Good
  <2>1. req[r].op = "percent" /\ step' = step /\ lapped' \in {lapped, lapped \cup {req[r].college}}
    BY <1>3 DEF OnboardingPercent
  <2>2. req[r].college \in Colleges
    BY <2>1 DEF PlatformInv, HandlersGood, TenantGood
  <2> QED
    BY <1>1, <2>1, <2>2
<1>4. ASSUME NEW r \in Requests, NEW u \in Users, NEW s \in Steps, NEW b \in BOOLEAN,
             SaveOnboardingStep(r, u, s, b)
      PROVE  Good
  <2> DEFINE c == user[u].college
             t == IF b THEN step[c] \cup {s} ELSE step[c] \ {s}
             x == [NoReq EXCEPT !.op = "count", !.college = c, !.data = s]
  <2>1. /\ c # None /\ step' = [step EXCEPT ![c] = t]
        /\ req' = [req EXCEPT ![r] = x]
        /\ lapped' = IF InFlight(c, {"count", "percent"}) THEN lapped \cup {c} ELSE lapped
    BY <1>4 DEF SaveOnboardingStep, TenantCall, Go
  <2>2. c \in Colleges
    BY <2>1 DEF PlatformInv, AccTypeOK, AccountsTypeOK
  <2>3. t \subseteq Steps
    BY <1>1, <2>2
  <2>4. x.op = "count" /\ x.college = c
    BY NoReqFields DEF Handler
  <2> HIDE DEF x, t, c
  <2>5. req'[r] = x
    BY <2>1 DEF PlatformInv, HandlersFormed
  <2> PICK d \in Colleges : d = c
    BY <2>2
  <2>6. \E q \in Requests : req'[q].op \in {"count", "percent"} /\ req'[q].college = d
    BY <2>4, <2>5
  <2>7. /\ step' \in [Colleges -> SUBSET Steps]
        /\ \A e \in Colleges : step'[e] # step[e] => e = d
    BY <1>1, <2>1, <2>2, <2>3
  <2>8. lapped' \in SUBSET Colleges /\ lapped \subseteq lapped'
        /\ (InFlight(d, {"count", "percent"}) => d \in lapped')
    <3> HIDE DEF InFlight
    <3> QED
      BY <1>1, <2>1, <2>2
  <2>9. InFlight(d, {"count", "percent"})'
    BY <2>6 DEF InFlight
  <2>10. ASSUME NEW e \in Colleges, step'[e] # step[e]
        PROVE  /\ InFlight(e, {"count", "percent"})'
               /\ InFlight(e, {"count", "percent"}) => e \in lapped'
    <3>1. e = d
      BY <2>7, <2>10
    <3> QED
      BY <2>8, <2>9, <3>1
  <2> QED
    BY <2>7, <2>8, <2>10
<1>5. ASSUME PanelCrash, step' = step PROVE Good
  <2>1. lapped' = lapped \cup {req[r].college : r \in {x \in Requests : req[x].op \in {"count", "percent"}}}
    BY <1>5 DEF PanelCrash, Crash
  <2>2. \A r \in Requests : req[r].op \in {"count", "percent"} => req[r].college \in Colleges
    BY DEF PlatformInv, HandlersGood, TenantGood
  <2> QED
    BY <1>1, <1>5, <2>1, <2>2
<1> HIDE DEF Good
<1>6. ASSUME TenancyNext PROVE Good
  <2>1. /\ step' = step \/ \E r \in Requests, u \in Users, s \in Steps, b \in BOOLEAN : SaveOnboardingStep(r, u, s, b)
        /\ lapped' = lapped \/ (\E r \in Requests : OnboardingPercent(r))
           \/ \E r \in Requests, u \in Users, s \in Steps, b \in BOOLEAN : SaveOnboardingStep(r, u, s, b)
    BY <1>6, TenancyWrites DEF Written
  <2> QED
    BY <1>2, <1>3, <1>4, <2>1
<1> QED
  BY <1>2, <1>5, <1>6, TenantRowsMove DEF tenantRows

\* A torn signup stays known.
LEMMA TornStep ==
  PlatformInv /\ [PlatformNext]_panelVars => torn' \in SUBSET Colleges /\ torn \subseteq torn'
<1> DEFINE Good == torn' \in SUBSET Colleges /\ torn \subseteq torn'
<1> SUFFICES ASSUME PlatformInv, [PlatformNext]_panelVars PROVE Good
  OBVIOUS
<1>1. torn \subseteq Colleges
  BY DEF PlatformInv, AccTypeOK, TenancyTypeOK
<1>2. ASSUME torn' = torn PROVE Good
  BY <1>1, <1>2
<1>3. ASSUME NEW r \in Requests, SignupAdmin(r) \/ SignupProfile(r) PROVE Good
  <2>1. req[r].op \in {"admin", "profile"} /\ torn' \in {torn, torn \cup {req[r].college}}
    BY <1>3 DEF SignupAdmin, SignupProfile
  <2>2. req[r].college \in Colleges
    BY <2>1 DEF PlatformInv, HandlersGood, TenantGood
  <2> QED
    BY <1>1, <2>1, <2>2
<1>4. ASSUME PanelCrash PROVE Good
  <2>1. torn' = torn \cup {req[r].college : r \in {x \in Requests : req[x].op \in {"admin", "profile", "trial"}}}
    BY <1>4 DEF PanelCrash, Crash
  <2>2. \A r \in Requests : req[r].op \in {"admin", "profile", "trial"} => req[r].college \in Colleges
    BY DEF PlatformInv, HandlersGood, TenantGood
  <2> QED
    BY <1>1, <2>1, <2>2
<1> HIDE DEF Good
<1>5. ASSUME TenancyNext PROVE Good
  BY <1>2, <1>3, <1>5, TenancyWrites DEF Written
<1> QED
  BY <1>2, <1>4, <1>5, TenantRowsMove DEF tenantRows

\* A feature is enabled only for a plan that is subscribed to.
LEMMA EntitledStep ==
  PlatformInv /\ [PlatformNext]_panelVars =>
    entitled' \in [Colleges -> SUBSET Features] /\ EntitledByAPlan'
<1> DEFINE Of1(c, f) == \E p \in subscribed[c] : f \in DOMAIN PlanFeature[p] /\ PlanFeature[p][f]
           Good == /\ entitled' \in [Colleges -> SUBSET Features]
                   /\ \A c \in Colleges : \A f \in entitled'[c] : Of1(c, f)
<1>0. ASSUME PlatformInv, [PlatformNext]_panelVars, Good
      PROVE  entitled' \in [Colleges -> SUBSET Features] /\ EntitledByAPlan'
  BY <1>0, SubscribedStep DEF EntitledByAPlan
<1> SUFFICES ASSUME PlatformInv, [PlatformNext]_panelVars PROVE Good
  BY <1>0
<1>1. /\ entitled \in [Colleges -> SUBSET Features]
      /\ \A c \in Colleges : \A f \in entitled[c] : Of1(c, f)
  BY DEF PlatformInv, AccTypeOK, TenancyTypeOK, TenantsConsistent, EntitledByAPlan
<1>2. ASSUME entitled' = entitled PROVE Good
  BY <1>1, <1>2
<1>3. ASSUME NEW r \in Requests, SyncEntitlement(r) PROVE Good
  <2> DEFINE c == req[r].college
             p == req[r].data
  <2>1. /\ req[r].op = "sync"
        /\ \/ entitled' = entitled
           \/ \E f \in req[r].todo : entitled' = [entitled EXCEPT ![c] =
                 IF PlanFeature[p][f] THEN @ \cup {f} ELSE @ \ {f}]
    BY <1>3 DEF SyncEntitlement
  <2>2. c \in Colleges /\ p \in subscribed[c] /\ p \in Plans /\ req[r].todo \subseteq DOMAIN PlanFeature[p]
    BY <2>1 DEF PlatformInv, HandlersGood, TenantGood
  <2>3. ASSUME NEW f \in req[r].todo, entitled' = [entitled EXCEPT ![c] =
                 IF PlanFeature[p][f] THEN @ \cup {f} ELSE @ \ {f}]
        PROVE  Good
    <3> HIDE DEF c, p
    <3>1. f \in DOMAIN PlanFeature[p] /\ f \in Features
      BY <2>2, <2>3, TenancyAssumption
    <3>2. PlanFeature[p][f] => Of1(c, f)
      BY <2>2, <3>1
    <3> DEFINE t == IF PlanFeature[p][f] THEN entitled[c] \cup {f} ELSE entitled[c] \ {f}
    <3>3. t \subseteq Features /\ \A g \in t : g \in entitled[c] \/ (g = f /\ PlanFeature[p][f])
      BY <1>1, <2>2, <3>1
    <3>4. entitled' = [entitled EXCEPT ![c] = t]
      BY <2>3
    <3> HIDE DEF t, Of1
    <3>5. \A g \in t : Of1(c, g)
      BY <1>1, <2>2, <3>2, <3>3
    <3> QED
      BY <1>1, <2>2, <3>3, <3>4, <3>5
  <2> QED
    BY <1>2, <2>1, <2>3
<1> HIDE DEF Good
<1>4. ASSUME TenancyNext PROVE Good
  BY <1>2, <1>3, <1>4, TenancyWrites DEF Written
<1> QED
  BY <1>2, <1>4, TenantRowsMove DEF tenantRows

\* The version that is overwritten was kept.
LEMMA BrandingStep ==
  PlatformInv /\ [PlatformNext]_panelVars =>
    /\ branding' \in [Colleges -> 0..MaxVersion] /\ snapshots' \in [Colleges -> SUBSET (1..MaxVersion)]
    /\ \A c \in Colleges : snapshots[c] \subseteq snapshots'[c]
    /\ BrandingHistory'
<1> DEFINE Good == /\ branding' \in [Colleges -> 0..MaxVersion] /\ snapshots' \in [Colleges -> SUBSET (1..MaxVersion)]
                   /\ \A c \in Colleges : snapshots[c] \subseteq snapshots'[c]
                   /\ BrandingHistory'
<1> SUFFICES ASSUME PlatformInv, [PlatformNext]_panelVars PROVE Good
  OBVIOUS
<1>1. /\ branding \in [Colleges -> 0..MaxVersion] /\ snapshots \in [Colleges -> SUBSET (1..MaxVersion)]
      /\ BrandingHistory
  BY DEF PlatformInv, AccTypeOK, TenancyTypeOK, TenantsConsistent
<1>2. ASSUME branding' = branding, snapshots' = snapshots PROVE Good
  BY <1>1, <1>2 DEF BrandingHistory
<1>3. ASSUME NEW r \in Requests, BrandingSnapshot(r) PROVE Good
  <2> DEFINE c == req[r].college
             n == req[r].n
  <2>1. /\ req[r].op = "snapshot" /\ branding' = branding
        /\ snapshots' = snapshots \/ snapshots' = [snapshots EXCEPT ![c] = @ \cup {n}]
    BY <1>3 DEF BrandingSnapshot
  <2>2. c \in Colleges /\ n \in 1..MaxVersion
    BY <2>1, Constants DEF PlatformInv, HandlersGood, TenantGood
  <2> HIDE DEF c, n
  <2>3. /\ snapshots' \in [Colleges -> SUBSET (1..MaxVersion)]
        /\ \A d \in Colleges : snapshots[d] \subseteq snapshots'[d]
    BY <1>1, <2>1, <2>2
  <2> QED
    BY <1>1, <2>1, <2>3 DEF BrandingHistory
<1>4. ASSUME NEW r \in Requests, BrandingWrite(r) PROVE Good
  <2> DEFINE c == req[r].college
             n == req[r].n
  <2>1. /\ req[r].op = "brand" /\ n < MaxVersion /\ branding' = [branding EXCEPT ![c] = n + 1]
        /\ snapshots' = snapshots
    BY <1>4 DEF BrandingWrite
  <2>2. /\ c \in Colleges /\ n \in 0..MaxVersion
        /\ \A v \in 1..MaxVersion : v < n => v \in snapshots[c]
        /\ n = 0 \/ n \in snapshots[c]
    BY <2>1 DEF PlatformInv, HandlersGood, TenantGood
  <2> HIDE DEF c, n
  <2>3. n + 1 \in 0..MaxVersion
    BY <2>1, <2>2, Constants
  <2>4. /\ branding' \in [Colleges -> 0..MaxVersion] /\ branding'[c] = n + 1
        /\ \A d \in Colleges : d # c => branding'[d] = branding[d]
    BY <1>1, <2>1, <2>2, <2>3
  <2>5. ASSUME NEW d \in Colleges, NEW v \in 1..MaxVersion, v < branding'[d]
        PROVE  v \in snapshots'[d]
    <3>1. CASE d = c
      BY <2>1, <2>2, <2>4, <2>5, <3>1, Constants
    <3>2. CASE d # c
      BY <1>1, <2>1, <2>4, <2>5, <3>2 DEF BrandingHistory
    <3> QED
      BY <3>1, <3>2
  <2> QED
    BY <1>1, <2>1, <2>4, <2>5 DEF BrandingHistory
<1> HIDE DEF Good
<1>5. ASSUME TenancyNext PROVE Good
  <2>1. ASSUME branding' # branding, snapshots' # snapshots PROVE Good
    BY <1>3, <1>5, <2>1, TenancyWrites DEF Written
  <2> QED
    BY <1>2, <1>3, <1>4, <1>5, <2>1, TenancyWrites DEF Written
<1> QED
  BY <1>2, <1>5, TenantRowsMove DEF tenantRows

\* A signup is whole, under way or torn.
LEMMA SignupStep == PlatformInv /\ [PlatformNext]_panelVars => SignupWhole'
<1> SUFFICES ASSUME PlatformInv, [PlatformNext]_panelVars, NEW u \in Users,
                    user'[u].role = "COLLEGE_ADMIN", user'[u].pw = 0, NEW c \in Colleges,
                    c = user'[u].college
             PROVE  \/ profile'[c].status # "NONE" /\ subscribed'[c] # {}
                    \/ c \in torn' \/ InFlight(c, {"profile", "trial"})'
  <2>1. ASSUME PlatformInv, [PlatformNext]_panelVars, NEW u \in Users,
               user'[u].role = "COLLEGE_ADMIN"
        PROVE  user'[u].college \in Colleges
    BY <2>1, UsersStep
  <2> QED
    BY <2>1 DEF SignupWhole, InFlight
<1> DEFINE Whole == \/ profile'[c].status # "NONE" /\ subscribed'[c] # {}
                    \/ c \in torn' \/ InFlight(c, {"profile", "trial"})'
<1>1. user[u] \in UserRow /\ UserMove(u)
  BY UsersMove DEF PlatformInv, AccTypeOK, AccountsTypeOK, UserRow
<1>2. ASSUME user[u].role = "COLLEGE_ADMIN", user[u].pw = 0, user[u].college = c PROVE Whole
  <2>1. \/ profile[c].status # "NONE" /\ subscribed[c] # {}
        \/ c \in torn \/ InFlight(c, {"profile", "trial"})
    BY <1>2 DEF PlatformInv, TenantsConsistent, SignupWhole
  <2>2. profile[c].status # "NONE" /\ subscribed[c] # {} => profile'[c].status # "NONE" /\ subscribed'[c] # {}
    BY ProfileStep, SubscribedStep
  <2>3. c \in torn => c \in torn'
    BY TornStep
  <2> HIDE DEF InFlight
  <2> QED
    BY <2>1, <2>2, <2>3, SignupKept
<1>3. CASE user'[u] = user[u]
  BY <1>2, <1>3
<1>4. CASE \E r \in Requests :
          SignupAdmin(r) /\ req[r].op = "admin" /\ user'[u].college = req[r].college
          /\ req'[r].op = "profile" /\ req'[r].college = req[r].college
  BY <1>4 DEF InFlight
<1>5. CASE Changed(user[u], user'[u])
  BY <1>1, <1>2, <1>5 DEF Changed, UserRow
<1>6. CASE user'[u] = [user[u] EXCEPT !.pw = @ + 1, !.resets = @ + 1]
  <2>1. user'[u].pw = user[u].pw + 1 /\ user[u].pw \in Nat
    BY <1>1, <1>6, ResetRow DEF UserRow
  <2> QED
    BY <2>1
<1>7. CASE user'[u].pw > 0
  BY <1>7
<1> QED
  BY <1>1, <1>3, <1>4, <1>5, <1>6, <1>7 DEF UserMove

\* The percentage is that of the steps, or a save is on its way to it.
LEMMA PercentStep == PlatformInv /\ [PlatformNext]_panelVars => PercentExact' /\ StepsCounted'
<1> SUFFICES ASSUME PlatformInv, [PlatformNext]_panelVars, NEW c \in Colleges, step'[c] # {}
             PROVE  /\ \/ profile'[c].percent = Cardinality(step'[c])
                       \/ InFlight(c, {"count", "percent"})' \/ c \in lapped'
                    /\ profile'[c].status = "NONE" => InFlight(c, {"count", "percent"})' \/ c \in lapped'
  BY DEF PercentExact, StepsCounted, InFlight
<1> DEFINE Due == InFlight(c, {"count", "percent"})
           Later == InFlight(c, {"count", "percent"})' \/ c \in lapped'
<1>1. CASE step'[c] # step[c]
  BY <1>1, StepStep
<1>2. CASE step'[c] = step[c]
  <2>1. profile'[c].status = "NONE" => profile[c].status = "NONE"
    BY ProfileStep
  <2>2. c \in lapped => c \in lapped'
    BY StepStep
  <2>3. /\ profile[c].percent = Cardinality(step[c]) \/ Due \/ c \in lapped
        /\ profile[c].status = "NONE" => Due \/ c \in lapped
    BY <1>2 DEF PlatformInv, TenantsConsistent, PercentExact, StepsCounted
  <2>4. ASSUME NEW r \in Requests, req[r].op = "percent", req[r].college = c
        PROVE  req[r].n = Cardinality(step[c]) \/ c \in lapped
    BY <2>4 DEF PlatformInv, HandlersGood, TenantGood
  <2>5. ASSUME Due
        PROVE  /\ profile'[c].percent = Cardinality(step'[c]) \/ Later
               /\ profile'[c].status = "NONE" => Later
    <3>1. CASE \E r \in Requests : OnboardingPercent(r) /\ req[r].op = "percent" /\ req[r].college = c
      <4>1. PICK r \in Requests : OnboardingPercent(r) /\ req[r].op = "percent" /\ req[r].college = c
        BY <3>1
      <4>2. profile'[c].status = "NONE" => c \in lapped'
        BY <4>1, StepStep
      <4>3. c \in lapped' \/ profile' = [profile EXCEPT ![c].percent = req[r].n]
        BY <4>1 DEF OnboardingPercent
      <4>4. profile \in [Colleges -> ProfileRow]
        BY DEF PlatformInv, AccTypeOK, TenancyTypeOK, ProfileRow
      <4>5. c \in lapped' \/ profile'[c].percent = req[r].n
        BY <4>3, <4>4 DEF ProfileRow
      <4> QED
        BY <1>2, <2>2, <2>4, <4>1, <4>2, <4>5
    <3> HIDE DEF InFlight
    <3> QED
      BY <2>5, <3>1, FlightKept
  <2>6. Shared(c)
    BY ProfileStep
  <2> HIDE DEF Due, Later
  <2>7. c \in lapped' => Later
    BY DEF Later
  <2>8. CASE Due \/ c \in lapped
    BY <2>2, <2>5, <2>7, <2>8 DEF Later
  <2>9. CASE ~(Due \/ c \in lapped)
    <3>1. profile[c].percent = Cardinality(step[c]) /\ profile[c].status # "NONE"
      BY <2>3, <2>9
    <3>2. profile'[c].percent = Cardinality(step[c])
      BY <2>4, <2>6, <2>9, <3>1 DEF Shared
    <3> QED
      BY <1>2, <2>1, <3>1, <3>2
  <2> QED
    BY <2>8, <2>9
<1> QED
  BY <1>1, <1>2

-----------------------------------------------------------------------------
(* Colleges. *)

CollegeRow == [status : {"NONE", "ACTIVE", "INACTIVE"}, active : BOOLEAN, deleted : BOOLEAN]
Opens(x) == x.active <=> x.status = "ACTIVE"

\* A college opens with the status it is given.
LEMMA StatusOpens ==
  ASSUME NEW x \in CollegeRow, NEW s \in {"ACTIVE", "INACTIVE"}
  PROVE  LET y == [x EXCEPT !.status = s, !.active = (s = "ACTIVE")] IN
         y \in CollegeRow /\ Opens(y) /\ y.deleted = x.deleted
<1> DEFINE y(a) == [x EXCEPT !.status = s, !.active = a]
<1>1. ASSUME NEW a \in BOOLEAN, a <=> s = "ACTIVE"
      PROVE  y(a) \in CollegeRow /\ Opens(y(a)) /\ y(a).deleted = x.deleted
  <2> DEFINE z == y(a)
  <2>1. z \in CollegeRow /\ z.deleted = x.deleted /\ z.status = s /\ z.active = a
    BY DEF CollegeRow
  <2> HIDE DEF z, y
  <2>2. Opens(z)
    BY <1>1, <2>1, Zenon DEF Opens
  <2> QED
    BY <2>1, <2>2 DEF z
<1> HIDE DEF y
<1>2. (s = "ACTIVE") \in BOOLEAN
  OBVIOUS
<1>3. LET z == y((s = "ACTIVE")) IN z \in CollegeRow /\ Opens(z) /\ z.deleted = x.deleted
  BY <1>1, <1>2, Zenon
<1> QED
  BY <1>3 DEF y

\* Only a change that had read the row before opens an archived college.
LEMMA CollegesStep ==
  PlatformInv /\ [PlatformNext]_panelVars =>
    /\ college' \in [Colleges -> CollegeRow] /\ (\A c \in Colleges : Opens(college'[c]))
    /\ overtaken' \in SUBSET Colleges /\ ArchiveStands'
<1> DEFINE Good == /\ college' \in [Colleges -> CollegeRow] /\ (\A c \in Colleges : Opens(college'[c]))
                   /\ overtaken' \in SUBSET Colleges /\ ArchiveStands'
<1> SUFFICES ASSUME PlatformInv, [PlatformNext]_panelVars PROVE Good
  OBVIOUS
<1>1. /\ college \in [Colleges -> CollegeRow] /\ (\A c \in Colleges : Opens(college[c]))
      /\ overtaken \subseteq Colleges /\ ArchiveStands
  BY DEF PlatformInv, AccTypeOK, AccountsTypeOK, CollegeRow, Opens, TenantsConsistent
<1>2. ASSUME college' = college, overtaken' = overtaken PROVE Good
  BY <1>1, <1>2 DEF ArchiveStands
<1>3. ASSUME NEW c \in Colleges, NEW x \in CollegeRow, Opens(x), college' = [college EXCEPT ![c] = x],
             overtaken' \in {overtaken, overtaken \cup {c}},
             x.deleted /\ x.active => c \in overtaken'
      PROVE  Good
  <2>1. /\ college' \in [Colleges -> CollegeRow] /\ college'[c] = x
        /\ \A d \in Colleges : d # c => college'[d] = college[d]
    BY <1>1, <1>3
  <2>2. overtaken' \in SUBSET Colleges /\ overtaken \subseteq overtaken'
    BY <1>1, <1>3
  <2>3. ArchiveStands'
    BY <1>1, <1>3, <2>1, <2>2 DEF ArchiveStands
  <2>4. \A d \in Colleges : Opens(college'[d])
    BY <1>1, <1>3, <2>1
  <2> QED
    BY <2>1, <2>2, <2>3, <2>4
<1>4. ASSUME NEW c \in Colleges, NEW s \in {"ACTIVE", "INACTIVE"}, overtaken' = overtaken,
             college' = [college EXCEPT ![c] = [status |-> s, active |-> s = "ACTIVE", deleted |-> FALSE]]
      PROVE  Good
  <2>1. PICK d \in BOOLEAN : d = FALSE
    OBVIOUS
  <2>2. ASSUME NEW a \in BOOLEAN, a <=> s = "ACTIVE",
               college' = [college EXCEPT ![c] = [status |-> s, active |-> a, deleted |-> d]]
        PROVE  Good
    <3> DEFINE x == [status |-> s, active |-> a, deleted |-> d]
    <3>1. x \in CollegeRow /\ x.deleted = d /\ x.status = s /\ x.active = a
      BY DEF CollegeRow
    <3> HIDE DEF x
    <3>2. Opens(x)
      BY <2>2, <3>1, Zenon DEF Opens
    <3>3. college' = [college EXCEPT ![c] = x]
      BY <2>2 DEF x
    <3> QED
      BY <1>3, <1>4, <2>1, <3>1, <3>2, <3>3
  <2>3. college' = [college EXCEPT ![c] = [status |-> s, active |-> (s = "ACTIVE"), deleted |-> d]]
    BY <1>4, <2>1
  <2>4. (s = "ACTIVE") \in BOOLEAN
    OBVIOUS
  <2> HIDE DEF Good
  <2> QED
    BY <2>2, <2>3, <2>4, Zenon
<1>5. ASSUME NEW r, NEW u, NEW c \in Colleges, NEW e, NEW s \in {"ACTIVE", "INACTIVE"},
             CreateCollege(r, u, c, e, s)
      PROVE  Good
  <2>1. /\ college' = [college EXCEPT ![c] = [status |-> s, active |-> s = "ACTIVE", deleted |-> FALSE]]
        /\ overtaken' = overtaken
    BY <1>5 DEF CreateCollege
  <2> HIDE DEF Good
  <2> QED
    BY <1>4, <2>1
<1>6. ASSUME NEW r \in Requests, NEW c \in Colleges, NEW e, Signup(r, c, e), overtaken' = overtaken PROVE Good
  <2>1. college' = [college EXCEPT ![c] = [status |-> "ACTIVE", active |-> TRUE, deleted |-> FALSE]]
    BY <1>6 DEF Signup
  <2>2. PICK a \in BOOLEAN : a = TRUE
    OBVIOUS
  <2>3. PICK d \in BOOLEAN : d = FALSE
    OBVIOUS
  <2> DEFINE x == [status |-> "ACTIVE", active |-> a, deleted |-> d]
  <2>4. x \in CollegeRow /\ x.deleted = d /\ x.status = "ACTIVE" /\ x.active = a
    BY DEF CollegeRow
  <2>5. college' = [college EXCEPT ![c] = x]
    BY <2>1, <2>2, <2>3
  <2> HIDE DEF x
  <2>6. Opens(x)
    BY <2>2, <2>4 DEF Opens
  <2> QED
    BY <1>3, <1>6, <2>3, <2>4, <2>5, <2>6
<1>7. ASSUME NEW r \in Requests, CollegeWrite(r) PROVE Good
  <2> DEFINE c == req[r].college
             s == req[r].op
  <2>1. /\ s \in {"ACTIVE", "INACTIVE", "archive"}
        /\ college' = [college EXCEPT ![c] =
             IF s = "archive" THEN [status |-> "INACTIVE", active |-> FALSE, deleted |-> TRUE]
             ELSE [@ EXCEPT !.status = s, !.active = (s = "ACTIVE")]]
        /\ overtaken' = IF college[c].deleted /\ ~req[r].raced
             THEN overtaken \cup {c} ELSE overtaken
    BY <1>7 DEF CollegeWrite
  <2>2. c \in Colleges /\ req[r].raced = FALSE
    BY <2>1 DEF PlatformInv, HandlersGood, CollegeGood
  <2>3. overtaken' \in {overtaken, overtaken \cup {c}} /\ (college[c].deleted => c \in overtaken')
    BY <2>1, <2>2
  <2> HIDE DEF c, s
  <2>4. CASE s = "archive"
    <3>1. PICK a \in BOOLEAN : a = FALSE
      OBVIOUS
    <3>2. PICK d \in BOOLEAN : d = TRUE
      OBVIOUS
    <3> DEFINE x == [status |-> "INACTIVE", active |-> a, deleted |-> d]
    <3>3. x \in CollegeRow /\ x.deleted = d /\ x.status = "INACTIVE" /\ x.active = a
      BY DEF CollegeRow
    <3>4. college' = [college EXCEPT ![c] = x]
      BY <2>1, <2>4, <3>1, <3>2
    <3> HIDE DEF x
    <3>5. Opens(x)
      BY <3>1, <3>3 DEF Opens
    <3> QED
      BY <1>3, <2>2, <2>3, <3>1, <3>3, <3>4, <3>5
  <2>5. CASE s # "archive"
    <3> DEFINE x == [college[c] EXCEPT !.status = s, !.active = (s = "ACTIVE")]
    <3>1. s \in {"ACTIVE", "INACTIVE"} /\ college[c] \in CollegeRow
      BY <1>1, <2>1, <2>2, <2>5
    <3>2. x \in CollegeRow /\ Opens(x) /\ x.deleted = college[c].deleted
      BY <3>1, StatusOpens
    <3>3. college' = [college EXCEPT ![c] = x]
      BY <2>1, <2>5
    <3> HIDE DEF x
    <3> QED
      BY <1>3, <2>2, <2>3, <3>2, <3>3
  <2> QED
    BY <2>4, <2>5
<1> HIDE DEF Good
<1>8. ASSUME CollegesNext PROVE Good
  <2>1. ASSUME NEW r, NEW u, NEW c, NEW op, ChangeCollege(r, u, c, op)
        PROVE  college' = college /\ overtaken' = overtaken
    BY <2>1 DEF ChangeCollege
  <2> QED
    BY <1>2, <1>5, <1>7, <1>8, <2>1 DEF CollegesNext
<1>9. ASSUME TenancyNext PROVE Good
  BY <1>2, <1>6, <1>9, TenancyWrites, TenancyLeaves DEF Written
<1>10. ~CollegesNext /\ ~TenancyNext => college' = college /\ overtaken' = overtaken
  BY AuthLeaves, StructureLeaves, EnrolLeaves, PersonLeaves, PanelLeaves, CrashLeaves
     DEF PlatformNext, serviceRows, accountRows, panelVars, tenantVars, enrolVars, accountVars
<1> QED
  BY <1>2, <1>8, <1>9, <1>10

-----------------------------------------------------------------------------
(* What the handlers know is true while they wait, and of those that begin. *)

\* A handler that is as it should be after the step.
Fits(x) ==
    /\ Handler(x)
    /\ AuthGood(x, session', resetToken', user') /\ CollegeGood(x)
    /\ EnrolGood(x, row')
    /\ TenantGood(x, profile', subscribed', step', lapped', snapshots')
    /\ PanelGood(x)

\* One that does not record a change.
Begins(x) == Fits(x) /\ x.op # "record"

\* The change that a handler begins to record is made in the same step.
Records(y) ==
    /\ Fits(req'[y])
    /\ \E c \in Scopes : Change(y, c) /\ req'[y].op = "record" /\ req'[y].college = c

Fitting == \A y \in Requests : req'[y] = req[y] \/ Begins(req'[y]) \/ Records(y)

\* A free slot fits any state.
LEMMA FitsIdle == Begins(NoReq)
  BY NoReqFields DEF Begins, Fits, AuthGood, CollegeGood, EnrolGood, TenantGood, PanelGood

\* What a handler in flight knows stays true, whatever step the others take.
LEMMA FitsKept ==
  ASSUME PlatformInv, [PlatformNext]_panelVars, NEW r \in Requests
  PROVE  Fits(req[r])
<1>1. /\ Handler(req[r]) /\ AuthGood(req[r], session, resetToken, user) /\ CollegeGood(req[r])
      /\ EnrolGood(req[r], row) /\ PanelGood(req[r])
      /\ TenantGood(req[r], profile, subscribed, step, lapped, snapshots)
  BY DEF PlatformInv, HandlersFormed, HandlersGood
<1>2. AuthGood(req[r], session', resetToken', user')
  BY <1>1, AuthKept
<1>3. EnrolGood(req[r], row')
  <2>1. \A i \in Rows : row[i].kind # "none" =>
         /\ row'[i].kind = row[i].kind /\ row'[i].college = row[i].college
         /\ row'[i].course = row[i].course /\ row'[i].semester = row[i].semester
    BY RowsStep
  <2>2. req[r].op = "import" => StudentLinked(row', req[r].college, req[r].data)
    BY <1>1, <2>1 DEF EnrolGood, StudentLinked, Linked
  <2>3. req[r].op = "import" => OneCourse(row', req[r].data)
    BY <1>1, <2>1 DEF EnrolGood, StudentLinked, Linked, OneCourse
  <2> QED
    BY <1>1, <2>2, <2>3 DEF EnrolGood
<1>4. TenantGood(req[r], profile', subscribed', step', lapped', snapshots')
  <2>1. \A c \in Colleges :
          /\ profile[c].status # "NONE" => profile'[c].status # "NONE"
          /\ subscribed[c] \subseteq subscribed'[c] /\ snapshots[c] \subseteq snapshots'[c]
    BY ProfileStep, SubscribedStep, BrandingStep
  <2>2. lapped \subseteq lapped'
    BY StepStep
  <2>3. req[r].op = "percent" =>
          step'[req[r].college] = step[req[r].college] \/ req[r].college \in lapped'
    <3> SUFFICES ASSUME req[r].op = "percent", NEW c \in Colleges, c = req[r].college
                 PROVE  step'[c] = step[c] \/ c \in lapped'
      BY <1>1 DEF TenantGood
    <3>1. InFlight(c, {"count", "percent"})
      BY DEF InFlight
    <3> QED
      BY <3>1, StepStep
  <2> QED
    BY <1>1, <2>1, <2>2, <2>3 DEF TenantGood
<1> QED
  BY <1>1, <1>2, <1>3, <1>4 DEF Fits

\* A step that puts one handler into its slot.
LEMMA Placed ==
  ASSUME PlatformInv, NEW r \in Requests, NEW x, req' = [req EXCEPT ![r] = x], Begins(x)
  PROVE  Fitting
<1>1. req = [y \in Requests |-> req[y]]
  BY DEF PlatformInv, HandlersFormed
<1> QED
  BY <1>1 DEF Fitting

\* A handler that ends.
LEMMA DoneFits ==
  ASSUME PlatformInv, NEW r \in Requests, Done(r)
  PROVE  Fitting
  BY FitsIdle, Placed DEF Done

\* Step, with the user of a request of AuthService.
LEMMA StepFits ==
  ASSUME PlatformInv, NEW r \in Requests, NEW u \in Users, NEW o \in {"expire", "lookup", "create"},
         NEW n \in Nat, Step(r, o, u, n)
  PROVE  Fitting
<1> DEFINE x == [NoReq EXCEPT !.op = o, !.user = u, !.n = n]
<1>1. Handler(x) /\ x.op = o /\ x.user = u /\ x.n = n
  BY NoReqFields DEF Handler
<1>2. req' = [req EXCEPT ![r] = x]
  BY DEF Step
<1> HIDE DEF x
<1>3. Begins(x)
  BY <1>1 DEF Begins, Fits, AuthGood, CollegeGood, EnrolGood, TenantGood, PanelGood
<1> QED
  BY <1>2, <1>3, Placed

\* The handlers of AuthService.
LEMMA AuthFits == PlatformInv /\ [PlatformNext]_panelVars /\ AuthNext => Fitting
<1> SUFFICES ASSUME PlatformInv, [PlatformNext]_panelVars, AuthNext PROVE Fitting
  OBVIOUS
<1>1. /\ session \in [Sessions -> SessionRow] /\ user \in [Users -> UserRow]
      /\ resetToken \in [ResetTokens -> TokenRow]
      /\ SessionRows /\ TokenRows /\ SelfResetEndsSessions /\ (req = [y \in Requests |-> req[y]])
      /\ \A r \in Requests : Handler(req[r]) /\ AuthGood(req[r], session, resetToken, user)
  BY DEF PlatformInv, AccTypeOK, AccountsTypeOK, SessionRow, UserRow, TokenRow, SessionsEnd,
     HandlersFormed, HandlersGood
<1>2. ASSUME req' = req PROVE Fitting
  BY <1>2 DEF Fitting
<1>3. ASSUME NEW r \in Requests, NEW u \in Users, Login(r, u) PROVE Fitting
  <2>1. req' = req \/ Done(r) \/ \E o \in {"expire", "lookup"} : Step(r, o, u, 0)
    BY <1>3 DEF Login, LocalLimit
  <2> QED
    BY <1>2, <2>1, DoneFits, StepFits
<1>4. ASSUME NEW r \in Requests, LoginExpire(r) PROVE Fitting
  <2>1. req[r].op = "expire" /\ (Done(r) \/ Step(r, "lookup", req[r].user, 0))
    BY <1>4 DEF LoginExpire, LocalLimit
  <2>2. req[r].user \in Users
    BY <1>1, <2>1 DEF AuthGood
  <2> QED
    BY <2>1, <2>2, DoneFits, StepFits
<1>5. ASSUME NEW r \in Requests, LoginLookup(r) PROVE Fitting
  <2>1. req[r].op = "lookup" /\ (Done(r) \/ Step(r, "create", req[r].user, user[req[r].user].resets))
    BY <1>5 DEF LoginLookup
  <2>2. req[r].user \in Users /\ user[req[r].user].resets \in Nat
    BY <1>1, <2>1 DEF AuthGood, UserRow
  <2> QED
    BY <2>1, <2>2, DoneFits, StepFits
<1>6. ASSUME NEW r \in Requests, LoginCreate(r) \/ RefreshMark(r) \/ IssueReset(r) \/ ResetWrite(r)
      PROVE  Fitting
  BY <1>6, DoneFits DEF LoginCreate, RefreshMark, IssueReset, ResetWrite
<1>7. ASSUME NEW r \in Requests, NEW s \in Sessions, Refresh(r, s) PROVE Fitting
  <2> DEFINE u == session[s].user
             n == user[u].resets
             d == session[s].raced
             x == [NoReq EXCEPT !.op = "refresh", !.id = s, !.user = u, !.n = n, !.raced = d]
  <2>1. session[s].state = "live" /\ req' = [req EXCEPT ![r] = x] /\ session' = session
    BY <1>7 DEF Refresh, authRows
  <2>2. /\ u \in Users /\ n \in Nat /\ d \in BOOLEAN /\ (d \/ session[s].auth = n)
    BY <1>1, <2>1 DEF SessionRows, SessionRow, UserRow, SelfResetEndsSessions
  <2>3. Handler(x) /\ x.op = "refresh" /\ x.id = s /\ x.user = u /\ x.n = n /\ x.raced = d
    BY NoReqFields DEF Handler
  <2> HIDE DEF x, d, n, u
  <2>4. AuthGood(x, session', resetToken', user')
    BY <2>1, <2>2, <2>3 DEF AuthGood
  <2>5. Begins(x)
    BY <2>3, <2>4 DEF Begins, Fits, CollegeGood, EnrolGood, TenantGood, PanelGood
  <2> QED
    BY <2>1, <2>5, Placed
<1>8. ASSUME NEW r \in Requests, RefreshCreate(r) PROVE Fitting
  <2> DEFINE f == First(FreeSessions)
             x == [req[r] EXCEPT !.op = "mark", !.n = f]
  <2>1. req[r].op = "refresh" /\ req' = [req EXCEPT ![r] = x]
    BY <1>8 DEF RefreshCreate
  <2>2. req[r].user \in Users /\ req[r].id \in Sessions /\ session[req[r].id].state # "none"
    BY <1>1, <2>1 DEF AuthGood
  <2>3. session'[req[r].id].state # "none"
    BY <2>2, SessionsStep
  <2> HIDE DEF f
  <2>4. Handler(x) /\ x.op = "mark" /\ x.id = req[r].id /\ x.user = req[r].user
    BY <1>1 DEF Handler
  <2> HIDE DEF x
  <2>5. Begins(x)
    BY <2>2, <2>3, <2>4 DEF Begins, Fits, AuthGood, CollegeGood, EnrolGood, TenantGood, PanelGood
  <2> QED
    BY <2>1, <2>5, Placed
<1>9. ASSUME NEW r \in Requests, NEW u \in Users, RequestPasswordReset(r, u) PROVE Fitting
  <2> DEFINE n == Cardinality(ResetTokens \ FreeResets)
             x == [NoReq EXCEPT !.op = "issue", !.user = u, !.n = n]
  <2>1. /\ req' = [req EXCEPT ![r] = x]
        /\ resetToken' = [t \in ResetTokens |-> IF resetToken[t].user = u
                            THEN Revoked(resetToken[t]) ELSE resetToken[t]]
    BY <1>9 DEF RequestPasswordReset, Step
  <2>2. Handler(x) /\ x.op = "issue" /\ x.user = u /\ x.n = n
    BY NoReqFields DEF Handler
  <2>3. IsFiniteSet(ResetTokens) /\ Cardinality(ResetTokens) = MaxResetTokens
    BY Constants, FS_Interval DEF ResetTokens
  <2>4. n \in 0..MaxResetTokens
    <3>1. n \in Nat /\ n <= MaxResetTokens
      BY <2>3, FS_Subset, FS_CardinalityType
    <3> QED
      BY <3>1, Constants
  <2>5. ASSUME NEW t \in ResetTokens, resetToken[t].status = "none" PROVE t > n
    <3>1. t \in Nat /\ t >= 1 /\ ResetTokens \subseteq Nat
      BY Constants DEF ResetTokens
    <3>2. ResetTokens \ FreeResets \subseteq 1..(t - 1)
      BY <1>1, <2>5, Constants DEF TokenRows, FreeResets, ResetTokens
    <3>3. IsFiniteSet(1..(t - 1)) /\ Cardinality(1..(t - 1)) = t - 1
      BY <3>1, FS_Interval
    <3>4. n <= t - 1
      BY <3>2, <3>3, FS_Subset
    <3> QED
      BY <2>4, <3>1, <3>4, Constants
  <2>6. ASSUME NEW t \in ResetTokens
        PROVE  /\ resetToken'[t].status = "none" => resetToken[t].status = "none"
               /\ ~(resetToken'[t].status = "ACTIVE" /\ resetToken'[t].user = u)
    BY <1>1, <2>1 DEF Revoked, TokenRow
  <2> HIDE DEF x, n
  <2>7. AuthGood(x, session', resetToken', user')
    BY <2>2, <2>4, <2>5, <2>6 DEF AuthGood
  <2>8. Begins(x)
    BY <2>2, <2>7 DEF Begins, Fits, CollegeGood, EnrolGood, TenantGood, PanelGood
  <2> QED
    BY <2>1, <2>8, Placed
<1>10. ASSUME NEW r \in Requests, NEW t \in ResetTokens, ResetPassword(r, t) PROVE Fitting
  <2> DEFINE u == resetToken[t].user
             x == [NoReq EXCEPT !.op = "reset", !.id = t, !.user = u]
  <2>1. /\ resetToken[t].status = "ACTIVE" /\ user[u].role # "NONE"
        /\ req' = [req EXCEPT ![r] = x] /\ resetToken' = resetToken /\ user' = user
    BY <1>10 DEF ResetPassword, authRows, Enabled, Exists
  <2>2. u \in Users
    BY <1>1, <2>1 DEF TokenRows
  <2>3. Handler(x) /\ x.op = "reset" /\ x.id = t /\ x.user = u
    BY NoReqFields DEF Handler
  <2> HIDE DEF x, u
  <2>4. Begins(x)
    BY <2>1, <2>2, <2>3 DEF Begins, Fits, AuthGood, CollegeGood, EnrolGood, TenantGood, PanelGood
  <2> QED
    BY <2>1, <2>4, Placed
<1>11. ASSUME NEW r, NEW u, NEW s, NEW b,
              \/ Logout(r, u, s) \/ SessionExpires(s) \/ AccessExpires(u) \/ WindowEnds(u)
              \/ UpdateMaintenance(u, b)
       PROVE  req' = req
  BY <1>11 DEF Logout, SessionExpires, AccessExpires, WindowEnds, UpdateMaintenance
<1> QED
  BY <1>2, <1>3, <1>4, <1>5, <1>6, <1>7, <1>8, <1>9, <1>10, <1>11 DEF AuthNext

\* The handlers of CollegesService.
LEMMA CollegesFit == PlatformInv /\ [PlatformNext]_panelVars /\ CollegesNext => Fitting
<1> SUFFICES ASSUME PlatformInv, [PlatformNext]_panelVars, CollegesNext PROVE Fitting
  OBVIOUS
<1>1. ASSUME NEW r \in Requests, NEW u, NEW c \in Colleges, NEW op, ChangeCollege(r, u, c, op)
      PROVE  Fitting
  <2> DEFINE d == college[c].deleted
             x == [NoReq EXCEPT !.op = op, !.college = c, !.raced = d]
  <2>1. /\ op \in {"ACTIVE", "INACTIVE", "archive"} /\ ~college[c].deleted
        /\ req' = [req EXCEPT ![r] = x]
    BY <1>1 DEF ChangeCollege, Visible
  <2>2. d = FALSE
    BY <2>1 DEF PlatformInv, AccTypeOK, AccountsTypeOK
  <2> HIDE DEF d
  <2>3. Handler(x) /\ x.op = op /\ x.college = c /\ x.raced = d
    BY NoReqFields DEF Handler
  <2> HIDE DEF x
  <2>4. Begins(x)
    BY <2>1, <2>2, <2>3 DEF Begins, Fits, AuthGood, CollegeGood, EnrolGood, TenantGood, PanelGood
  <2> QED
    BY <2>1, <2>4, Placed
<1>2. ASSUME NEW r \in Requests, CollegeWrite(r) PROVE Fitting
  BY <1>2, DoneFits DEF CollegeWrite
<1>3. ASSUME NEW r, NEW u, NEW c, NEW e, NEW s, CreateCollege(r, u, c, e, s) PROVE Fitting
  BY <1>3 DEF CreateCollege, Fitting
<1> QED
  BY <1>1, <1>2, <1>3 DEF CollegesNext

\* The handlers of AcademicService.
LEMMA EnrolFits == PlatformInv /\ [PlatformNext]_panelVars /\ EnrolNext => Fitting
<1> SUFFICES ASSUME PlatformInv, [PlatformNext]_panelVars, EnrolNext PROVE Fitting
  OBVIOUS
<1>1. /\ (req = [y \in Requests |-> req[y]]) /\ \A r \in Requests : Handler(req[r]) /\ EnrolGood(req[r], row)
  BY DEF PlatformInv, HandlersFormed, HandlersGood
<1>2. ASSUME NEW r \in Requests, NEW u, NEW c \in Colleges, NEW E \in Payloads, NEW l \in LinkChoices,
             BulkCreateStudents(r, u, c, E, l)
      PROVE  Fitting
  <2> DEFINE x == [NoReq EXCEPT !.op = "import", !.college = c, !.todo = E, !.data = l]
  <2>1. req' = [req EXCEPT ![r] = x] /\ ImportLinks(c, l) /\ row' = row
    BY <1>2 DEF BulkCreateStudents, enrolRows
  <2>2. Handler(x) /\ x.op = "import" /\ x.college = c /\ x.todo = E /\ x.data = l
    BY NoReqFields DEF Handler
  <2>3. E \subseteq Users
    BY DEF Payloads
  <2>4. l \in LinkRow
    BY LinkChosen
  <2>5. StudentLinked(row', c, l) /\ OneCourse(row', l)
    BY <2>1 DEF ImportLinks, LinksExist, InCollege, StudentLinked, Linked, OneCourse
  <2> HIDE DEF x
  <2>6. EnrolGood(x, row')
    BY <2>2, <2>3, <2>4, <2>5 DEF EnrolGood
  <2>7. Begins(x)
    BY <2>2, <2>6 DEF Begins, Fits, AuthGood, CollegeGood, TenantGood, PanelGood
  <2> QED
    BY <2>1, <2>7, Placed
<1>3. ASSUME NEW r \in Requests, NEW u \in Users, NEW E \in Payloads, BulkUpdateStudents(r, u, E)
      PROVE  Fitting
  <2> DEFINE x == [NoReq EXCEPT !.op = "update", !.todo = E, !.user = u]
  <2>1. req' = [req EXCEPT ![r] = x]
    BY <1>3 DEF BulkUpdateStudents
  <2>2. Handler(x) /\ x.op = "update" /\ x.user = u /\ x.todo = E
    BY NoReqFields DEF Handler
  <2>3. E \subseteq Users
    BY DEF Payloads
  <2> HIDE DEF x
  <2>4. Begins(x)
    BY <2>2, <2>3 DEF Begins, Fits, AuthGood, CollegeGood, EnrolGood, TenantGood, PanelGood
  <2> QED
    BY <2>1, <2>4, Placed
<1>4. ASSUME NEW r \in Requests, BulkUpdateNext(r) PROVE Fitting
  <2>1. req[r].op = "update" /\ req[r].todo \subseteq Users /\ req[r].user \in Users
    BY <1>1, <1>4 DEF BulkUpdateNext, EnrolGood
  <2>2. PICK e \in req[r].todo : Done(r) \/ req' = [req EXCEPT ![r] = [req[r] EXCEPT !.todo = req[r].todo \ {e}]]
    BY <1>4 DEF BulkUpdateNext, Done
  <2> DEFINE t == req[r].todo \ {e}
             x == [req[r] EXCEPT !.todo = t]
  <2>3. t \subseteq Users
    BY <2>1
  <2>4. Done(r) \/ req' = [req EXCEPT ![r] = x]
    BY <2>2
  <2> HIDE DEF t
  <2>5. Handler(x) /\ x.op = req[r].op /\ x.user = req[r].user /\ x.todo = t
    BY <1>1 DEF Handler
  <2> HIDE DEF x
  <2>6. Begins(x)
    BY <2>1, <2>3, <2>5 DEF Begins, Fits, AuthGood, CollegeGood, EnrolGood, TenantGood, PanelGood
  <2> QED
    BY <2>4, <2>6, Placed, DoneFits
<1>5. ASSUME NEW r \in Requests, ImportWrite(r) PROVE Fitting
  BY <1>5, DoneFits DEF ImportWrite
<1>6. ASSUME NEW r, NEW u, NEW c, NEW e, NEW l, NEW o, NEW s, CreatePerson(r, u, c, e, l, o, s) PROVE Fitting
  BY <1>6 DEF CreatePerson, Fitting
<1> QED
  BY <1>2, <1>3, <1>4, <1>5, <1>6 DEF EnrolNext

\* The handlers of SaasService.
LEMMA TenancyFits == PlatformInv /\ [PlatformNext]_panelVars /\ TenancyNext => Fitting
<1> SUFFICES ASSUME PlatformInv, [PlatformNext]_panelVars, TenancyNext PROVE Fitting
  OBVIOUS
<1>1. /\ (req = [y \in Requests |-> req[y]]) /\ user \in [Users -> UserRow]
      /\ profile \in [Colleges -> ProfileRow] /\ subscribed \in [Colleges -> SUBSET Plans]
      /\ step \in [Colleges -> SUBSET Steps] /\ branding \in [Colleges -> 0..MaxVersion]
      /\ snapshots \in [Colleges -> SUBSET (1..MaxVersion)] /\ BrandingHistory
      /\ \A r \in Requests : /\ Handler(req[r])
                             /\ TenantGood(req[r], profile, subscribed, step, lapped, snapshots)
  BY DEF PlatformInv, AccTypeOK, AccountsTypeOK, TenancyTypeOK, UserRow, ProfileRow,
     HandlersFormed, HandlersGood, TenantsConsistent
<1>2. ASSUME NEW r \in Requests, NEW u \in Users, user[u].college # None
      PROVE  user[u].college \in Colleges
  BY <1>1, <1>2 DEF UserRow
<1>3. ASSUME NEW r \in Requests, NEW c \in Colleges, NEW e \in Users, Signup(r, c, e) PROVE Fitting
  <2> DEFINE x == [NoReq EXCEPT !.op = "admin", !.college = c, !.data = e]
  <2>1. req' = [req EXCEPT ![r] = x]
    BY <1>3 DEF Signup, Go
  <2>2. Handler(x) /\ x.op = "admin" /\ x.college = c /\ x.data = e
    BY NoReqFields DEF Handler
  <2> HIDE DEF x
  <2>3. Begins(x)
    BY <2>2 DEF Begins, Fits, AuthGood, CollegeGood, EnrolGood, TenantGood, PanelGood
  <2> QED
    BY <2>1, <2>3, Placed
<1>4. ASSUME NEW r \in Requests, SignupAdmin(r) PROVE Fitting
  <2> DEFINE x == [req[r] EXCEPT !.op = "profile"]
  <2>1. req[r].op = "admin" /\ (Done(r) \/ req' = [req EXCEPT ![r] = x])
    BY <1>4 DEF SignupAdmin
  <2>2. Handler(x) /\ x.op = "profile" /\ x.college = req[r].college
    BY <1>1 DEF Handler
  <2>3. req[r].college \in Colleges
    BY <1>1, <2>1 DEF TenantGood
  <2> HIDE DEF x
  <2>4. Begins(x)
    BY <2>2, <2>3 DEF Begins, Fits, AuthGood, CollegeGood, EnrolGood, TenantGood, PanelGood
  <2> QED
    BY <2>1, <2>4, Placed, DoneFits
<1>5. ASSUME NEW r \in Requests, SignupProfile(r) PROVE Fitting
  <2> DEFINE x == [req[r] EXCEPT !.op = "trial"]
             c == req[r].college
  <2>1. /\ req[r].op = "profile"
        /\ \/ Done(r)
           \/ /\ req' = [req EXCEPT ![r] = x]
              /\ profile' = [profile EXCEPT ![c] = [status |-> "TRIAL", percent |-> 1]]
    BY <1>5 DEF SignupProfile
  <2>2. Handler(x) /\ x.op = "trial" /\ x.college = c
    BY <1>1 DEF Handler
  <2>3. c \in Colleges
    BY <1>1, <2>1 DEF TenantGood
  <2> HIDE DEF x, c
  <2>4. ASSUME profile' = [profile EXCEPT ![c] = [status |-> "TRIAL", percent |-> 1]]
        PROVE  Begins(x)
    <3>1. profile'[c].status # "NONE"
      BY <1>1, <2>3, <2>4
    <3> QED
      BY <2>2, <2>3, <3>1 DEF Begins, Fits, AuthGood, CollegeGood, EnrolGood, TenantGood, PanelGood
  <2> QED
    BY <2>1, <2>4, Placed, DoneFits
<1>6. ASSUME NEW r \in Requests, NEW p, SignupTrial(r, p) \/ OnboardingPercent(r) \/ BrandingWrite(r)
      PROVE  Fitting
  BY <1>6, DoneFits DEF SignupTrial, OnboardingPercent, BrandingWrite
<1>7. ASSUME NEW r \in Requests, NEW u \in Users, NEW s \in Steps, NEW b, SaveOnboardingStep(r, u, s, b)
      PROVE  Fitting
  <2> DEFINE c == user[u].college
             x == [NoReq EXCEPT !.op = "count", !.college = c, !.data = s]
  <2>1. c # None /\ req' = [req EXCEPT ![r] = x]
    BY <1>7 DEF SaveOnboardingStep, TenantCall, Go
  <2>2. c \in Colleges
    BY <1>2, <2>1
  <2> HIDE DEF c
  <2>3. Handler(x) /\ x.op = "count" /\ x.college = c
    BY NoReqFields DEF Handler
  <2> HIDE DEF x
  <2>4. Begins(x)
    BY <2>2, <2>3 DEF Begins, Fits, AuthGood, CollegeGood, EnrolGood, TenantGood, PanelGood
  <2> QED
    BY <2>1, <2>4, Placed
<1>8. ASSUME NEW r \in Requests, OnboardingCount(r) PROVE Fitting
  <2> DEFINE c == req[r].college
             n == Cardinality(step[c])
             x == [req[r] EXCEPT !.op = "percent", !.n = n]
  <2>1. req[r].op = "count" /\ req' = [req EXCEPT ![r].op = "percent", ![r].n = n] /\ step' = step
    BY <1>8 DEF OnboardingCount, tenantRows
  <2>2. c \in Colleges
    BY <1>1, <2>1 DEF TenantGood
  <2>3. n \in Nat
    BY <1>1, <2>2, Constants, FS_Subset, FS_CardinalityType
  <2>4. n = Cardinality(step'[c]) /\ c = req[r].college
    BY <2>1
  <2> HIDE DEF n, c
  <2>5. req' = [req EXCEPT ![r] = x]
    BY <1>1, <2>1
  <2>6. Handler(x) /\ x.op = "percent" /\ x.college = c /\ x.n = n
    BY <1>1, <2>4 DEF Handler
  <2> HIDE DEF x
  <2>7. TenantGood(x, profile', subscribed', step', lapped', snapshots')
    BY <2>2, <2>3, <2>4, <2>6 DEF TenantGood
  <2>8. Begins(x)
    BY <2>6, <2>7 DEF Begins, Fits, AuthGood, CollegeGood, EnrolGood, PanelGood
  <2> QED
    BY <2>5, <2>8, Placed
<1>9. ASSUME NEW r \in Requests, NEW u, NEW c \in Colleges, NEW p \in Plans, PlatformChangePlan(r, u, c, p)
      PROVE  Fitting
  <2> DEFINE D == DOMAIN PlanFeature[p]
             x == [NoReq EXCEPT !.op = "sync", !.college = c, !.data = p, !.todo = D]
  <2>1. req' = [req EXCEPT ![r] = x] /\ subscribed' = [subscribed EXCEPT ![c] = @ \cup {p}]
    BY <1>9 DEF PlatformChangePlan
  <2> HIDE DEF D
  <2>2. Handler(x) /\ x.op = "sync" /\ x.college = c /\ x.data = p /\ x.todo = D
    BY NoReqFields DEF Handler
  <2>3. p \in subscribed'[c]
    BY <1>1, <2>1
  <2> HIDE DEF x
  <2>4. TenantGood(x, profile', subscribed', step', lapped', snapshots')
    BY <2>2, <2>3 DEF TenantGood, D
  <2>5. Begins(x)
    BY <2>2, <2>4 DEF Begins, Fits, AuthGood, CollegeGood, EnrolGood, PanelGood
  <2> QED
    BY <2>1, <2>5, Placed
<1>10. ASSUME NEW r \in Requests, SyncEntitlement(r) PROVE Fitting
  <2>1. /\ req[r].op = "sync" /\ subscribed' = subscribed
        /\ Done(r) \/ \E f \in req[r].todo : req' = [req EXCEPT ![r].todo = @ \ {f}]
    BY <1>10 DEF SyncEntitlement
  <2>2. /\ req[r].college \in Colleges /\ req[r].data \in subscribed[req[r].college]
        /\ req[r].data \in Plans /\ req[r].todo \subseteq DOMAIN PlanFeature[req[r].data]
    BY <1>1, <2>1 DEF TenantGood
  <2>3. ASSUME NEW f \in req[r].todo, req' = [req EXCEPT ![r].todo = @ \ {f}] PROVE Fitting
    <3> DEFINE t == req[r].todo \ {f}
               x == [req[r] EXCEPT !.todo = t]
    <3>1. t \subseteq DOMAIN PlanFeature[req[r].data]
      BY <2>2
    <3>2. req' = [req EXCEPT ![r] = x]
      BY <1>1, <2>3
    <3> HIDE DEF t
    <3>3. Handler(x) /\ x.op = "sync" /\ x.college = req[r].college /\ x.data = req[r].data /\ x.todo = t
      BY <1>1, <2>1 DEF Handler
    <3> HIDE DEF x
    <3>4. TenantGood(x, profile', subscribed', step', lapped', snapshots')
      BY <2>1, <2>2, <3>1, <3>3 DEF TenantGood
    <3>5. Begins(x)
      BY <3>3, <3>4 DEF Begins, Fits, AuthGood, CollegeGood, EnrolGood, PanelGood
    <3> QED
      BY <3>2, <3>5, Placed
  <2> QED
    BY <2>1, <2>3, DoneFits
<1>11. ASSUME NEW r \in Requests, NEW u \in Users, UpdateBranding(r, u) PROVE Fitting
  <2> DEFINE c == user[u].college
             n == branding[c]
             o == IF n = 0 THEN "brand" ELSE "snapshot"
             x == [NoReq EXCEPT !.op = o, !.college = c, !.n = n]
  <2>1. c # None /\ req' = [req EXCEPT ![r] = x] /\ snapshots' = snapshots
    BY <1>11 DEF UpdateBranding, TenantCall, tenantRows
  <2>2. /\ c \in Colleges /\ n \in 0..MaxVersion /\ (n = 0 => o = "brand") /\ (n # 0 => o = "snapshot")
        /\ \A v \in 1..MaxVersion : v < n => v \in snapshots[c]
    BY <1>1, <1>2, <2>1 DEF BrandingHistory
  <2> HIDE DEF o, n, c
  <2>3. Handler(x) /\ x.op = o /\ x.college = c /\ x.n = n
    BY NoReqFields DEF Handler
  <2> HIDE DEF x
  <2>4. TenantGood(x, profile', subscribed', step', lapped', snapshots')
    BY <2>1, <2>2, <2>3, Constants DEF TenantGood
  <2>5. Begins(x)
    BY <2>2, <2>3, <2>4 DEF Begins, Fits, AuthGood, CollegeGood, EnrolGood, PanelGood
  <2> QED
    BY <2>1, <2>5, Placed
<1>12. ASSUME NEW r \in Requests, BrandingSnapshot(r) PROVE Fitting
  <2> DEFINE x == [req[r] EXCEPT !.op = "brand"]
             c == req[r].college
             n == req[r].n
  <2>1. /\ req[r].op = "snapshot"
        /\ \/ Done(r)
           \/ req' = [req EXCEPT ![r] = x] /\ snapshots' = [snapshots EXCEPT ![c] = @ \cup {n}]
    BY <1>12 DEF BrandingSnapshot
  <2>2. /\ c \in Colleges /\ n \in 0..MaxVersion
        /\ \A v \in 1..MaxVersion : v < n => v \in snapshots[c]
    BY <1>1, <2>1 DEF TenantGood
  <2>3. Handler(x) /\ x.op = "brand" /\ x.college = c /\ x.n = n
    BY <1>1 DEF Handler
  <2> HIDE DEF x, c, n
  <2>4. ASSUME snapshots' = [snapshots EXCEPT ![c] = @ \cup {n}] PROVE Begins(x)
    <3>1. snapshots'[c] = snapshots[c] \cup {n}
      BY <1>1, <2>2, <2>4
    <3>2. TenantGood(x, profile', subscribed', step', lapped', snapshots')
      BY <2>2, <2>3, <3>1 DEF TenantGood
    <3> QED
      BY <2>3, <3>2 DEF Begins, Fits, AuthGood, CollegeGood, EnrolGood, PanelGood
  <2> QED
    BY <2>1, <2>4, Placed, DoneFits
<1>13. ASSUME NEW r, NEW u, NEW c, NEW y, NEW b,
              \/ Webhook(r) \/ SetLifecycle(r, u, c, y) \/ CreateDomain(r, u)
              \/ CreateSupportTicket(r, u) \/ ReplySupportTicket(r, u, b) \/ CreatePushToken(r, u)
       PROVE  Fitting
  BY <1>13 DEF Webhook, SetLifecycle, CreateDomain, CreateSupportTicket, ReplySupportTicket,
     CreatePushToken, Fitting
<1> QED
  BY <1>3, <1>4, <1>5, <1>6, <1>7, <1>8, <1>9, <1>10, <1>11, <1>12, <1>13 DEF TenancyNext

\* A handler that begins to record its change.
LEMMA ChangeFits ==
  ASSUME PlatformInv, NEW r \in Requests, NEW c \in Scopes, Change(r, c)
  PROVE  Fitting
<1> DEFINE x == [NoReq EXCEPT !.op = "record", !.college = c]
<1>1. Handler(x) /\ x.op = "record" /\ x.college = c
  BY NoReqFields DEF Handler
<1>2. req' = [req EXCEPT ![r] = x]
  BY DEF Change
<1> HIDE DEF x
<1>3. Fits(x)
  BY <1>1 DEF Fits, AuthGood, CollegeGood, EnrolGood, TenantGood, PanelGood
<1>4. req = [y \in Requests |-> req[y]]
  BY DEF PlatformInv, HandlersFormed
<1>5. req'[r] = x /\ \A y \in Requests : y # r => req'[y] = req[y]
  BY <1>2, <1>4
<1>6. Records(r)
  BY <1>1, <1>3, <1>5 DEF Records
<1> QED
  BY <1>5, <1>6 DEF Fitting

\* Settings are those of a college.
LEMMA SettingsCollege ==
  ASSUME PlatformInv, NEW u \in Users, NEW a \in Scopes, NEW c \in SettingsColleges(u, a)
  PROVE  c \in Colleges
<1>1. user[u].college \in Scopes
  BY DEF PlatformInv, AccTypeOK, AccountsTypeOK, Scopes
<1> QED
  BY <1>1, Constants DEF SettingsColleges, PanelScopes, Scopes

\* The handlers of AdminPanelService.
LEMMA PanelFits == PlatformInv /\ [PlatformNext]_panelVars /\ PanelNext => Fitting
<1> SUFFICES ASSUME PlatformInv, [PlatformNext]_panelVars, PanelNext PROVE Fitting
  OBVIOUS
<1>1. /\ requests \in 0..MaxRequests /\ (\A u \in Users : user[u].college \in Scopes)
      /\ (\A n \in Notices : Notice[n].college \in Scopes)
      /\ \A r \in Requests : PanelGood(req[r])
  BY AdministrationAssumption DEF PlatformInv, AccTypeOK, AccountsTypeOK, HandlersGood, Scopes
<1>2. ASSUME NEW r \in Requests, NEW u \in Users, NEW a \in Scopes, NEW g, UpdateCollegeSettings(r, u, a, g)
      PROVE  Fitting
  <2>1. PICK c \in SettingsColleges(u, a) :
          req' = [req EXCEPT ![r] = [NoReq EXCEPT !.op = "settings", !.college = c, !.n = requests', !.todo = g]]
    BY <1>2 DEF UpdateCollegeSettings
  <2>2. c \in Colleges
    BY SettingsCollege
  <2>3. requests' \in 0..MaxRequests
    BY <1>1, <1>2, Constants DEF UpdateCollegeSettings, Call, Begin
  <2>4. PICK m \in 0..MaxRequests : m = requests'
    BY <2>3
  <2> DEFINE x == [NoReq EXCEPT !.op = "settings", !.college = c, !.n = m, !.todo = g]
  <2>5. Handler(x) /\ x.op = "settings" /\ x.college = c /\ x.n = m
    BY NoReqFields DEF Handler
  <2>6. req' = [req EXCEPT ![r] = x]
    BY <2>1, <2>4
  <2> HIDE DEF x
  <2>7. Begins(x)
    BY <2>2, <2>5 DEF Begins, Fits, AuthGood, CollegeGood, EnrolGood, TenantGood, PanelGood
  <2> QED
    BY <2>6, <2>7, Placed
<1>3. ASSUME NEW r \in Requests, WriteCollegeSettings(r) PROVE Fitting
  <2>1. req[r].op = "settings" /\ (Done(r) \/ Change(r, req[r].college))
    BY <1>3 DEF WriteCollegeSettings
  <2>2. req[r].college \in Scopes
    BY <1>1, <2>1 DEF PanelGood, Scopes
  <2> QED
    BY <2>1, <2>2, DoneFits, ChangeFits
<1>4. ASSUME NEW r \in Requests, NEW u \in Users, NEW a, UpdateProfile(r, u, a) PROVE Fitting
  BY <1>1, <1>4, ChangeFits DEF UpdateProfile
<1>5. ASSUME NEW r \in Requests, NEW u \in Users, NEW t \in Users, NEW g, UpsertPermission(r, u, t, g)
      PROVE  Fitting
  BY <1>1, <1>5, ChangeFits DEF UpsertPermission
<1>6. ASSUME NEW r \in Requests, NEW u \in Users, NEW n \in Notices, MarkNotificationRead(r, u, n)
      PROVE  Fitting
  <2> DEFINE x == [NoReq EXCEPT !.op = "mark-read", !.data = n]
  <2>1. req' = [req EXCEPT ![r] = x]
    BY <1>6 DEF MarkNotificationRead
  <2>2. Handler(x) /\ x.op = "mark-read" /\ x.data = n
    BY NoReqFields DEF Handler
  <2> HIDE DEF x
  <2>3. Begins(x)
    BY <2>2 DEF Begins, Fits, AuthGood, CollegeGood, EnrolGood, TenantGood, PanelGood
  <2> QED
    BY <2>1, <2>3, Placed
<1>7. ASSUME NEW r \in Requests, WriteNotificationRead(r) PROVE Fitting
  <2>1. req[r].op = "mark-read" /\ Change(r, Notice[req[r].data].college)
    BY <1>7 DEF WriteNotificationRead
  <2>2. req[r].data \in Notices
    BY <1>1, <2>1 DEF PanelGood
  <2> QED
    BY <1>1, <2>1, <2>2, ChangeFits
<1>8. ASSUME NEW r \in Requests, Record(r) PROVE Fitting
  BY <1>8, DoneFits DEF Record
<1>9. ASSUME NEW r, NEW u, NEW a, ReadCollegeSettings(r, u, a) PROVE Fitting
  BY <1>9 DEF ReadCollegeSettings, Fitting
<1> QED
  BY <1>2, <1>3, <1>4, <1>5, <1>6, <1>7, <1>8, <1>9 DEF PanelNext

\* Every step leaves the handlers as they should be.
LEMMA Fitted == PlatformInv /\ [PlatformNext]_panelVars => Fitting
<1> SUFFICES ASSUME PlatformInv, [PlatformNext]_panelVars PROVE Fitting
  OBVIOUS
<1>1. PanelCrash => Fitting
  BY CrashLeaves, FitsIdle DEF Fitting
<1>2. StructureNext \/ PersonNext \/ UNCHANGED panelVars => Fitting
  <2>1. StructureNext \/ PersonNext \/ UNCHANGED panelVars => req' = req
    BY StructureLeaves, PersonLeaves DEF panelVars, tenantVars, enrolVars, accountVars
  <2> QED
    BY <2>1 DEF Fitting
<1> QED
  BY <1>1, <1>2, AuthFits, CollegesFit, EnrolFits, TenancyFits, PanelFits DEF PlatformNext

\* So what they know is true at all times.
LEMMA HandlersStep == PlatformInv /\ [PlatformNext]_panelVars => HandlersFormed' /\ HandlersGood'
<1> SUFFICES ASSUME PlatformInv, [PlatformNext]_panelVars PROVE HandlersFormed' /\ HandlersGood'
  OBVIOUS
<1>1. ASSUME NEW r \in Requests PROVE Fits(req'[r])
  BY Fitted, FitsKept DEF Fitting, Begins, Records
<1>2. req' = [r \in Requests |-> req'[r]]
  BY SlotsMove, CrashLeaves DEF Slots
<1>3. HandlersFormed'
  BY <1>1, <1>2 DEF HandlersFormed, Fits
<1>4. HandlersGood'
  BY <1>1 DEF HandlersGood, Fits
<1> QED
  BY <1>3, <1>4

-----------------------------------------------------------------------------
(* Lockouts and what a refresh leaves behind. *)

RateRow == [n : 0..(LoginLimit + 1), ttl : BOOLEAN]

\* A counter stops at the limit.
LEMMA Bumps == \A n \in 0..(LoginLimit + 1) : Bump(n) \in 0..(LoginLimit + 1)
  BY Constants DEF Bump

\* The counter of a user: the first attempt of a window sets out to make it
\* expire.
RateMove(u) ==
    \/ rate'[u] = rate[u]
    \/ rate'[u] \in RateRow /\ rate'[u].ttl = rate[u].ttl /\ (rate[u].n > 0 \/
          \E r \in Requests : req'[r].op = "expire" /\ req'[r].user = u)
    \/ rate'[u] \in RateRow /\ (rate'[u].ttl \/ rate'[u].n = 0)

\* How a login counter may change in one step.
LEMMA RateStep ==
  PlatformInv /\ [PlatformNext]_panelVars =>
    /\ rate' \in [Users -> RateRow] /\ \A u \in Users : RateMove(u)
<1> DEFINE Good == rate' \in [Users -> RateRow] /\ \A u \in Users : RateMove(u)
<1> SUFFICES ASSUME PlatformInv, [PlatformNext]_panelVars PROVE Good
  OBVIOUS
<1>1. rate \in [Users -> RateRow] /\ (req = [r \in Requests |-> req[r]])
  BY DEF PlatformInv, AccTypeOK, AccountsTypeOK, RateRow, HandlersFormed
<1>2. ASSUME rate' = rate PROVE Good
  BY <1>1, <1>2 DEF RateMove
<1>3. ASSUME NEW u \in Users, NEW x \in RateRow, rate' = [rate EXCEPT ![u] = x],
             rate'[u] = x => RateMove(u)
      PROVE  Good
  <2>1. /\ rate' \in [Users -> RateRow] /\ rate'[u] = x
        /\ \A v \in Users : v # u => rate'[v] = rate[v]
    BY <1>1, <1>3
  <2> QED
    BY <1>3, <2>1 DEF RateMove
<1>4. ASSUME NEW r \in Requests, NEW u \in Users, Login(r, u) PROVE Good
  <2> DEFINE m == Bump(rate[u].n)
             x == [rate[u] EXCEPT !.n = m]
             q == [NoReq EXCEPT !.op = "expire", !.user = u, !.n = 0]
  <2>1. \/ rate' = rate
        \/ rate' = [rate EXCEPT ![u].n = m] /\ (rate[u].n = 0 => req' = [req EXCEPT ![r] = q])
    <3>1. rate[u].n = 0 => ~(rate[u].n >= LoginLimit)
      BY Constants
    <3> QED
      BY <1>4, <3>1 DEF Login, Step
  <2>2. m \in 0..(LoginLimit + 1)
    BY <1>1, Bumps DEF RateRow
  <2> HIDE DEF m
  <2>3. x \in RateRow /\ x.ttl = rate[u].ttl
    BY <1>1, <2>2 DEF RateRow
  <2>4. rate' = rate \/ (rate' = [rate EXCEPT ![u] = x] /\ (rate[u].n = 0 => req' = [req EXCEPT ![r] = q]))
    BY <2>1
  <2>5. q.op = "expire" /\ q.user = u
    BY NoReqFields DEF Handler
  <2> HIDE DEF q, x
  <2>6. rate[u].n > 0 \/ rate[u].n = 0
    BY <1>1, Constants DEF RateRow
  <2>7. req' = [req EXCEPT ![r] = q] => req'[r].op = "expire" /\ req'[r].user = u
    BY <1>1, <2>5
  <2>8. ASSUME rate' = [rate EXCEPT ![u] = x], rate[u].n = 0 => req' = [req EXCEPT ![r] = q],
               rate'[u] = x
        PROVE  RateMove(u)
    BY <2>3, <2>6, <2>7, <2>8 DEF RateMove
  <2> QED
    BY <1>2, <1>3, <2>3, <2>4, <2>8
<1>5. ASSUME NEW r \in Requests, LoginExpire(r) PROVE Good
  <2> DEFINE u == req[r].user
  <2>1. req[r].op = "expire" /\ (rate' = rate \/ rate' = [rate EXCEPT ![u].ttl = TRUE])
    BY <1>5 DEF LoginExpire
  <2>2. u \in Users
    BY <2>1 DEF PlatformInv, HandlersGood, AuthGood
  <2> HIDE DEF u
  <2>3. PICK b \in BOOLEAN : b = TRUE
    OBVIOUS
  <2> DEFINE x == [rate[u] EXCEPT !.ttl = b]
  <2>4. x \in RateRow /\ x.ttl = b
    BY <1>1, <2>2 DEF RateRow
  <2>5. rate' = rate \/ rate' = [rate EXCEPT ![u] = x]
    BY <2>1, <2>3
  <2> HIDE DEF x
  <2>6. rate'[u] = x => RateMove(u)
    BY <2>3, <2>4 DEF RateMove
  <2> QED
    BY <1>2, <1>3, <2>2, <2>4, <2>5, <2>6
<1>6. ASSUME NEW u \in Users, WindowEnds(u) PROVE Good
  <2>1. PICK b \in BOOLEAN : b = FALSE
    OBVIOUS
  <2> DEFINE x == [n |-> 0, ttl |-> b]
  <2>2. rate' = rate \/ rate' = [rate EXCEPT ![u] = x]
    BY <1>6, <2>1 DEF WindowEnds
  <2>3. x \in RateRow /\ x.n = 0
    BY Constants DEF RateRow
  <2> HIDE DEF x
  <2>4. rate'[u] = x => RateMove(u)
    BY <2>3 DEF RateMove
  <2> QED
    BY <1>2, <1>3, <2>2, <2>3, <2>4
<1>7. ASSUME AuthNext PROVE Good
  <2>1. ASSUME NEW r, NEW u, NEW s, NEW t, NEW b,
               \/ LoginLookup(r) \/ LoginCreate(r) \/ Refresh(r, s) \/ RefreshCreate(r) \/ RefreshMark(r)
               \/ Logout(r, u, s) \/ RequestPasswordReset(r, u) \/ IssueReset(r) \/ ResetPassword(r, t)
               \/ ResetWrite(r) \/ AccessExpires(u) \/ UpdateMaintenance(u, b) \/ SessionExpires(s)
        PROVE  rate' = rate
    BY <2>1 DEF LoginLookup, LoginCreate, Refresh, RefreshCreate, RefreshMark, Logout,
       RequestPasswordReset, IssueReset, ResetPassword, ResetWrite, AccessExpires, UpdateMaintenance,
       SessionExpires, gateRows
  <2> HIDE DEF Good
  <2> QED
    BY <1>2, <1>4, <1>5, <1>6, <1>7, <2>1 DEF AuthNext
<1>8. ~AuthNext => rate' = rate
  BY CollegesLeave, StructureLeaves, EnrolLeaves, PersonLeaves, TenancyLeaves, PanelLeaves, CrashLeaves
     DEF PlatformNext, gateRows, serviceRows, accountRows, panelVars, tenantVars, enrolVars, accountVars
<1> QED
  BY <1>2, <1>7, <1>8

\* A counter that lost its expiry stays known.
LEMMA UnexpiringStep ==
  PlatformInv /\ [PlatformNext]_panelVars => unexpiring' \in SUBSET Users /\ unexpiring \subseteq unexpiring'
<1> DEFINE Good == unexpiring' \in SUBSET Users /\ unexpiring \subseteq unexpiring'
<1> SUFFICES ASSUME PlatformInv, [PlatformNext]_panelVars PROVE Good
  OBVIOUS
<1>1. unexpiring \subseteq Users /\ (\A r \in Requests : req[r].op = "expire" => req[r].user \in Users)
  BY DEF PlatformInv, AccTypeOK, AccountsTypeOK, HandlersGood, AuthGood
<1>2. ASSUME unexpiring' = unexpiring PROVE Good
  BY <1>1, <1>2
<1>3. ASSUME NEW r \in Requests, LoginExpire(r) PROVE Good
  <2>1. req[r].op = "expire" /\ unexpiring' \in {unexpiring, unexpiring \cup {req[r].user}}
    BY <1>3 DEF LoginExpire
  <2> QED
    BY <1>1, <2>1
<1>4. ASSUME PanelCrash PROVE Good
  <2>1. unexpiring' = unexpiring \cup {req[r].user : r \in {x \in Requests : req[x].op = "expire"}}
    BY <1>4 DEF PanelCrash, Crash, CrashAccounts
  <2> QED
    BY <1>1, <2>1
<1>5. ASSUME AuthNext PROVE Good
  <2>1. ASSUME NEW r, NEW u, NEW s, NEW t, NEW b,
               \/ Login(r, u) \/ WindowEnds(u)
               \/ LoginLookup(r) \/ LoginCreate(r) \/ Refresh(r, s) \/ RefreshCreate(r) \/ RefreshMark(r)
               \/ Logout(r, u, s) \/ RequestPasswordReset(r, u) \/ IssueReset(r) \/ ResetPassword(r, t)
               \/ ResetWrite(r) \/ AccessExpires(u) \/ UpdateMaintenance(u, b) \/ SessionExpires(s)
        PROVE  unexpiring' = unexpiring
    BY <2>1 DEF Login, WindowEnds, LoginLookup, LoginCreate, Refresh, RefreshCreate, RefreshMark, Logout,
       RequestPasswordReset, IssueReset, ResetPassword, ResetWrite, AccessExpires, UpdateMaintenance,
       SessionExpires, gateRows
  <2> HIDE DEF Good
  <2> QED
    BY <1>2, <1>3, <1>5, <2>1 DEF AuthNext
<1>6. ~AuthNext /\ ~PanelCrash => unexpiring' = unexpiring
  BY CollegesLeave, StructureLeaves, EnrolLeaves, PersonLeaves, TenancyLeaves, PanelLeaves
     DEF PlatformNext, gateRows, serviceRows, accountRows, panelVars, tenantVars, enrolVars, accountVars
<1> QED
  BY <1>2, <1>4, <1>5, <1>6

\* A counter has its expiry, or a handler is on its way to set it.
LEMMA LockoutStep == PlatformInv /\ [PlatformNext]_panelVars => LockoutEnds'
<1> SUFFICES ASSUME PlatformInv, [PlatformNext]_panelVars, NEW u \in Users, rate'[u].n > 0
             PROVE  rate'[u].ttl \/ u \in unexpiring'
                    \/ \E r \in Requests : req'[r].op = "expire" /\ req'[r].user = u
  BY DEF LockoutEnds
<1> DEFINE Good == rate'[u].ttl \/ u \in unexpiring'
                   \/ \E r \in Requests : req'[r].op = "expire" /\ req'[r].user = u
<1>1. RateMove(u) /\ unexpiring \subseteq unexpiring' /\ rate'[u] \in RateRow /\ rate[u] \in RateRow
  BY RateStep, UnexpiringStep DEF PlatformInv, AccTypeOK, AccountsTypeOK, RateRow
<1>2. ASSUME rate[u].n > 0, rate'[u].ttl = rate[u].ttl PROVE Good
  <2>1. rate[u].ttl \/ u \in unexpiring \/ \E r \in Requests : req[r].op = "expire" /\ req[r].user = u
    BY <1>2 DEF PlatformInv, SessionsEnd, LockoutEnds
  <2>2. ASSUME NEW r \in Requests, req[r].op = "expire", req[r].user = u PROVE Good
    <3>1. CASE req'[r] = req[r]
      BY <2>2, <3>1
    <3>2. CASE PanelCrash
      BY <2>2, <3>2 DEF PanelCrash, Crash, CrashAccounts
    <3>3. CASE ~PanelCrash /\ req'[r] # req[r]
      <4>1. rate' = [rate EXCEPT ![u].ttl = TRUE] \/ unexpiring' = unexpiring \cup {u}
        BY <2>2, <3>3, GoesOn DEF LoginExpire
      <4>2. rate \in [Users -> RateRow]
        BY DEF PlatformInv, AccTypeOK, AccountsTypeOK, RateRow
      <4>3. rate' = [rate EXCEPT ![u].ttl = TRUE] => rate'[u].ttl
        BY <4>2 DEF RateRow
      <4> QED
        BY <4>1, <4>3
    <3> QED
      BY <3>1, <3>2, <3>3
  <2> QED
    BY <1>1, <1>2, <2>1, <2>2
<1>3. rate'[u].n \in Nat /\ rate[u].n \in Nat
  BY <1>1, Constants DEF RateRow
<1>4. CASE rate'[u] = rate[u]
  BY <1>2, <1>4
<1>5. CASE rate'[u].ttl \/ rate'[u].n = 0
  BY <1>3, <1>5
<1> QED
  BY <1>1, <1>2, <1>4, <1>5 DEF RateMove

\* A refreshed token is revoked, or the refresh is on its way to it.
LEMMA ParentStep ==
  PlatformInv /\ [PlatformNext]_panelVars => ParentRetired' /\ unmarked' \in SUBSET Sessions
<1> SUFFICES ASSUME PlatformInv, [PlatformNext]_panelVars PROVE ParentRetired' /\ unmarked' \in SUBSET Sessions
  OBVIOUS
<1>1. /\ unmarked \subseteq Sessions /\ session \in [Sessions -> SessionRow] /\ SessionRows /\ ParentRetired
      /\ \A r \in Requests : req[r].op = "mark" => req[r].id \in Sessions
  BY DEF PlatformInv, AccTypeOK, AccountsTypeOK, SessionRow, SessionsEnd, HandlersGood, AuthGood
<1>2. PanelCrash \/ unmarked' = unmarked
  BY AuthLeaves, CollegesLeave, StructureLeaves, EnrolLeaves, PersonLeaves, TenancyLeaves, PanelLeaves
     DEF PlatformNext, serviceRows, accountRows, panelVars, tenantVars, enrolVars, accountVars
<1>3. PanelCrash => unmarked' = unmarked \cup {req[r].id : r \in {x \in Requests : req[x].op = "mark"}}
  BY DEF PanelCrash, Crash, CrashAccounts
<1>4. unmarked' \in SUBSET Sessions /\ unmarked \subseteq unmarked'
  BY <1>1, <1>2, <1>3
<1>5. ASSUME NEW s \in Sessions, session'[s].state = "live", session'[s].parent # 0,
             NEW p, p = session'[s].parent
      PROVE  \/ session'[p].state # "live" \/ p \in unmarked'
             \/ \E r \in Requests : req'[r].op = "mark" /\ req'[r].id = p
  <2>1. CASE Opened(s)
    BY <1>5, <2>1 DEF Opened
  <2>2. CASE Closed(s)
    BY <1>1, <1>5, <2>2 DEF Closed, SessionRow
  <2>3. CASE session'[s] = session[s]
    <3>1. p \in Sessions /\ session[p].state # "none"
      BY <1>1, <1>5, <2>3, Constants DEF SessionRows, SessionRow, Sessions
    <3>2. SessionMove(p)
      BY <3>1, SessionsMove
    <3>3. CASE session[p].state # "live"
      BY <1>1, <3>1, <3>2, <3>3 DEF SessionMove, Opened, Closed, SessionRow
    <3>4. CASE p \in unmarked
      BY <1>4, <3>4
    <3>5. ASSUME NEW r \in Requests, req[r].op = "mark", req[r].id = p
          PROVE  \/ session'[p].state # "live" \/ p \in unmarked'
                 \/ \E y \in Requests : req'[y].op = "mark" /\ req'[y].id = p
      <4>1. CASE req'[r] = req[r]
        BY <3>5, <4>1
      <4>2. CASE PanelCrash
        BY <1>3, <3>5, <4>2
      <4>3. CASE ~PanelCrash /\ req'[r] # req[r]
        <5>1. session' = [session EXCEPT ![p].state = "revoked"]
          BY <3>5, <4>3, GoesOn DEF RefreshMark
        <5>2. session'[p].state = "revoked"
          BY <1>1, <3>1, <5>1 DEF SessionRow
        <5> QED
          BY <5>2
      <4> QED
        BY <4>1, <4>2, <4>3
    <3>6. \/ session[p].state # "live" \/ p \in unmarked
          \/ \E r \in Requests : req[r].op = "mark" /\ req[r].id = p
      BY <1>1, <1>5, <2>3 DEF ParentRetired
    <3> QED
      BY <3>3, <3>4, <3>5, <3>6
  <2>4. SessionMove(s)
    BY SessionsMove
  <2> QED
    BY <2>1, <2>2, <2>3, <2>4 DEF SessionMove
<1>6. ParentRetired'
  BY <1>5 DEF ParentRetired
<1> QED
  BY <1>4, <1>6

-----------------------------------------------------------------------------
(* The rest of the rows. *)

\* The counters of the process.
LEMMA LocalRateStep == PlatformInv /\ [PlatformNext]_panelVars => localRate' \in [Users -> 0..(LoginLimit + 1)]
<1> DEFINE Good == localRate' \in [Users -> 0..(LoginLimit + 1)]
<1> SUFFICES ASSUME PlatformInv, [PlatformNext]_panelVars PROVE Good
  OBVIOUS
<1>1. localRate \in [Users -> 0..(LoginLimit + 1)]
  BY DEF PlatformInv, AccTypeOK, AccountsTypeOK
<1>2. ASSUME localRate' = localRate PROVE Good
  BY <1>1, <1>2
<1>3. ASSUME NEW u, NEW n \in 0..(LoginLimit + 1), localRate' = [localRate EXCEPT ![u] = n] PROVE Good
  BY <1>1, <1>3
<1>4. ASSUME NEW r, NEW u, LocalLimit(r, u) PROVE Good
  <2>1. CASE u \in Users
    <3> DEFINE n == Bump(localRate[u])
    <3>1. n \in 0..(LoginLimit + 1) /\ localRate' = [localRate EXCEPT ![u] = n]
      BY <1>1, <1>4, <2>1, Bumps DEF LocalLimit
    <3> HIDE DEF n
    <3> QED
      BY <1>3, <3>1
  <2>2. CASE u \notin Users
    <3>1. localRate' = localRate
      BY <1>1, <1>4, <2>2 DEF LocalLimit
    <3> QED
      BY <1>2, <3>1
  <2> QED
    BY <2>1, <2>2
<1>5. ASSUME NEW r, NEW u, Login(r, u) \/ LoginExpire(r) \/ WindowEnds(u) PROVE Good
  <2>1. \/ localRate' = localRate \/ (\E v : LocalLimit(r, v)) \/ localRate' = [localRate EXCEPT ![u] = 0]
    BY <1>5 DEF Login, LoginExpire, WindowEnds
  <2>2. 0 \in 0..(LoginLimit + 1)
    BY Constants
  <2> QED
    BY <1>2, <1>3, <1>4, <2>1, <2>2
<1>6. ASSUME PanelCrash PROVE Good
  BY <1>6, Constants DEF PanelCrash, Crash, CrashAccounts
<1>7. ASSUME AuthNext PROVE Good
  <2>1. ASSUME NEW r, NEW u, NEW s, NEW t, NEW b,
               \/ LoginLookup(r) \/ LoginCreate(r) \/ Refresh(r, s) \/ RefreshCreate(r) \/ RefreshMark(r)
               \/ Logout(r, u, s) \/ RequestPasswordReset(r, u) \/ IssueReset(r) \/ ResetPassword(r, t)
               \/ ResetWrite(r) \/ AccessExpires(u) \/ UpdateMaintenance(u, b) \/ SessionExpires(s)
        PROVE  localRate' = localRate
    BY <2>1 DEF LoginLookup, LoginCreate, Refresh, RefreshCreate, RefreshMark, Logout,
       RequestPasswordReset, IssueReset, ResetPassword, ResetWrite, AccessExpires, UpdateMaintenance,
       SessionExpires, gateRows
  <2> HIDE DEF Good
  <2> QED
    BY <1>2, <1>5, <1>7, <2>1 DEF AuthNext
<1>8. ~AuthNext /\ ~PanelCrash => localRate' = localRate
  BY CollegesLeave, StructureLeaves, EnrolLeaves, PersonLeaves, TenancyLeaves, PanelLeaves
     DEF PlatformNext, gateRows, serviceRows, accountRows, panelVars, tenantVars, enrolVars, accountVars
<1> QED
  BY <1>2, <1>6, <1>7, <1>8

\* Access tokens are handed out to users, and maintenance is on or off.
LEMMA GateStep ==
  PlatformInv /\ [PlatformNext]_panelVars => access' \in SUBSET Users /\ maintenance' \in BOOLEAN
<1> SUFFICES ASSUME PlatformInv, [PlatformNext]_panelVars
             PROVE  access' \in SUBSET Users /\ maintenance' \in BOOLEAN
  OBVIOUS
<1>1. /\ access \in SUBSET Users /\ maintenance \in BOOLEAN
      /\ \A r \in Requests : req[r].op \in {"create", "refresh"} => req[r].user \in Users
  BY DEF PlatformInv, AccTypeOK, AccountsTypeOK, HandlersGood, AuthGood
<1>2. ASSUME NEW r \in Requests, LoginCreate(r) \/ RefreshCreate(r)
      PROVE  access' \in SUBSET Users /\ maintenance' = maintenance
  BY <1>1, <1>2 DEF LoginCreate, RefreshCreate, NewSession, gateRows
<1>3. ASSUME NEW u, AccessExpires(u) PROVE access' \in SUBSET Users /\ maintenance' = maintenance
  BY <1>1, <1>3 DEF AccessExpires, gateRows
<1>4. ASSUME NEW u, NEW b \in BOOLEAN, UpdateMaintenance(u, b) PROVE access' = access /\ maintenance' \in BOOLEAN
  BY <1>4 DEF UpdateMaintenance, authRows
<1>5. ASSUME NEW r, NEW u, NEW s, NEW t,
             \/ Login(r, u) \/ LoginExpire(r) \/ WindowEnds(u)
             \/ LoginLookup(r) \/ Refresh(r, s) \/ RefreshMark(r)
             \/ Logout(r, u, s) \/ RequestPasswordReset(r, u) \/ IssueReset(r) \/ ResetPassword(r, t)
             \/ ResetWrite(r) \/ SessionExpires(s)
      PROVE  access' = access /\ maintenance' = maintenance
  BY <1>5 DEF Login, LoginExpire, WindowEnds, LoginLookup, Refresh, RefreshMark, Logout,
     RequestPasswordReset, IssueReset, ResetPassword, ResetWrite, SessionExpires, authRows, gateRows
<1>6. AuthNext => access' \in SUBSET Users /\ maintenance' \in BOOLEAN
  BY <1>1, <1>2, <1>3, <1>4, <1>5 DEF AuthNext
<1>7. ~AuthNext => access' = access /\ maintenance' = maintenance
  BY CollegesLeave, StructureLeaves, EnrolLeaves, PersonLeaves, TenancyLeaves, PanelLeaves, CrashLeaves
     DEF PlatformNext, gateRows, serviceRows, accountRows, authRows, panelVars, tenantVars, enrolVars, accountVars
<1> QED
  BY <1>1, <1>6, <1>7

\* The bound on restarts.
LEMMA CrashesStep == PlatformInv /\ [PlatformNext]_panelVars => crashes' \in 0..MaxCrashes
<1> SUFFICES ASSUME PlatformInv, [PlatformNext]_panelVars PROVE crashes' \in 0..MaxCrashes
  OBVIOUS
<1>1. crashes \in 0..MaxCrashes
  BY DEF PlatformInv, AccTypeOK, AccountsTypeOK
<1>2. PanelCrash => crashes' \in 0..MaxCrashes
  BY <1>1, Constants DEF PanelCrash, Crash, CrashAccounts
<1>3. ~PanelCrash => crashes' = crashes
  BY AuthLeaves, CollegesLeave, StructureLeaves, EnrolLeaves, PersonLeaves, TenancyLeaves, PanelLeaves
     DEF PlatformNext, serviceRows, accountRows, panelVars, tenantVars, enrolVars, accountVars
<1> QED
  BY <1>1, <1>2, <1>3

\* A step uses up at most one of the requests.
Counted == requests' = requests \/ (requests < MaxRequests /\ requests' = requests + 1)

\* The bound on requests.
LEMMA RequestsStep == PlatformInv /\ [PlatformNext]_panelVars => requests' \in 0..MaxRequests
<1> SUFFICES ASSUME PlatformInv, [PlatformNext]_panelVars PROVE requests' \in 0..MaxRequests
  OBVIOUS
<1>1. AuthNext => Counted
  <2>1. ASSUME NEW r, NEW u, NEW s, NEW t, NEW b,
               \/ Login(r, u) \/ Refresh(r, s) \/ Logout(r, u, s) \/ RequestPasswordReset(r, u)
               \/ ResetPassword(r, t) \/ AccessExpires(u) \/ WindowEnds(u) \/ UpdateMaintenance(u, b)
               \/ SessionExpires(s)
        PROVE  Counted
    BY <2>1 DEF Counted, Login, Refresh, Logout, RequestPasswordReset, ResetPassword, AccessExpires,
       WindowEnds, UpdateMaintenance, SessionExpires, Begin, TimePasses
  <2>2. ASSUME NEW r,
               \/ LoginExpire(r) \/ LoginLookup(r) \/ LoginCreate(r) \/ RefreshCreate(r) \/ RefreshMark(r)
               \/ IssueReset(r) \/ ResetWrite(r)
        PROVE  Counted
    BY <2>2 DEF Counted, LoginExpire, LoginLookup, LoginCreate, RefreshCreate, RefreshMark, IssueReset,
       ResetWrite
  <2> QED
    BY <2>1, <2>2 DEF AuthNext
<1>2. CollegesNext => Counted
  BY ZenonT(60) DEF Counted, CollegesNext, CreateCollege, ChangeCollege, CollegeWrite, Call, Begin
<1>3. StructureNext => Counted
  <2>1. ASSUME NEW r, NEW u, NEW route, Call(r, u, route) PROVE Counted
    BY <2>1 DEF Call, Begin, Counted
  <2>2. ASSUME NEW r, NEW u, NEW c, NEW d, NEW k, NEW s, NEW f, NEW m, NEW b, NEW i,
               \/ CreateDepartment(r, u, c) \/ CreateCourse(r, u, c, d) \/ CreateSubject(r, u, c, d, k, s)
               \/ CreateBatch(r, u, c, k, s) \/ AssignSubject(r, u, c, f, s, m, b) \/ SetRowStatus(r, u, i, s)
        PROVE  \E route : Call(r, u, route)
    BY <2>2 DEF CreateDepartment, CreateCourse, CreateSubject, CreateBatch, AssignSubject, SetRowStatus,
       RowCall
  <2> QED
    BY <2>1, <2>2 DEF StructureNext
<1>4. EnrolNext => Counted
  <2>1. ASSUME NEW r, NEW u, NEW c, NEW e, NEW l, NEW o, NEW s, NEW E,
               \/ CreatePerson(r, u, c, e, l, o, s) \/ BulkCreateStudents(r, u, c, E, l)
               \/ BulkUpdateStudents(r, u, E)
        PROVE  Counted
    BY <2>1 DEF Counted, CreatePerson, BulkCreateStudents, BulkUpdateStudents, Call, Begin
  <2>2. ASSUME NEW r, ImportWrite(r) \/ BulkUpdateNext(r) PROVE Counted
    BY <2>2 DEF Counted, ImportWrite, BulkUpdateNext
  <2> QED
    BY <2>1, <2>2 DEF EnrolNext
<1>5. PersonNext => Counted
  BY DEF Counted, PersonNext, UpdatePerson, ResetPersonPassword, Call, Begin
<1>6. TenancyNext => Counted
  <2>1. ASSUME NEW r, NEW u, NEW c, NEW e, NEW s, NEW p, NEW b,
               \/ Signup(r, c, e) \/ SaveOnboardingStep(r, u, s, b) \/ SetLifecycle(r, u, c, s)
               \/ PlatformChangePlan(r, u, c, p) \/ UpdateBranding(r, u) \/ CreateDomain(r, u)
               \/ Webhook(r) \/ CreateSupportTicket(r, u) \/ ReplySupportTicket(r, u, b)
               \/ CreatePushToken(r, u)
        PROVE  Counted
    BY <2>1 DEF Counted, Signup, SaveOnboardingStep, SetLifecycle, PlatformChangePlan, UpdateBranding,
       CreateDomain, Webhook, CreateSupportTicket, ReplySupportTicket, CreatePushToken, TenantCall, Call, Begin
  <2>2. ASSUME NEW r, NEW p,
               \/ SignupAdmin(r) \/ SignupProfile(r) \/ SignupTrial(r, p) \/ OnboardingCount(r)
               \/ OnboardingPercent(r) \/ SyncEntitlement(r) \/ BrandingSnapshot(r) \/ BrandingWrite(r)
        PROVE  Counted
    BY <2>2 DEF Counted, SignupAdmin, SignupProfile, SignupTrial, OnboardingCount, OnboardingPercent,
       SyncEntitlement, BrandingSnapshot, BrandingWrite
  <2> QED
    BY <2>1, <2>2 DEF TenancyNext
<1>7. PanelNext => Counted
  BY ZenonT(60) DEF Counted, PanelNext, WriteCollegeSettings, WriteNotificationRead, Record, ReadCollegeSettings,
     UpdateCollegeSettings, UpdateProfile, MarkNotificationRead, UpsertPermission, Call, Begin
<1>8. PanelCrash \/ UNCHANGED panelVars => Counted
  BY CrashLeaves DEF Counted, panelVars, tenantVars, enrolVars, accountVars
<1>9. Counted
  BY <1>1, <1>2, <1>3, <1>4, <1>5, <1>6, <1>7, <1>8 DEF PlatformNext
<1> QED
  BY <1>9, Constants DEF Counted, PlatformInv, AccTypeOK, AccountsTypeOK

\* The rows of SaasService that tenants share.
LEMMA SharedRowsStep ==
  PlatformInv /\ [PlatformNext]_panelVars =>
    /\ domain' \in Colleges \cup {None} /\ push' \in Users \cup {None}
    /\ ticket' \in [college : Colleges \cup {None}, notes : SUBSET Users,
                    status : {"NONE", "OPEN", "WAITING_ON_CUSTOMER", "IN_PROGRESS"}]
    /\ event' \in [stored : BOOLEAN, audits : Nat]
<1> DEFINE TicketRow == [college : Colleges \cup {None}, notes : SUBSET Users,
                         status : {"NONE", "OPEN", "WAITING_ON_CUSTOMER", "IN_PROGRESS"}]
           EventRow == [stored : BOOLEAN, audits : Nat]
<1> SUFFICES ASSUME PlatformInv, [PlatformNext]_panelVars
             PROVE  /\ domain' \in Colleges \cup {None} /\ push' \in Users \cup {None}
                    /\ ticket' \in TicketRow /\ event' \in EventRow
  OBVIOUS
<1>1. /\ domain \in Colleges \cup {None} /\ push \in Users \cup {None}
      /\ ticket \in TicketRow /\ event \in EventRow
      /\ \A u \in Users : user[u].college \in Colleges \cup {None}
  BY DEF PlatformInv, AccTypeOK, AccountsTypeOK, TenancyTypeOK
<1>2. (TenancyNext /\ Written) \/ UNCHANGED <<domain, push, ticket, event>>
  BY TenantRowsMove, TenancyWrites DEF tenantRows
<1>3. ASSUME NEW r, NEW u \in Users, CreateDomain(r, u) PROVE domain' \in Colleges \cup {None}
  BY <1>1, <1>3 DEF CreateDomain
<1>4. ASSUME NEW r, NEW u \in Users, CreatePushToken(r, u) PROVE push' \in Users \cup {None}
  BY <1>1, <1>4 DEF CreatePushToken
<1>5. ASSUME NEW r, NEW u \in Users, CreateSupportTicket(r, u) PROVE ticket' \in TicketRow
  BY <1>1, <1>5 DEF CreateSupportTicket
<1>6. ASSUME NEW r, NEW u \in Users, NEW b, ReplySupportTicket(r, u, b) PROVE ticket' \in TicketRow
  BY <1>1, <1>6 DEF ReplySupportTicket
<1>7. ASSUME NEW r, Webhook(r) PROVE event' \in EventRow
  BY <1>1, <1>7 DEF Webhook
<1> HIDE DEF TicketRow, EventRow
<1> QED
  BY <1>1, <1>2, <1>3, <1>4, <1>5, <1>6, <1>7 DEF Written

-----------------------------------------------------------------------------
(* The panel. *)

\* Only the panel writes its rows.
LEMMA PanelRowsKept ==
  [PlatformNext]_panelVars => PanelNext \/ PanelCrash \/ UNCHANGED panelRows
  BY DEF PlatformNext, panelVars

SettingRow == [row : BOOLEAN, value : [Fields -> 0..MaxRequests]]

\* A field has what the last update that named it asked for, and a row that
\* was never made has the defaults.
LEMMA SettingsStep ==
  PlatformInv /\ [PlatformNext]_panelVars =>
    /\ setting' \in [Colleges -> SettingRow] /\ asked' \in [Colleges -> [Fields -> 0..MaxRequests]]
    /\ \A c \in Colleges : ~setting'[c].row => setting'[c].value = Defaults
    /\ SettingsAsRequested'
<1> DEFINE Good == /\ setting' \in [Colleges -> SettingRow] /\ asked' \in [Colleges -> [Fields -> 0..MaxRequests]]
                   /\ \A c \in Colleges : ~setting'[c].row => setting'[c].value = Defaults
                   /\ SettingsAsRequested'
<1> SUFFICES ASSUME PlatformInv, [PlatformNext]_panelVars PROVE Good
  OBVIOUS
<1>1. /\ setting \in [Colleges -> SettingRow] /\ asked \in [Colleges -> [Fields -> 0..MaxRequests]]
      /\ \A c \in Colleges : ~setting[c].row => setting[c].value = Defaults
      /\ \A c \in Colleges : setting[c].value = asked[c]
      /\ \A r \in Requests : req[r].op = "settings" => req[r].college \in Colleges /\ req[r].n \in 0..MaxRequests
  BY DEF PlatformInv, AccTypeOK, PanelTypeOK, SettingRow, SettingsAsRequested, HandlersGood, PanelGood
<1>2. ASSUME setting' = setting, asked' = asked PROVE Good
  BY <1>1, <1>2 DEF SettingsAsRequested
<1>3. ASSUME NEW c \in Colleges, NEW x \in SettingRow, x.row = TRUE,
             setting' = [setting EXCEPT ![c] = x], asked' = [asked EXCEPT ![c] = x.value]
      PROVE  Good
  <2>1. x.value \in [Fields -> 0..MaxRequests]
    BY DEF SettingRow
  <2>2. /\ setting' \in [Colleges -> SettingRow] /\ asked' \in [Colleges -> [Fields -> 0..MaxRequests]]
        /\ setting'[c] = x /\ asked'[c] = x.value
        /\ \A d \in Colleges : d # c => setting'[d] = setting[d] /\ asked'[d] = asked[d]
    BY <1>1, <1>3, <2>1
  <2> QED
    BY <1>1, <1>3, <2>2 DEF SettingsAsRequested
<1>4. ASSUME NEW r, NEW u \in Users, NEW a \in Scopes, ReadCollegeSettings(r, u, a) PROVE Good
  <2>1. PICK b \in BOOLEAN : b = TRUE
    OBVIOUS
  <2>2. PICK c \in SettingsColleges(u, a) : setting' = [setting EXCEPT ![c].row = b]
    BY <1>4, <2>1 DEF ReadCollegeSettings
  <2>3. c \in Colleges
    BY SettingsCollege
  <2> DEFINE x == [setting[c] EXCEPT !.row = b]
  <2>4. x \in SettingRow /\ x.row = b /\ x.value = setting[c].value
    BY <1>1, <2>3 DEF SettingRow
  <2>5. setting' = [setting EXCEPT ![c] = x]
    BY <2>2
  <2> HIDE DEF x
  <2>6. asked' = asked
    BY <1>4 DEF ReadCollegeSettings
  <2>7. asked' = [asked EXCEPT ![c] = x.value]
    BY <1>1, <2>3, <2>4, <2>6
  <2> QED
    BY <1>3, <2>1, <2>3, <2>4, <2>5, <2>7
<1>5. ASSUME NEW r \in Requests, WriteCollegeSettings(r) PROVE Good
  <2>1. PICK b \in BOOLEAN : b = TRUE
    OBVIOUS
  <2>2. PICK c : c = req[r].college
    OBVIOUS
  <2> DEFINE v == SettingsData(setting[c].value, req[r].todo, req[r].n)
             w == [f \in Fields |-> IF f \in req[r].todo THEN req[r].n ELSE asked[c][f]]
             x == [row |-> b, value |-> v]
  <2>3. /\ req[r].op = "settings"
        /\ \/ setting' = setting /\ asked' = asked
           \/ setting' = [setting EXCEPT ![c] = x] /\ asked' = [asked EXCEPT ![c] = w]
    BY <1>5, <2>1, <2>2 DEF WriteCollegeSettings
  <2>4. c \in Colleges /\ req[r].n \in 0..MaxRequests
    BY <1>1, <2>2, <2>3
  <2>5. v = w /\ v \in [Fields -> 0..MaxRequests]
    BY <1>1, <2>4 DEF SettingsData, SettingRow
  <2> HIDE DEF v, w
  <2>6. x \in SettingRow /\ x.row = b /\ x.value = v
    BY <2>5 DEF SettingRow
  <2> HIDE DEF x
  <2> QED
    BY <1>2, <1>3, <2>1, <2>3, <2>4, <2>5, <2>6
<1>6. ASSUME NEW r, NEW u, NEW a, NEW t, NEW n, NEW g,
             \/ WriteNotificationRead(r) \/ Record(r) \/ UpdateCollegeSettings(r, u, a, g)
             \/ UpdateProfile(r, u, a) \/ MarkNotificationRead(r, u, n) \/ UpsertPermission(r, u, t, g)
             \/ PanelCrash
      PROVE  setting' = setting /\ asked' = asked
  BY <1>6, CrashLeaves DEF WriteNotificationRead, Record, UpdateCollegeSettings, UpdateProfile,
     MarkNotificationRead, UpsertPermission, panelRows
<1> HIDE DEF Good
<1>7. PanelNext => Good
  BY <1>2, <1>4, <1>5, <1>6 DEF PanelNext
<1>8. PanelCrash \/ UNCHANGED panelRows => Good
  BY <1>2, <1>6 DEF panelRows
<1> QED
  BY <1>7, <1>8, PanelRowsKept

\* Themes, read notices and overrides.
LEMMA PreferencesStep ==
  PlatformInv /\ [PlatformNext]_panelVars =>
    /\ theme' \in [Users -> {"SYSTEM", "DARK"}] /\ read' \in SUBSET Notices
    /\ override' \in [Users -> SUBSET Rights]
<1> DEFINE Good == /\ theme' \in [Users -> {"SYSTEM", "DARK"}] /\ read' \in SUBSET Notices
                   /\ override' \in [Users -> SUBSET Rights]
<1> SUFFICES ASSUME PlatformInv, [PlatformNext]_panelVars PROVE Good
  OBVIOUS
<1>1. /\ theme \in [Users -> {"SYSTEM", "DARK"}] /\ read \in SUBSET Notices
      /\ override \in [Users -> SUBSET Rights]
      /\ \A r \in Requests : req[r].op = "mark-read" => req[r].data \in Notices
  BY DEF PlatformInv, AccTypeOK, PanelTypeOK, HandlersGood, PanelGood
<1>2. ASSUME theme' = theme, read' = read, override' = override PROVE Good
  BY <1>1, <1>2
<1>3. ASSUME NEW r, NEW u, NEW chosen \in {None, "DARK"}, UpdateProfile(r, u, chosen) PROVE Good
  BY <1>1, <1>3 DEF UpdateProfile
<1>4. ASSUME NEW r \in Requests, WriteNotificationRead(r) PROVE Good
  BY <1>1, <1>4 DEF WriteNotificationRead
<1>5. ASSUME NEW r, NEW u, NEW t, NEW given \in {{}, {"canView", "canUpdate"}}, UpsertPermission(r, u, t, given)
      PROVE  Good
  BY <1>1, <1>5 DEF UpsertPermission, Rights
<1>6. ASSUME NEW r, NEW u, NEW a, NEW t, NEW n, NEW g,
             \/ WriteCollegeSettings(r) \/ Record(r) \/ UpdateCollegeSettings(r, u, a, g)
             \/ ReadCollegeSettings(r, u, a) \/ MarkNotificationRead(r, u, n) \/ PanelCrash
      PROVE  theme' = theme /\ read' = read /\ override' = override
  BY <1>6, CrashLeaves DEF WriteCollegeSettings, Record, UpdateCollegeSettings, ReadCollegeSettings,
     MarkNotificationRead, panelRows
<1> HIDE DEF Good
<1>7. PanelNext => Good
  BY <1>2, <1>3, <1>4, <1>5, <1>6 DEF PanelNext
<1>8. PanelCrash \/ UNCHANGED panelRows => Good
  BY <1>2, <1>6 DEF panelRows
<1> QED
  BY <1>7, <1>8, PanelRowsKept


\* The three ways to account for a change: it begins to be recorded, is
\* recorded, or is cut off by a restart.
LEMMA AuditStep ==
  PlatformInv /\ [PlatformNext]_panelVars =>
    /\ audits' \in [Scopes -> Nat] /\ changes' \in [Scopes -> Nat] /\ unlogged' \in [Scopes -> Nat]
    /\ ChangesAudited'
<1> DEFINE Good == /\ audits' \in [Scopes -> Nat] /\ changes' \in [Scopes -> Nat] /\ unlogged' \in [Scopes -> Nat]
                   /\ ChangesAudited'
           Now(c) == {r \in Requests : req'[r].op = "record" /\ req'[r].college = c}
<1> SUFFICES ASSUME PlatformInv, [PlatformNext]_panelVars PROVE Good
  OBVIOUS
<1>1. /\ audits \in [Scopes -> Nat] /\ changes \in [Scopes -> Nat] /\ unlogged \in [Scopes -> Nat]
      /\ (\A c \in Scopes : changes[c] = audits[c] + Cardinality(Recording(c)) + unlogged[c])
      /\ req = [y \in Requests |-> req[y]]
      /\ \A r \in Requests : req[r].op = "record" => req[r].college \in Scopes
  BY DEF PlatformInv, AccTypeOK, PanelTypeOK, ChangesAudited, HandlersGood, PanelGood, HandlersFormed
<1>2. \A c : IsFiniteSet(Recording(c)) /\ Cardinality(Recording(c)) \in Nat
  BY Constants, FS_Subset, FS_CardinalityType DEF Recording
<1>3. ASSUME audits' \in [Scopes -> Nat], changes' \in [Scopes -> Nat], unlogged' \in [Scopes -> Nat],
             \A c \in Scopes : changes'[c] = audits'[c] + Cardinality(Now(c)) + unlogged'[c]
      PROVE  Good
  BY <1>3 DEF ChangesAudited, Recording
<1> HIDE DEF Good
<1>4. ASSUME PanelCrash PROVE Good
  <2>1. /\ req' = [r \in Requests |-> NoReq] /\ audits' = audits /\ changes' = changes
        /\ unlogged' = [c \in Scopes |-> unlogged[c] + Cardinality(Recording(c))]
    BY <1>4, CrashLeaves DEF PanelCrash
  <2>2. \A c : Now(c) = {}
    BY <2>1, NoReqFields
  <2>3. Cardinality({}) = 0
    BY FS_EmptySet
  <2>4. \A c \in Scopes : Cardinality(Now(c)) = 0
    BY <2>2, <2>3
  <2> HIDE DEF Now
  <2> QED
    BY <1>1, <1>2, <1>3, <2>1, <2>4
<1>5. ASSUME NEW r \in Requests, Record(r) PROVE Good
  <2> DEFINE d == req[r].college
  <2>1. /\ req[r].op = "record" /\ req' = [req EXCEPT ![r] = NoReq]
        /\ audits' = [audits EXCEPT ![d] = @ + 1] /\ changes' = changes /\ unlogged' = unlogged
    BY <1>5 DEF Record, Done
  <2>2. d \in Scopes /\ r \in Recording(d)
    BY <1>1, <2>1 DEF Recording
  <2>3. \A c : Now(c) = IF c = d THEN Recording(c) \ {r} ELSE Recording(c)
    BY <1>1, <2>1, NoReqFields DEF Recording
  <2> HIDE DEF Now, d
  <2>4. Cardinality(Recording(d) \ {r}) = Cardinality(Recording(d)) - 1
    BY <1>2, <2>2, FS_RemoveElement
  <2>5. /\ audits' \in [Scopes -> Nat] /\ audits'[d] = audits[d] + 1
        /\ \A c \in Scopes : c # d => audits'[c] = audits[c]
    BY <1>1, <2>1, <2>2
  <2>6. ASSUME NEW c \in Scopes PROVE changes'[c] = audits'[c] + Cardinality(Now(c)) + unlogged'[c]
    <3>1. /\ audits[c] \in Nat /\ unlogged[c] \in Nat /\ Cardinality(Recording(c)) \in Nat
          /\ changes[c] = audits[c] + Cardinality(Recording(c)) + unlogged[c]
      BY <1>1, <1>2
    <3>2. /\ c = d => Cardinality(Now(c)) = Cardinality(Recording(c)) - 1
          /\ c # d => Cardinality(Now(c)) = Cardinality(Recording(c))
      BY <2>3, <2>4
    <3>3. audits'[c] = IF c = d THEN audits[c] + 1 ELSE audits[c]
      BY <2>5
    <3> QED
      BY <2>1, <3>1, <3>2, <3>3
  <2> QED
    BY <1>1, <1>3, <2>1, <2>5, <2>6
<1>6. ASSUME NEW r \in Requests, NEW d \in Scopes, Change(r, d), req[r].op # "record",
             audits' = audits, unlogged' = unlogged
      PROVE  Good
  <2> DEFINE x == [NoReq EXCEPT !.op = "record", !.college = d]
  <2>1. changes' = [changes EXCEPT ![d] = @ + 1] /\ req' = [req EXCEPT ![r] = x]
    BY <1>6 DEF Change
  <2>2. x.op = "record" /\ x.college = d
    BY NoReqFields DEF Handler
  <2> HIDE DEF x
  <2>3. \A c : Now(c) = IF c = d THEN Recording(c) \cup {r} ELSE Recording(c)
    BY <1>1, <1>6, <2>1, <2>2 DEF Recording
  <2>4. r \notin Recording(d)
    BY <1>6 DEF Recording
  <2> HIDE DEF Now
  <2>5. Cardinality(Recording(d) \cup {r}) = Cardinality(Recording(d)) + 1
    BY <1>2, <2>4, FS_AddElement
  <2>6. /\ changes' \in [Scopes -> Nat] /\ changes'[d] = changes[d] + 1
        /\ \A c \in Scopes : c # d => changes'[c] = changes[c]
    BY <1>1, <2>1
  <2>7. ASSUME NEW c \in Scopes PROVE changes'[c] = audits'[c] + Cardinality(Now(c)) + unlogged'[c]
    <3>1. /\ audits[c] \in Nat /\ unlogged[c] \in Nat /\ Cardinality(Recording(c)) \in Nat
          /\ changes[c] = audits[c] + Cardinality(Recording(c)) + unlogged[c]
      BY <1>1, <1>2
    <3>2. /\ c = d => Cardinality(Now(c)) = Cardinality(Recording(c)) + 1
          /\ c # d => Cardinality(Now(c)) = Cardinality(Recording(c))
      BY <2>3, <2>5
    <3>3. changes'[c] = IF c = d THEN changes[c] + 1 ELSE changes[c]
      BY <2>6
    <3> QED
      BY <1>6, <3>1, <3>2, <3>3
  <2> QED
    BY <1>1, <1>3, <1>6, <2>6, <2>7
<1>7. ASSUME ~PanelCrash, \A r \in Requests : ~Record(r), audits' = audits, changes' = changes, unlogged' = unlogged
      PROVE  Good
  <2>1. ASSUME NEW y \in Requests, NEW c \in Scopes
        PROVE  (req'[y].op = "record" /\ req'[y].college = c) <=> (req[y].op = "record" /\ req[y].college = c)
    <3>1. CASE req'[y] = req[y]
      BY <3>1
    <3>2. CASE req'[y] # req[y]
      <4>1. req[y].op # "record"
        BY <1>7, <3>2, GoesOn
      <4>2. \A e \in Scopes : ~Change(y, e)
        BY <1>1, <1>7 DEF Change
      <4>3. req'[y].op # "record"
        BY <3>2, <4>2, Fitted DEF Fitting, Begins, Records
      <4> QED
        BY <4>1, <4>3
    <3> QED
      BY <3>1, <3>2
  <2>2. \A c \in Scopes : Now(c) = Recording(c)
    BY <2>1 DEF Recording
  <2> HIDE DEF Now
  <2> QED
    BY <1>1, <1>3, <1>7, <2>2
<1>8. ASSUME ~PanelCrash, \A r \in Requests : ~Record(r), PanelNext PROVE Good
  <2>0. /\ \A u \in Users : user[u].college \in Scopes
        /\ \A n \in Notices : Notice[n].college \in Scopes
        /\ \A r \in Requests : /\ req[r].op = "mark-read" => req[r].data \in Notices
                               /\ req[r].op = "settings" => req[r].college \in Scopes
    BY AdministrationAssumption DEF PlatformInv, AccTypeOK, AccountsTypeOK, HandlersGood, PanelGood, Scopes
  <2>1. ASSUME NEW r, NEW u, NEW a, NEW n, NEW g,
               \/ ReadCollegeSettings(r, u, a) \/ UpdateCollegeSettings(r, u, a, g) \/ MarkNotificationRead(r, u, n)
        PROVE  Good
    <3>1. audits' = audits /\ changes' = changes /\ unlogged' = unlogged
      BY <2>1 DEF ReadCollegeSettings, UpdateCollegeSettings, MarkNotificationRead, panelRows
    <3> QED
      BY <1>7, <1>8, <3>1
  <2>2. ASSUME NEW r \in Requests, WriteCollegeSettings(r) PROVE Good
    <3>1. /\ req[r].op = "settings" /\ audits' = audits /\ unlogged' = unlogged
          /\ changes' = changes \/ Change(r, req[r].college)
      BY <2>2 DEF WriteCollegeSettings
    <3> QED
      BY <1>6, <1>7, <1>8, <2>0, <3>1
  <2>3. ASSUME NEW r \in Requests, WriteNotificationRead(r) PROVE Good
    <3>1. /\ req[r].op = "mark-read" /\ audits' = audits /\ unlogged' = unlogged
          /\ Change(r, Notice[req[r].data].college)
      BY <2>3 DEF WriteNotificationRead
    <3> QED
      BY <1>6, <2>0, <3>1
  <2>4. ASSUME NEW r \in Requests, NEW u \in Users, NEW t \in Users, NEW a, NEW g,
               UpdateProfile(r, u, a) \/ UpsertPermission(r, u, t, g)
        PROVE  Good
    <3>1. /\ req[r] = NoReq /\ audits' = audits /\ unlogged' = unlogged
          /\ Change(r, user[u].college) \/ Change(r, user[t].college)
      BY <2>4 DEF UpdateProfile, UpsertPermission, Call, Begin
    <3> QED
      BY <1>6, <2>0, <3>1, NoReqFields
  <2> QED
    BY <1>8, <2>1, <2>2, <2>3, <2>4 DEF PanelNext
<1>9. ASSUME ~PanelCrash, \A r \in Requests : ~Record(r), UNCHANGED panelRows PROVE Good
  BY <1>7, <1>9 DEF panelRows
<1> QED
  BY <1>4, <1>5, <1>8, <1>9, PanelRowsKept

-----------------------------------------------------------------------------
(* The invariant holds at the start and is kept by every step. *)

\* The invariant is kept: each part by the lemmas above.
LEMMA PlatformStep == PlatformInv /\ [PlatformNext]_panelVars => PlatformInv'
<1> SUFFICES ASSUME PlatformInv, [PlatformNext]_panelVars PROVE PlatformInv'
  OBVIOUS
<1>1. /\ HandlersFormed' /\ HandlersGood' /\ (req' = [r \in Requests |-> req'[r]])
      /\ user' \in [Users -> UserRow] /\ ProfileUserAgree'
      /\ session' \in [Sessions -> SessionRow] /\ SessionRows' /\ SelfResetEndsSessions'
      /\ resetToken' \in [ResetTokens -> TokenRow] /\ TokenRows' /\ ActiveResetsOverlap'
      /\ ParentRetired' /\ unmarked' \in SUBSET Sessions
  BY HandlersStep, UsersStep, SessionsStep, TokensStep, ParentStep DEF HandlersFormed
<1>2. /\ rate' \in [Users -> RateRow] /\ unexpiring' \in SUBSET Users /\ LockoutEnds'
      /\ localRate' \in [Users -> 0..(LoginLimit + 1)]
      /\ access' \in SUBSET Users /\ maintenance' \in BOOLEAN
      /\ requests' \in 0..MaxRequests /\ crashes' \in 0..MaxCrashes
      /\ college' \in [Colleges -> CollegeRow] /\ (\A c \in Colleges : Opens(college'[c]))
      /\ overtaken' \in SUBSET Colleges /\ ArchiveStands'
  BY RateStep, UnexpiringStep, LockoutStep, LocalRateStep, GateStep, RequestsStep, CrashesStep, CollegesStep
<1>3. /\ row' \in [Rows -> RowRec] /\ RowLinks'
      /\ links' \in [Users -> LinkRow] /\ UserRows' /\ LinkedStudents' /\ ImportedConsistent'
      /\ imported' \in [Requests -> [size : Nat, created : Nat]] /\ ImportWhole'
  BY RowsStep, LinksStep, ImportsStep
<1>4. /\ profile' \in [Colleges -> ProfileRow] /\ subscribed' \in [Colleges -> SUBSET Plans]
      /\ entitled' \in [Colleges -> SUBSET Features] /\ EntitledByAPlan'
      /\ step' \in [Colleges -> SUBSET Steps] /\ lapped' \in SUBSET Colleges /\ torn' \in SUBSET Colleges
      /\ branding' \in [Colleges -> 0..MaxVersion] /\ snapshots' \in [Colleges -> SUBSET (1..MaxVersion)]
      /\ BrandingHistory' /\ SignupWhole' /\ PercentExact' /\ StepsCounted'
  BY ProfileStep, SubscribedStep, EntitledStep, StepStep, TornStep, BrandingStep, SignupStep, PercentStep
<1>5. AccountsTypeOK'
  BY <1>1, <1>2 DEF AccountsTypeOK, UserRow, SessionRow, TokenRow, RateRow, CollegeRow, Opens
<1>6. EnrolTypeOK'
  BY <1>3 DEF EnrolTypeOK, RowRec, LinkRow
<1>7. TenancyTypeOK'
  BY <1>4, SharedRowsStep DEF TenancyTypeOK, ProfileRow
<1>8. PanelTypeOK' /\ SettingsAsRequested' /\ ChangesAudited'
  BY SettingsStep, PreferencesStep, AuditStep DEF PanelTypeOK, SettingRow
<1>9. SessionsEnd'
  BY <1>1, <1>2 DEF SessionsEnd
<1>10. TenantsConsistent'
  BY <1>2, <1>4 DEF TenantsConsistent
<1> QED
  BY <1>1, <1>3, <1>4, <1>5, <1>6, <1>7, <1>8, <1>9, <1>10 DEF PlatformInv, AccTypeOK

\* Accounts, sessions and colleges at the start.
LEMMA AccountsStart ==
  PlatformInit => /\ AccountsTypeOK /\ HandlersFormed /\ HandlersGood
                  /\ SessionRows /\ TokenRows /\ SessionsEnd /\ ProfileUserAgree /\ ArchiveStands
<1> SUFFICES ASSUME AccountsInit
             PROVE  /\ AccountsTypeOK /\ HandlersFormed /\ HandlersGood
                    /\ SessionRows /\ TokenRows /\ SessionsEnd /\ ProfileUserAgree /\ ArchiveStands
  BY DEF PlatformInit
<1>1. AccountsTypeOK
  BY DEF AccountsInit
<1>2. req = [r \in Requests |-> NoReq] /\ \A r \in Requests : req[r] = NoReq
  BY DEF AccountsInit
<1>3. HandlersFormed
  BY <1>2, NoReqFields DEF HandlersFormed
<1>4. HandlersGood
  <2>1. /\ AuthGood(NoReq, session, resetToken, user) /\ CollegeGood(NoReq) /\ EnrolGood(NoReq, row)
        /\ TenantGood(NoReq, profile, subscribed, step, lapped, snapshots) /\ PanelGood(NoReq)
    BY NoReqFields DEF AuthGood, CollegeGood, EnrolGood, TenantGood, PanelGood
  <2> QED
    BY <1>2, <2>1 DEF HandlersGood
<1>5. ASSUME NEW u \in Users
      PROVE  user[u].resets = 0 /\ (user[u].profile # "NONE" => (user[u].active <=> user[u].profile = "ACTIVE"))
  <2>1. (Exists(u) /\ Settled(u)) \/ user[u] = NoUser
    BY DEF AccountsInit
  <2> QED
    BY <2>1, NoUserRow DEF Settled
<1>6. ASSUME NEW s \in Sessions
      PROVE  /\ session[s].parent = 0 /\ session[s].auth = 0
             /\ session[s].state = "live" => session[s].user \in Users
  <2> DEFINE x(u) == [NoSession EXCEPT !.user = u, !.state = "live"]
             Live == {x(u) : u \in Users}
  <2>1. session \in [Sessions -> {NoSession} \cup Live]
    BY DEF AccountsInit
  <2>2. NoSession.parent = 0 /\ NoSession.auth = 0 /\ NoSession.state # "live"
    BY DEF NoSession
  <2>3. ASSUME NEW u \in Users PROVE x(u).parent = 0 /\ x(u).auth = 0 /\ x(u).user = u
    BY DEF NoSession
  <2>4. ASSUME session[s] \in Live PROVE \E u \in Users : session[s] = x(u)
    BY <2>4
  <2> HIDE DEF Live, x
  <2>5. session[s] = NoSession \/ session[s] \in Live
    BY <2>1
  <2> QED
    BY <2>2, <2>3, <2>4, <2>5
<1>7. SessionRows /\ SelfResetEndsSessions /\ ParentRetired
  BY <1>5, <1>6 DEF SessionRows, SelfResetEndsSessions, ParentRetired
<1>8. TokenRows /\ ActiveResetsOverlap
  BY DEF AccountsInit, TokenRows, ActiveResetsOverlap
<1>9. LockoutEnds
  <2>1. rate = [u \in Users |-> [n |-> 0, ttl |-> FALSE]]
    BY DEF AccountsInit
  <2>2. \A u \in Users : rate[u].n = 0
    BY <2>1
  <2> QED
    BY <2>2 DEF LockoutEnds
<1>10. ProfileUserAgree
  BY <1>5 DEF ProfileUserAgree
<1>11. ArchiveStands
  BY DEF AccountsInit, ArchiveStands
<1> QED
  BY <1>1, <1>3, <1>4, <1>7, <1>8, <1>9, <1>10, <1>11 DEF SessionsEnd

\* Academic rows at the start.
LEMMA EnrolStart ==
  PlatformInit => /\ EnrolTypeOK /\ UserRows /\ RowLinks /\ LinkedStudents
                  /\ ImportedConsistent /\ ImportWhole
<1> SUFFICES ASSUME AccountsInit, EnrolRowsInit
             PROVE  /\ EnrolTypeOK /\ UserRows /\ RowLinks /\ LinkedStudents
                    /\ ImportedConsistent /\ ImportWhole
  BY DEF PlatformInit
<1>1. NoRow \in RowRec /\ NoRow.kind = "none" /\ NoRow.course = 0 /\ NoRow.semester = 0 /\ NoRow.link = 0
  BY Constants DEF NoRow, RowRec, EntityStatus
<1>2. NoLinks \in LinkRow /\ ~NoLinks.bulk
  BY Constants DEF NoLinks, LinkRow
<1>3. ASSUME NEW i \in Rows
      PROVE  /\ i \in DOMAIN RowsAtStart => row[i] = RowsAtStart[i]
             /\ i \notin DOMAIN RowsAtStart => row[i] = NoRow
  BY DEF EnrolRowsInit
<1>4. ASSUME NEW i \in Rows, i \in DOMAIN RowsAtStart
      PROVE  /\ row[i] \in RowRec /\ row[i].kind # "none" /\ row[i].college \in Colleges
             /\ \A j \in {row[i].course, row[i].semester, row[i].link} \ {0} :
                  j \in DOMAIN RowsAtStart /\ RowsAtStart[j].college = row[i].college
             /\ {row[i].course, row[i].semester, row[i].link} \subseteq 0..MaxRows
  BY <1>3, <1>4, EnrolmentAssumption DEF RowRec
<1>5. row \in [Rows -> RowRec]
  BY <1>1, <1>3, <1>4 DEF EnrolRowsInit
<1>6. links = [u \in Users |-> NoLinks] /\ imported = [r \in Requests |-> [size |-> 0, created |-> 0]]
  BY DEF EnrolRowsInit
<1>7. EnrolTypeOK
  BY <1>2, <1>5, <1>6 DEF EnrolTypeOK, RowRec, LinkRow
<1>8. RowLinks
  <2>1. ASSUME NEW i \in Rows, NEW j \in {row[i].course, row[i].semester, row[i].link} \ {0}
        PROVE  row[j].kind # "none" /\ row[j].college = row[i].college
    <3>1. i \in DOMAIN RowsAtStart
      BY <1>1, <1>3, <2>1
    <3>2. j \in DOMAIN RowsAtStart /\ RowsAtStart[j].college = row[i].college /\ j \in Rows
      BY <1>4, <3>1, Constants DEF Rows
    <3> QED
      BY <1>3, <1>4, <3>2
  <2>2. ASSUME NEW i \in Rows, row[i].kind = "none" PROVE row[i] = NoRow
    BY <1>3, <1>4, <2>2
  <2> QED
    BY <2>1, <2>2 DEF RowLinks
<1>9. UserRows
  BY <1>6 DEF UserRows, AccountsInit, Settled, Exists
<1>10. LinkedStudents /\ ImportedConsistent /\ ImportWhole
  BY <1>2, <1>6 DEF LinkedStudents, ImportedConsistent, ImportWhole
<1> QED
  BY <1>7, <1>8, <1>9, <1>10

\* Tenants at the start.
LEMMA TenantsStart ==
  PlatformInit => /\ TenancyTypeOK /\ StepsCounted
                  /\ EntitledByAPlan /\ BrandingHistory /\ SignupWhole /\ PercentExact
<1> SUFFICES ASSUME AccountsInit, NEW plansOf \in [Colleges -> SUBSET Plans], TenancyRowsInit(plansOf)
             PROVE  /\ TenancyTypeOK /\ StepsCounted
                    /\ EntitledByAPlan /\ BrandingHistory /\ SignupWhole /\ PercentExact
  BY DEF PlatformInit
<1>1. TenancyTypeOK
  BY Constants DEF TenancyTypeOK, TenancyRowsInit, Lifecycle
<1>2. StepsCounted /\ PercentExact
  BY DEF TenancyRowsInit, StepsCounted, PercentExact
<1>3. EntitledByAPlan
  BY DEF TenancyRowsInit, EntitledByAPlan
<1>4. BrandingHistory
  BY Constants DEF TenancyRowsInit, BrandingHistory
<1>5. SignupWhole
  <2>1. ASSUME NEW u \in Users, user[u].role = "COLLEGE_ADMIN" PROVE user[u].pw > 0
    BY <2>1, NoUserRow DEF AccountsInit, Settled
  <2>2. ASSUME NEW u \in Users, user[u].role = "COLLEGE_ADMIN", user[u].pw = 0 PROVE FALSE
    BY <2>1, <2>2
  <2> QED
    BY <2>2 DEF SignupWhole
<1> QED
  BY <1>1, <1>2, <1>3, <1>4, <1>5

\* The panel at the start.
LEMMA PanelStart == PlatformInit => PanelTypeOK /\ ChangesAudited /\ SettingsAsRequested
<1> SUFFICES ASSUME AccountsInit, PanelRowsInit PROVE PanelTypeOK /\ ChangesAudited /\ SettingsAsRequested
  BY DEF PlatformInit
<1>1. Defaults \in [Fields -> 0..MaxRequests]
  BY Constants DEF Defaults
<1>2. PanelTypeOK
  BY <1>1 DEF PanelRowsInit, PanelTypeOK
<1>3. SettingsAsRequested
  BY DEF PanelRowsInit, SettingsAsRequested
<1>4. \A c \in Scopes : Recording(c) = {}
  BY NoReqFields DEF AccountsInit, Recording
<1>5. Cardinality({}) = 0
  BY FS_EmptySet
<1>6. ChangesAudited
  <2>1. \A c \in Scopes : audits[c] = 0 /\ changes[c] = 0 /\ unlogged[c] = 0
    BY DEF PanelRowsInit
  <2>2. \A c \in Scopes : Cardinality(Recording(c)) = 0
    BY <1>4, <1>5
  <2> QED
    BY <2>1, <2>2 DEF ChangesAudited
<1> QED
  BY <1>2, <1>3, <1>6

\* The invariant holds at the start.
LEMMA PlatformStart == PlatformInit => PlatformInv
  BY AccountsStart, EnrolStart, TenantsStart, PanelStart DEF PlatformInv, AccTypeOK, TenantsConsistent

\* So it holds in every state of every behaviour.
LEMMA PlatformAlways == PlatformSpec => []PlatformInv
  BY PlatformStart, PlatformStep, PTL DEF PlatformSpec

-----------------------------------------------------------------------------
(* What follows from it. *)

\* Links of rows that are there lead to the same tenant.
LEMMA LinksLead == PlatformInv => EnrolmentWhole
<1> SUFFICES ASSUME PlatformInv PROVE LinksInTenant
  BY DEF PlatformInv, EnrolmentWhole
<1>1. ASSUME NEW i \in Rows, NEW j \in {row[i].course, row[i].semester, row[i].link} \ {0}
      PROVE  row[j].college = row[i].college
  BY <1>1 DEF PlatformInv, RowLinks
<1>2. ASSUME NEW e \in Users, links[e] # NoLinks
      PROVE  \A j \in {links[e].department, links[e].course, links[e].semester, links[e].batch} :
               row[j].college = user[e].college
  BY <1>2 DEF PlatformInv, LinkedStudents, StudentLinked, Linked
<1> QED
  BY <1>1, <1>2 DEF LinksInTenant

\* The conditions of lists and of changes say the same.
LEMMA ListsAgree == PlatformInv => PanelListsAgree
<1> SUFFICES ASSUME PlatformInv, NEW u \in Users, Exists(u)
             PROVE  /\ {n \in Notices : Markable(u, n)} = UNION {ListedNotices(u, asks) : asks \in Scopes}
                    /\ {t \in Users : MayOverride(u, t)} \subseteq ListedUsers(u, None)
  BY DEF PanelListsAgree
<1>1. /\ None \notin Colleges /\ None \in Scopes /\ Colleges \subseteq Scopes
      /\ user[u].college \in Scopes /\ \A n \in Notices : Notice[n].college \in Colleges
  BY Constants, AdministrationAssumption DEF PlatformInv, AccTypeOK, AccountsTypeOK, Scopes
<1>2. user[u].role # "SUPER_ADMIN" => user[u].college \in Colleges
  BY DEF PlatformInv, UserRows
<1>3. \A t \in Users : user[t].college \in Scopes
  BY DEF PlatformInv, AccTypeOK, AccountsTypeOK, Scopes
<1>4. ASSUME NEW n \in Notices, Markable(u, n)
      PROVE  n \in ListedNotices(u, None)
  BY <1>1, <1>2, <1>4 DEF Markable, ListedNotices, PanelScopes, InScope
<1>5. ASSUME NEW asks \in Scopes, NEW n \in ListedNotices(u, asks)
      PROVE  n \in Notices /\ Markable(u, n)
  BY <1>1, <1>2 DEF Markable, ListedNotices, PanelScopes, InScope
<1>6. ASSUME NEW t \in Users, MayOverride(u, t)
      PROVE  t \in ListedUsers(u, None)
  BY <1>1, <1>2, <1>6 DEF MayOverride, ListedUsers, PanelScopes, InScope
<1> QED
  BY <1>1, <1>4, <1>5, <1>6

\* The rows of accounts, academic data, tenants and the panel are what they
\* should be.
THEOREM TypeCorrect == PlatformSpec => []AccTypeOK
<1>1. PlatformInv => AccTypeOK
  BY DEF PlatformInv
<1> QED
  BY <1>1, PlatformAlways, PTL

\* For any number of users, sessions, tokens and restarts: a password reset by
\* its owner ends the sessions opened before it, a refreshed token that has a
\* live successor is out of use, a reset token is good beside an older one only
\* if the requests for them overlapped, and a login counter expires.  Each
\* holds up to the overlaps, restarts and failures of Redis that the code lets
\* through, which the histories name (AuthService).
THEOREM SessionsDoEnd == PlatformSpec => []SessionsEnd
<1>1. PlatformInv => SessionsEnd
  BY DEF PlatformInv
<1> QED
  BY <1>1, PlatformAlways, PTL

\* For any structure of departments, courses and batches and any payload: no
\* link leaves its tenant, imported students are in a batch of their course
\* and semester, an import is all or nothing, and profile and account agree
\* (AcademicService).
THEOREM EnrolmentStaysWhole == PlatformSpec => []EnrolmentWhole
  BY LinksLead, PlatformAlways, PTL

\* For any plans, features and steps: an archived college stays closed, a
\* tenant has the features of plans it was subscribed to and no other, keeps
\* every version of its branding, is signed up whole and counts its steps,
\* although each service writes row after row without a transaction
\* (CollegesService, SaasService).
THEOREM TenantsStayConsistent == PlatformSpec => []TenantsConsistent
<1>1. PlatformInv => TenantsConsistent
  BY DEF PlatformInv
<1> QED
  BY <1>1, PlatformAlways, PTL

\* For any fields and notices: every change made from the panel is audited
\* once, is about to be, or was cut off by a restart; overlapping updates lose
\* no setting; and what a user may mark or override is what it is shown
\* (AdminPanelService).
THEOREM PanelStaysConsistent == PlatformSpec => []PanelConsistent
<1>1. PlatformInv => PanelConsistent
  BY ListsAgree DEF PlatformInv, PanelConsistent
<1> QED
  BY <1>1, PlatformAlways, PTL

=============================================================================
