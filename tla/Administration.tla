--------------------------- MODULE Administration ---------------------------
(***************************************************************************)
(* The administration panel (AdminPanelService): settings of a college, the  *)
(* user's own profile, notifications, permission overrides, and the audit    *)
(* row that follows every change in a transaction of its own.  A field of a  *)
(* form has the number of the request that wrote it (0: the default).        *)
(***************************************************************************)
EXTENDS Tenancy

CONSTANTS Fields,   \* of the college settings
          Notice    \* Notice[n]: user and college of a notification row.  The
                    \* services write personal ones only (userId is never null)

Notices == DOMAIN Notice
Rights == {"canView", "canCreate", "canUpdate", "canDelete"}

ASSUME AdministrationAssumption ==
    \A n \in Notices : Notice[n] \in [user : Users, college : Colleges]

VARIABLES setting,    \* collegeSettings: the fields, or no row
          theme,      \* themePreference
          read,       \* notifications with status READ
          override,   \* userPermissionOverride rows of one module: the rights
          audits,     \* AuditLog and ActivityHistory rows of a college
          asked,      \* history: the last value a request gave a settings field
          changes,    \* history: changes made from the panel
          unlogged    \* history: changes whose audit row a restart cut off

panelRows == <<setting, theme, read, override, audits, asked, changes, unlogged>>
panelVars == <<tenantVars, panelRows>>
serviceRows == <<accountRows, tenantRows>>
Scopes == Colleges \cup {None}
Defaults == [f \in Fields |-> 0]

PanelTypeOK ==
    /\ setting \in [Colleges -> [row : BOOLEAN, value : [Fields -> 0..MaxRequests]]]
    /\ \A c \in Colleges : ~setting[c].row => setting[c].value = Defaults
    /\ theme \in [Users -> {"SYSTEM", "DARK"}]
    /\ read \subseteq Notices /\ override \in [Users -> SUBSET Rights]
    /\ asked \in [Colleges -> [Fields -> 0..MaxRequests]]
    /\ {audits, changes, unlogged} \subseteq [Scopes -> Nat]

PanelRowsInit ==
    /\ setting = [c \in Colleges |-> [row |-> FALSE, value |-> Defaults]]
    /\ theme = [u \in Users |-> "SYSTEM"] /\ read = {}
    /\ override = [u \in Users |-> {}]
    /\ asked = [c \in Colleges |-> Defaults]
    /\ audits = [c \in Scopes |-> 0] /\ changes = audits /\ unlogged = audits

-----------------------------------------------------------------------------
(* What a user may name, and what it is shown. *)

\* scopeCollege without "required": None stands for no restriction; an admin
\* who names another college, or has none, is refused
PanelScopes(u, asks) ==
    IF user[u].role = "SUPER_ADMIN" THEN {asks}
    ELSE {user[u].college} \cap (IF asks = None THEN Colleges ELSE {asks})

\* collegeWhere
InScope(c, scope) == scope = None \/ c = scope

\* notifications
ListedNotices(u, asks) ==
    {n \in Notices : Notice[n].user = u
        /\ \E scope \in PanelScopes(u, asks) : InScope(Notice[n].college, scope)}

\* the findFirst of markNotificationRead
Markable(u, n) ==
    /\ user[u].role = "SUPER_ADMIN" \/ Notice[n].college = user[u].college
    /\ Notice[n].user = u

\* permissions: the users of the scope and all platform administrators (the
\* page holds 100 of them)
ListedUsers(u, asks) ==
    {t \in Users : Exists(t) /\ \E scope \in PanelScopes(u, asks) :
        InScope(user[t].college, scope) \/ user[t].role = "SUPER_ADMIN"}

\* the check of upsertPermission
MayOverride(u, t) ==
    Exists(t) /\ (user[u].role = "SUPER_ADMIN" \/ user[t].college = user[u].college)

-----------------------------------------------------------------------------
(* Changes, each followed by record(). *)

Change(r, c) ==
    /\ changes' = [changes EXCEPT ![c] = @ + 1]
    /\ req' = [req EXCEPT ![r] = [NoReq EXCEPT !.op = "record", !.college = c]]

\* settingsCollegeId: the scope, or for a platform administrator who names none
\* the oldest college in use (which one that is, is left open)
SettingsColleges(u, asks) ==
    IF user[u].role = "SUPER_ADMIN" /\ asks = None
    THEN {c \in Colleges : college[c].active /\ ~college[c].deleted}
    ELSE PanelScopes(u, asks)

\* collegeSettings: reading creates the row; a college there is none of is a
\* foreign key error
ReadCollegeSettings(r, u, asks) ==
    /\ Call(r, u, "collegeSettings")
    /\ \E c \in SettingsColleges(u, asks) :
         /\ college[c] # NoCollege /\ setting' = [setting EXCEPT ![c].row = TRUE]
    /\ UNCHANGED <<serviceRows, req, theme, read, override, audits, asked, changes, unlogged>>

\* updateCollegeSettings looks the college up ...
UpdateCollegeSettings(r, u, asks, given) ==
    /\ Call(r, u, "updateCollegeSettings")
    /\ \E c \in SettingsColleges(u, asks) :
         req' = [req EXCEPT ![r] = [NoReq EXCEPT !.op = "settings", !.college = c,
             !.n = requests', !.todo = given]]
    /\ UNCHANGED <<serviceRows, panelRows>>

\* settingsData: the fields the form has
SettingsData(old, given, n) == [f \in Fields |-> IF f \in given THEN n ELSE old[f]]

\* ... and writes the fields it was given into the row, made when missing
WriteCollegeSettings(r) ==
    LET q == req[r]  c == q.college IN
    /\ q.op = "settings"
    /\ IF college[c] = NoCollege THEN Done(r) /\ UNCHANGED <<setting, asked, changes>>
       ELSE /\ setting' = [setting EXCEPT ![c] =
                   [row |-> TRUE, value |-> SettingsData(@.value, q.todo, q.n)]]
            /\ asked' = [asked EXCEPT ![c] = [f \in Fields |-> IF f \in q.todo THEN q.n ELSE @[f]]]
            /\ Change(r, c)
    /\ UNCHANGED <<serviceRows, requests, theme, read, override, audits, unlogged>>

\* updateProfile: a form without a theme sets it back to SYSTEM
UpdateProfile(r, u, chosen) ==
    /\ Call(r, u, "updateProfile")
    /\ theme' = [theme EXCEPT ![u] = IF chosen = None THEN "SYSTEM" ELSE chosen]
    /\ Change(r, user[u].college)
    /\ UNCHANGED <<serviceRows, setting, read, override, audits, asked, unlogged>>

\* markNotificationRead finds the row ...
MarkNotificationRead(r, u, n) ==
    /\ Call(r, u, "markNotificationRead") /\ Markable(u, n)
    /\ req' = [req EXCEPT ![r] = [NoReq EXCEPT !.op = "mark-read", !.data = n]]
    /\ UNCHANGED <<serviceRows, panelRows>>

\* ... and updates it, read or not
WriteNotificationRead(r) ==
    LET n == req[r].data IN
    /\ req[r].op = "mark-read"
    /\ read' = read \cup {n} /\ Change(r, Notice[n].college)
    /\ UNCHANGED <<serviceRows, requests, setting, theme, override, audits, asked, unlogged>>

\* upsertPermission: rights the form leaves out are canView and no other
UpsertPermission(r, u, t, given) ==
    /\ Call(r, u, "upsertPermission") /\ MayOverride(u, t)
    /\ override' = [override EXCEPT ![t] = IF given = {} THEN {"canView"} ELSE given]
    /\ Change(r, user[t].college)
    /\ UNCHANGED <<serviceRows, setting, theme, read, audits, asked, unlogged>>

\* Mutant: without an audit row.
MutRecord(r) ==
    /\ req[r].op = "record" /\ Done(r)
    /\ UNCHANGED <<serviceRows, requests, panelRows>>

\* record: the audit row and the activity row in one transaction
Record(r) ==
    /\ req[r].op = "record" /\ Done(r)
    /\ audits' = [audits EXCEPT ![req[r].college] = @ + 1]
    /\ UNCHANGED <<serviceRows, requests, setting, theme, read, override, asked,
                   changes, unlogged>>

Recording(c) == {r \in Requests : req[r].op = "record" /\ req[r].college = c}

PanelCrash ==
    /\ Crash
    /\ unlogged' = [c \in Scopes |-> unlogged[c] + Cardinality(Recording(c))]
    /\ UNCHANGED <<setting, theme, read, override, audits, asked, changes>>

PanelNext ==
    \E r \in Requests :
      \/ WriteCollegeSettings(r) \/ WriteNotificationRead(r) \/ Record(r)
      \/ \E u \in Users :
           \/ \E asks \in Scopes :
                \/ ReadCollegeSettings(r, u, asks)
                \/ \E given \in SUBSET Fields : UpdateCollegeSettings(r, u, asks, given)
           \/ \E chosen \in {None, "DARK"} : UpdateProfile(r, u, chosen)
           \/ \E n \in Notices : MarkNotificationRead(r, u, n)
           \/ \E t \in Users, given \in {{}, {"canView", "canUpdate"}} :
                UpsertPermission(r, u, t, given)

\* the whole platform: the rows of all four modules side by side
PlatformInit ==
    /\ AccountsInit /\ EnrolRowsInit
    /\ \E plansOf \in [Colleges -> SUBSET Plans] : TenancyRowsInit(plansOf)
    /\ PanelRowsInit

PlatformNext ==
    \/ (AuthNext \/ CollegesNext) /\ UNCHANGED <<enrolRows, tenantRows, panelRows>>
    \/ (StructureNext \/ EnrolNext \/ PersonNext) /\ UNCHANGED <<tenantRows, panelRows>>
    \/ TenancyNext /\ UNCHANGED panelRows
    \/ PanelNext \/ PanelCrash

PlatformSpec == PlatformInit /\ [][PlatformNext]_panelVars

-----------------------------------------------------------------------------
(* Properties. *)

\* Every change made from the panel has its audit and activity rows under the
\* college it concerns, is about to, or was cut off from them by a restart:
\* with overlapping requests no row is missing and none is there twice.
ChangesAudited ==
    \A c \in Scopes : changes[c] = audits[c] + Cardinality(Recording(c)) + unlogged[c]

\* Updates of different fields of a college's settings do not undo each other:
\* a field has the value of the last update that named it.
SettingsAsRequested == \A c \in Colleges : setting[c].value = asked[c]

\* What the panel lists and what it lets a user change agree: a notification
\* can be marked read by exactly the user whose list holds it, and whoever an
\* administrator may override is among the users it is shown.
PanelListsAgree ==
    \A u \in {x \in Users : Exists(x)} :
        /\ {n \in Notices : Markable(u, n)} = UNION {ListedNotices(u, asks) : asks \in Scopes}
        /\ {t \in Users : MayOverride(u, t)} \subseteq ListedUsers(u, None)

AccTypeOK == AccountsTypeOK /\ EnrolTypeOK /\ TenancyTypeOK /\ PanelTypeOK

\* The administration panel audits every change, loses no setting to an
\* overlapping update, and lists what it lets a user change.
PanelConsistent ==
    /\ AccTypeOK
    /\ ChangesAudited
    /\ SettingsAsRequested
    /\ PanelListsAgree
=============================================================================
