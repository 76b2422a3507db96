----------------------------- MODULE MCAccounts -----------------------------
(* Two colleges and room for a third; a platform administrator, an           *)
(* administrator and a student with a session of the first college, and room *)
(* for two more users.                                                        *)
EXTENDS Administration

VARIABLE area
CONSTANTS su, ad, st, nw, nx, c1, c2, p1, p2

Row(kind, c, course, semester, link) == [kind |-> kind, college |-> c,
    course |-> course, semester |-> semester, link |-> link,
    faculty |-> None, status |-> "ACTIVE"]
MCRows == <<Row("department", c1, 0, 0, 0), Row("course", c1, 0, 0, 1),
            Row("semester", c1, 2, 0, 0), Row("semester", c1, 2, 0, 0),
            Row("batch", c1, 2, 3, 0), Row("department", c2, 0, 0, 0),
            Row("subject", c1, 2, 3, 1)>>
MCPlanFeature == [p \in Plans |-> IF p = p1
    THEN [f \in Features |-> TRUE]
    ELSE [f \in {"custom_domain"} |-> FALSE]]

MCNotice == <<[user |-> su, college |-> c1], [user |-> ad, college |-> c1],
              [user |-> st, college |-> c1]>>

Account(role, c, prof) == [NoUser EXCEPT !.role = role, !.college = c,
    !.active = TRUE, !.pw = 1, !.profile = prof]

MCInit ==
    /\ user = [u \in Users |->
           CASE u = su -> Account("SUPER_ADMIN", None, "NONE")
             [] u = ad -> Account("COLLEGE_ADMIN", c1, "NONE")
             [] u = st -> Account("STUDENT", c1, "ACTIVE")
             [] OTHER -> NoUser]
    /\ college = [c \in Colleges |-> IF c \in {c1, c2}
           THEN [status |-> "ACTIVE", active |-> TRUE, deleted |-> FALSE] ELSE NoCollege]
    /\ session = [s \in Sessions |-> IF s = 1
           THEN [NoSession EXCEPT !.user = st, !.state = "live"] ELSE NoSession]
    /\ resetToken = [t \in ResetTokens |-> IF t = 1
           THEN [NoReset EXCEPT !.user = st, !.status = "ACTIVE"] ELSE NoReset]
    /\ access = {su, ad, st}
    /\ subscribed = [c \in Colleges |-> IF c = c1 THEN {p1} ELSE {}]
    /\ PlatformInit
    /\ area \in {"auth", "colleges", "people", "tenants", "panel"}

\* the areas meet in the rows of users and colleges only; a behaviour stays in
\* one of them, with the operations on those rows that matter there
ServicesNext ==
    \/ area = "auth" /\ (AuthNext \/ PersonNext) /\ UNCHANGED <<enrolRows, tenantRows>>
    \/ area \in {"colleges", "tenants"} /\ CollegesNext /\ UNCHANGED <<enrolRows, tenantRows>>
    \/ area = "colleges" /\ StructureNext /\ UNCHANGED tenantRows
    \/ area = "people" /\ EnrolNext /\ UNCHANGED tenantRows
    \/ area = "people" /\ PersonNext /\ UNCHANGED tenantRows
    \/ area = "tenants" /\ TenancyNext

MCNext ==
    /\ UNCHANGED area
    /\ \/ ServicesNext /\ UNCHANGED panelRows
       \/ area = "panel" /\ PanelNext
       \/ PanelCrash

MCSpec == MCInit /\ [][MCNext]_<<panelVars, area>>

Symmetry == Permutations(Requests) \cup Permutations({nw, nx})
=============================================================================
