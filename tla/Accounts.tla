------------------------------ MODULE Accounts ------------------------------
(***************************************************************************)
(* Accounts and sessions (AuthService), colleges (CollegesService) and the   *)
(* gate in front of every request (MaintenanceMiddleware, JwtAuthGuard,      *)
(* RolesGuard).  A user row is named by its unique e-mail, a college by its  *)
(* unique code.  A password is its version number (0: none was ever set).    *)
(* Reads and writes that another request can come between are steps of their *)
(* own.  Hashes, texts and audit rows are left out.                          *)
(***************************************************************************)
EXTENDS Integers, FiniteSets, AccessControl

CONSTANTS Users, Colleges, None,
          MaxSessions,     \* bound: refresh tokens
          MaxResetTokens,  \* bound: password reset tokens
          Requests,        \* slots for requests in flight
          MaxRequests,     \* bound: requests started and expiries
          MaxCrashes,      \* bound: restarts of the API process
          LoginLimit       \* attempts on an account within a window (10)

Sessions == 1..MaxSessions
ResetTokens == 1..MaxResetTokens

ASSUME AccountsAssumption ==
    /\ {MaxSessions, MaxResetTokens, MaxRequests, MaxCrashes} \subseteq Nat
    /\ LoginLimit \in Nat \ {0}
    /\ None \notin Users \cup Colleges
    /\ IsFiniteSet(Requests) /\ IsFiniteSet(Users)

VARIABLES user, college, session, resetToken,
          access,       \* holders of an access token that has not expired
          rate,         \* login-rate counters in Redis, and whether they expire
          localRate,    \* localRateLimits of the process
          maintenance,  \* maintenanceState.enabled
          req,          \* the handlers in flight
          overtaken,    \* history: archived colleges a status change had read before
          unmarked,     \* history: refreshed tokens whose marking a crash cut off
          unexpiring,   \* history: counters whose expiry was never set
          requests, crashes

authRows == <<user, session, resetToken, access>>
gateRows == <<rate, localRate, maintenance, unexpiring>>
accountVars == <<authRows, gateRows, college, req, overtaken, unmarked, requests, crashes>>

NoUser == [role |-> "NONE", college |-> None, active |-> FALSE,
           pw |-> 0, resets |-> 0, profile |-> "NONE"]
NoCollege == [status |-> "NONE", active |-> FALSE, deleted |-> FALSE]
NoSession == [user |-> None, state |-> "none", parent |-> 0, auth |-> 0, raced |-> FALSE]
NoReset == [user |-> None, status |-> "none", base |-> 0]
NoReq == [op |-> "idle", data |-> None, user |-> None, college |-> None,
          id |-> 0, n |-> 0, raced |-> FALSE, todo |-> {}]

AccountsTypeOK ==
    /\ user \in [Users -> [role : Roles \cup {"NONE"}, college : Colleges \cup {None},
           active : BOOLEAN, pw : Nat, resets : Nat,
           profile : {"NONE", "ACTIVE", "INACTIVE"}]]
    /\ college \in [Colleges -> [status : {"NONE", "ACTIVE", "INACTIVE"},
           active : BOOLEAN, deleted : BOOLEAN]]
    /\ \A c \in Colleges : college[c].active <=> college[c].status = "ACTIVE"
    /\ session \in [Sessions -> [user : Users \cup {None},
           state : {"none", "live", "revoked", "expired"}, parent : 0..MaxSessions,
           auth : Nat, raced : BOOLEAN]]
    /\ resetToken \in [ResetTokens -> [user : Users \cup {None},
           status : {"none", "ACTIVE", "USED", "REVOKED"}, base : 0..MaxResetTokens]]
    /\ access \subseteq Users /\ unexpiring \subseteq Users
    /\ rate \in [Users -> [n : 0..(LoginLimit + 1), ttl : BOOLEAN]]
    /\ localRate \in [Users -> 0..(LoginLimit + 1)]
    /\ maintenance \in BOOLEAN
    /\ DOMAIN req = Requests
    /\ overtaken \subseteq Colleges /\ unmarked \subseteq Sessions
    /\ requests \in 0..MaxRequests /\ crashes \in 0..MaxCrashes

First(S) == CHOOSE x \in S : \A y \in S : x <= y
FreeSessions == {s \in Sessions : session[s].state = "none"}
FreeResets == {t \in ResetTokens : resetToken[t].status = "none"}
Exists(u) == user[u].role # "NONE"

\* a user as seeded or created by an administrator, nobody's password reset yet
Settled(u) ==
    /\ user[u].role = "SUPER_ADMIN" \/ user[u].college \in Colleges
    /\ user[u].pw > 0 /\ user[u].resets = 0
    /\ user[u].profile # "NONE" => (user[u].active <=> user[u].profile = "ACTIVE")

AccountsInit ==
    /\ \A u \in Users : IF Exists(u) THEN Settled(u) ELSE user[u] = NoUser
    /\ \A c \in Colleges : college[c].deleted => ~college[c].active
    /\ session \in [Sessions -> {NoSession} \cup
           {[NoSession EXCEPT !.user = u, !.state = "live"] : u \in Users}]
    /\ \A s, t \in ResetTokens : s < t =>
           /\ resetToken[s].status = "none" => resetToken[t].status = "none"
           /\ resetToken[s].user = resetToken[t].user => resetToken[t].status # "ACTIVE"
    /\ \A t \in ResetTokens : resetToken[t].base = 0
           /\ (resetToken[t].status = "ACTIVE" => resetToken[t].user \in Users)
    /\ rate = [u \in Users |-> [n |-> 0, ttl |-> FALSE]]
    /\ localRate = [u \in Users |-> 0]
    /\ maintenance = FALSE
    /\ req = [r \in Requests |-> NoReq]
    /\ overtaken = {} /\ unmarked = {} /\ unexpiring = {}
    /\ requests = 0 /\ crashes = 0
    /\ AccountsTypeOK

-----------------------------------------------------------------------------
(* The gate. *)

CollegeUsable(c) == c # None => college[c].active /\ college[c].status = "ACTIVE"

\* the check of login, refresh, requestPasswordReset and resetPassword
Enabled(u) == Exists(u) /\ user[u].active /\ CollegeUsable(user[u].college)

\* MaintenanceMiddleware runs before the guards, so request.user is not set and
\* allowAdmins admits nobody; only health checks and /system/maintenance pass
GateOpen(public) == ~maintenance

Begin(r, public) ==
    /\ requests < MaxRequests /\ req[r] = NoReq /\ GateOpen(public)
    /\ requests' = requests + 1

\* an authenticated request: role and college of a user row never change, so
\* the token's copies of them agree with the row
Authenticated(u, route) ==
    /\ u \in access
    /\ TokenAccepted(user[u], user[u], CollegeUsable(user[u].college))
    /\ RoleAdmitted(AccountRoutes[route], user[u].role)

Call(r, u, route) == Begin(r, FALSE) /\ Authenticated(u, route)
TimePasses == requests < MaxRequests /\ requests' = requests + 1
Done(r) == req' = [req EXCEPT ![r] = NoReq]

\* updateMaintenance: exempt from the middleware, not from the guards
UpdateMaintenance(u, on) ==
    /\ requests < MaxRequests /\ requests' = requests + 1
    /\ Authenticated(u, "updateMaintenance") /\ maintenance' = on
    /\ UNCHANGED <<authRows, college, rate, localRate, unexpiring, req,
                   overtaken, unmarked, crashes>>

AccessExpires(u) ==
    /\ TimePasses
    /\ u \in access /\ access' = access \ {u}
    /\ UNCHANGED <<user, session, resetToken, gateRows, college, req, overtaken,
                   unmarked, crashes>>

-----------------------------------------------------------------------------
(* login. *)

Step(r, op, u, n) == req' = [req EXCEPT ![r] = [NoReq EXCEPT !.op = op, !.user = u, !.n = n]]
Bump(n) == IF n <= LoginLimit THEN n + 1 ELSE n

\* enforceLocalRateLimit, when Redis failed or timed out
LocalLimit(r, u) ==
    /\ localRate' = [localRate EXCEPT ![u] = Bump(@)]
    /\ IF localRate[u] < LoginLimit THEN Step(r, "lookup", u, 0) ELSE Done(r)

\* enforceLoginRateLimit: INCR ...
Login(r, u) ==
    /\ Begin(r, TRUE)
    /\ \/ /\ rate' = [rate EXCEPT ![u].n = Bump(@)]
          /\ CASE rate[u].n = 0 -> Step(r, "expire", u, 0)
               [] rate[u].n >= LoginLimit -> UNCHANGED req
               [] OTHER -> Step(r, "lookup", u, 0)
          /\ UNCHANGED localRate
       \/ LocalLimit(r, u) /\ UNCHANGED rate
    /\ UNCHANGED <<authRows, maintenance, unexpiring, college, overtaken, unmarked, crashes>>

\* ... and EXPIRE for the first attempt of a window, which may fail too
LoginExpire(r) ==
    LET u == req[r].user IN
    /\ req[r].op = "expire"
    /\ \/ rate' = [rate EXCEPT ![u].ttl = TRUE] /\ Step(r, "lookup", u, 0)
          /\ UNCHANGED <<localRate, unexpiring>>
       \/ LocalLimit(r, u) /\ unexpiring' = unexpiring \cup {u} /\ UNCHANGED rate
    /\ UNCHANGED <<authRows, maintenance, college, overtaken, unmarked, requests, crashes>>

WindowEnds(u) ==
    /\ TimePasses
    /\ \/ rate[u].ttl /\ rate' = [rate EXCEPT ![u] = [n |-> 0, ttl |-> FALSE]]
          /\ UNCHANGED localRate
       \/ localRate[u] > 0 /\ localRate' = [localRate EXCEPT ![u] = 0] /\ UNCHANGED rate
    /\ UNCHANGED <<authRows, maintenance, unexpiring, college, req, overtaken,
                   unmarked, crashes>>

\* the row is read, and the password checked against what was read
LoginLookup(r) ==
    LET u == req[r].user IN
    /\ req[r].op = "lookup"
    /\ \/ Enabled(u) /\ user[u].pw > 0 /\ Step(r, "create", u, user[u].resets)
       \/ Done(r)
    /\ UNCHANGED <<authRows, gateRows, college, overtaken, unmarked, requests, crashes>>

\* createSession: sign an access token, store a refresh token
NewSession(u, parent, auth, seen, raced) ==
    /\ FreeSessions # {}
    /\ session' = [session EXCEPT ![First(FreeSessions)] =
           [user |-> u, state |-> "live", parent |-> parent, auth |-> auth,
            raced |-> raced \/ user[u].resets # seen]]
    /\ access' = access \cup {u}

LoginCreate(r) ==
    /\ req[r].op = "create" /\ NewSession(req[r].user, 0, req[r].n, req[r].n, FALSE) /\ Done(r)
    /\ UNCHANGED <<user, resetToken, gateRows, college, overtaken, unmarked, requests, crashes>>

-----------------------------------------------------------------------------
(* refresh and logout. *)

Refresh(r, s) ==
    /\ Begin(r, TRUE)
    /\ session[s].state = "live" /\ Enabled(session[s].user)
    /\ req' = [req EXCEPT ![r] = [NoReq EXCEPT !.op = "refresh", !.id = s,
           !.user = session[s].user, !.n = user[session[s].user].resets,
           !.raced = session[s].raced]]
    /\ UNCHANGED <<authRows, gateRows, college, overtaken, unmarked, crashes>>

\* the next session first ...
RefreshCreate(r) ==
    LET q == req[r] IN
    /\ q.op = "refresh" /\ NewSession(q.user, q.id, session[q.id].auth, q.n, q.raced)
    /\ req' = [req EXCEPT ![r] = [q EXCEPT !.op = "mark", !.n = First(FreeSessions)]]
    /\ UNCHANGED <<user, resetToken, gateRows, college, overtaken, unmarked, requests, crashes>>

\* Mutant: the old token is only linked to its successor.
MutRefreshMark(r) ==
    /\ req[r].op = "mark" /\ Done(r)
    /\ UNCHANGED <<authRows, gateRows, college, overtaken, unmarked, requests, crashes>>

\* ... and then the old one is revoked, whatever happened to it meanwhile
RefreshMark(r) ==
    /\ req[r].op = "mark" /\ Done(r)
    /\ session' = [session EXCEPT ![req[r].id].state = "revoked"]
    /\ UNCHANGED <<user, resetToken, access, gateRows, college, overtaken,
                   unmarked, requests, crashes>>

\* logout needs an access token of any user and revokes the cookie's token
Logout(r, u, s) ==
    /\ Begin(r, FALSE) /\ u \in access /\ Enabled(u)
    /\ session[s].state = "live"
    /\ session' = [session EXCEPT ![s].state = "revoked"]
    /\ UNCHANGED <<user, resetToken, access, gateRows, college, req, overtaken,
                   unmarked, crashes>>

SessionExpires(s) ==
    /\ TimePasses
    /\ session[s].state = "live"
    /\ session' = [session EXCEPT ![s].state = "expired"]
    /\ UNCHANGED <<user, resetToken, access, gateRows, college, req, overtaken,
                   unmarked, crashes>>

-----------------------------------------------------------------------------
(* Password reset by e-mail. *)

Revoked(t) == IF t.status = "ACTIVE" THEN [t EXCEPT !.status = "REVOKED"] ELSE t

\* requestPasswordReset revokes the user's ACTIVE tokens ...
RequestPasswordReset(r, u) ==
    /\ Begin(r, TRUE) /\ Enabled(u)
    /\ resetToken' = [t \in ResetTokens |-> IF resetToken[t].user = u
           THEN Revoked(resetToken[t]) ELSE resetToken[t]]
    /\ Step(r, "issue", u, Cardinality(ResetTokens \ FreeResets))
    /\ UNCHANGED <<user, session, access, gateRows, college, overtaken, unmarked, crashes>>

\* ... and creates the new one, to be mailed
IssueReset(r) ==
    /\ req[r].op = "issue" /\ FreeResets # {} /\ Done(r)
    /\ resetToken' = [resetToken EXCEPT ![First(FreeResets)] =
           [user |-> req[r].user, status |-> "ACTIVE", base |-> req[r].n]]
    /\ UNCHANGED <<user, session, access, gateRows, college, overtaken, unmarked, requests, crashes>>

\* resetPassword checks the token, hashes the password ...
ResetPassword(r, t) ==
    /\ Begin(r, TRUE) /\ resetToken[t].status = "ACTIVE" /\ Enabled(resetToken[t].user)
    /\ req' = [req EXCEPT ![r] = [NoReq EXCEPT !.op = "reset", !.id = t,
           !.user = resetToken[t].user]]
    /\ UNCHANGED <<authRows, gateRows, college, overtaken, unmarked, crashes>>

\* ... and in one transaction sets it, uses the token, even one used or
\* revoked since, and revokes every session of the user
ResetWrite(r) ==
    LET q == req[r] IN
    /\ q.op = "reset" /\ Done(r)
    /\ user' = [user EXCEPT ![q.user].pw = @ + 1, ![q.user].resets = @ + 1]
    /\ resetToken' = [resetToken EXCEPT ![q.id].status = "USED"]
    /\ session' = [s \in Sessions |->
           IF session[s].user = q.user /\ session[s].state \in {"live", "expired"}
           THEN [session[s] EXCEPT !.state = "revoked"] ELSE session[s]]
    /\ UNCHANGED <<access, gateRows, college, overtaken, unmarked, requests, crashes>>

-----------------------------------------------------------------------------
(* Colleges. *)

\* create: the college and its first administrator in one transaction; codes
\* and e-mails of archived colleges are taken too (unique columns)
CreateCollege(r, u, c, e, status) ==
    /\ Call(r, u, "createCollege")
    /\ college[c] = NoCollege /\ (e # None => ~Exists(e))
    /\ college' = [college EXCEPT ![c] = [status |-> status,
           active |-> status = "ACTIVE", deleted |-> FALSE]]
    /\ user' = IF e = None THEN user ELSE [user EXCEPT ![e] = [NoUser EXCEPT
           !.role = "COLLEGE_ADMIN", !.college = c, !.active = TRUE, !.pw = 1]]
    /\ UNCHANGED <<session, resetToken, access, gateRows, req, overtaken, unmarked, crashes>>

\* findVisibleCollege
Visible(c) == college[c] # NoCollege /\ ~college[c].deleted

\* updateStatus and archive read the row ...
ChangeCollege(r, u, c, op) ==
    /\ op \in {"ACTIVE", "INACTIVE", "archive"}
    /\ Call(r, u, IF op = "archive" THEN "archiveCollege" ELSE "updateCollegeStatus")
    /\ Visible(c)
    /\ req' = [req EXCEPT ![r] = [NoReq EXCEPT !.op = op, !.college = c,
           !.raced = college[c].deleted]]
    /\ UNCHANGED <<authRows, gateRows, college, overtaken, unmarked, crashes>>

\* ... and write it, deleted by now or not
CollegeWrite(r) ==
    LET q == req[r] IN
    /\ q.op \in {"ACTIVE", "INACTIVE", "archive"} /\ Done(r)
    /\ college' = [college EXCEPT ![q.college] =
           IF q.op = "archive" THEN [status |-> "INACTIVE", active |-> FALSE, deleted |-> TRUE]
           ELSE [@ EXCEPT !.status = q.op, !.active = (q.op = "ACTIVE")]]
    /\ overtaken' = IF college[q.college].deleted /\ ~q.raced
           THEN overtaken \cup {q.college} ELSE overtaken
    /\ UNCHANGED <<authRows, gateRows, unmarked, requests, crashes>>

-----------------------------------------------------------------------------
(* A restart forgets the requests in flight and the local counters. *)
CrashAccounts ==
    /\ crashes < MaxCrashes /\ crashes' = crashes + 1
    /\ req' = [r \in Requests |-> NoReq]
    /\ localRate' = [u \in Users |-> 0]
    /\ unmarked' = unmarked \cup {req[r].id : r \in {x \in Requests : req[x].op = "mark"}}
    /\ unexpiring' = unexpiring \cup {req[r].user : r \in {x \in Requests : req[x].op = "expire"}}
    /\ UNCHANGED <<authRows, rate, maintenance, college, overtaken, requests>>

AuthNext ==
    \/ \E r \in Requests :
         \/ \E u \in Users : Login(r, u) \/ RequestPasswordReset(r, u)
         \/ LoginExpire(r) \/ LoginLookup(r) \/ LoginCreate(r)
         \/ \E s \in Sessions : Refresh(r, s) \/ \E u \in Users : Logout(r, u, s)
         \/ RefreshCreate(r) \/ RefreshMark(r)
         \/ \E t \in ResetTokens : ResetPassword(r, t)
         \/ IssueReset(r) \/ ResetWrite(r)
    \/ \E u \in Users : AccessExpires(u) \/ WindowEnds(u)
                        \/ \E on \in BOOLEAN : UpdateMaintenance(u, on)
    \/ \E s \in Sessions : SessionExpires(s)

CollegesNext ==
    \E r \in Requests :
      \/ \E u \in Users, c \in Colleges :
           \/ \E e \in Users \cup {None}, s \in {"ACTIVE", "INACTIVE"} :
                 CreateCollege(r, u, c, e, s)
           \/ \E op \in {"ACTIVE", "INACTIVE", "archive"} : ChangeCollege(r, u, c, op)
      \/ CollegeWrite(r)

-----------------------------------------------------------------------------
(* Properties. *)

\* A reset of the password ends the sessions opened before it: the only ones
\* alive afterwards come from a login or a refresh that was under way while the
\* password changed, or descend from one.  (AuthService.resetPassword revokes
\* what exists; login and refresh create their token after an earlier check.)
SelfResetEndsSessions ==
    \A s \in Sessions : session[s].state = "live" =>
        session[s].raced \/ session[s].auth = user[session[s].user].resets

\* A refresh token that has a live successor is out of use, except while the
\* refresh that replaces it is on its way to mark it or after a restart cut it
\* off.  (AuthService.refresh creates first and revokes second.)
ParentRetired ==
    \A s \in Sessions : session[s].state = "live" /\ session[s].parent # 0 =>
        LET p == session[s].parent IN
        \/ session[p].state # "live" \/ p \in unmarked
        \/ \E r \in Requests : req[r].op = "mark" /\ req[r].id = p

\* Two reset tokens of a user are good at once only if the requests for them
\* overlapped: the second had revoked the old ones before the first created its
\* own.  (AuthService.requestPasswordReset, updateMany and then create.)
ActiveResetsOverlap ==
    \A s, t \in ResetTokens :
        s < t /\ resetToken[s].status = "ACTIVE" /\ resetToken[t].status = "ACTIVE"
        /\ resetToken[s].user = resetToken[t].user => resetToken[t].base < s

\* A login counter expires, so that nobody stays locked out: one without an
\* expiry has its EXPIRE under way, or lost it to a failure of Redis or to a
\* restart.  (AuthService.enforceLoginRateLimit, INCR and then EXPIRE.)
LockoutEnds ==
    \A u \in Users : rate[u].n > 0 => rate[u].ttl \/ u \in unexpiring
        \/ \E r \in Requests : req[r].op = "expire" /\ req[r].user = u

\* Sessions, reset tokens and lockouts come to an end as promised, except where
\* two requests overlapped or a restart or a failure of Redis cut one short.
SessionsEnd ==
    /\ SelfResetEndsSessions
    /\ ParentRetired
    /\ ActiveResetsOverlap
    /\ LockoutEnds

\* An archived college stays closed: it is open again only if a change of its
\* status had read the row before it was archived.
ArchiveStands ==
    \A c \in Colleges : college[c].deleted /\ college[c].active => c \in overtaken

=============================================================================
