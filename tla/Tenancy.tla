------------------------------ MODULE Tenancy -------------------------------
(***************************************************************************)
(* Tenants of the platform (SaasService): signup, onboarding, subscription,  *)
(* plans and entitlements, billing webhooks and checkout, branding, domains, *)
(* support tickets and push tokens.  The service writes row after row        *)
(* without a transaction; each write another request can come before is a    *)
(* step of its own.  Prices, texts and dates are left out.                   *)
(***************************************************************************)
EXTENDS Enrolment

CONSTANTS Features,    \* featureKey
          Plans,       \* plans with an active version
          PlanFeature, \* PlanFeature[p]: the features a plan lists, and whether
                       \* it enables them
          Steps,       \* steps of onboarding
          MaxVersion   \* bound: versions of a tenant's branding

ASSUME TenancyAssumption ==
    /\ IsFiniteSet(Steps) /\ MaxVersion \in Nat \ {0}
    /\ \A p \in Plans :
         /\ DOMAIN PlanFeature[p] \subseteq Features
         /\ \A f \in DOMAIN PlanFeature[p] : PlanFeature[p][f] \in BOOLEAN

Lifecycle == {"TRIAL", "ACTIVE", "SUSPENDED", "CANCELLED"}

VARIABLES profile,      \* tenantProfile: status, onboardingPercent as a count
          subscribed,   \* the plans of a college's tenantSubscription rows
          entitled,     \* featureEntitlement.enabled
          step,         \* completed onboardingProgress rows
          branding,     \* tenantBranding.version (0: no row)
          snapshots,    \* tenantBrandingVersion rows
          domain,       \* the tenant a domain is registered for
          push,         \* the user of a mobilePushToken row
          ticket,       \* support ticket and the authors of its internal notes
          event,        \* billingWebhookEvent stored, billingAuditEvent rows
          torn,         \* history: colleges whose signup did not finish
          lapped        \* history: colleges where a save of onboarding was overtaken,
                        \* cut off or without a profile

tenantRows == <<profile, subscribed, entitled, step, branding, snapshots,
                domain, push, ticket, event, torn, lapped>>
tenantVars == <<enrolVars, tenantRows>>
accountRows == <<authRows, gateRows, college, overtaken, unmarked, crashes, enrolRows>>

TenancyTypeOK ==
    /\ profile \in [Colleges -> [status : Lifecycle \cup {"NONE"}, percent : Nat]]
    /\ subscribed \in [Colleges -> SUBSET Plans]
    /\ entitled \in [Colleges -> SUBSET Features]
    /\ step \in [Colleges -> SUBSET Steps]
    /\ branding \in [Colleges -> 0..MaxVersion]
    /\ snapshots \in [Colleges -> SUBSET (1..MaxVersion)]
    /\ domain \in Colleges \cup {None} /\ push \in Users \cup {None}
    /\ ticket \in [college : Colleges \cup {None}, notes : SUBSET Users,
                   status : {"NONE", "OPEN", "WAITING_ON_CUSTOMER", "IN_PROGRESS"}]
    /\ event \in [stored : BOOLEAN, audits : Nat]
    /\ torn \subseteq Colleges /\ lapped \subseteq Colleges

\* a tenant at the start is on trial, and has what its plans enable
TenancyRowsInit(plansOf) ==
    /\ profile = [c \in Colleges |-> [status |-> IF Visible(c) THEN "TRIAL" ELSE "NONE",
                                      percent |-> 0]]
    /\ subscribed = plansOf
    /\ entitled = [c \in Colleges |-> {f \in Features : \E p \in plansOf[c] :
                       f \in DOMAIN PlanFeature[p] /\ PlanFeature[p][f]}]
    /\ step = [c \in Colleges |-> {}]
    /\ branding = [c \in Colleges |-> IF plansOf[c] # {} THEN 1 ELSE 0]
    /\ snapshots = [c \in Colleges |-> {}]
    /\ domain = None /\ push = None
    /\ ticket = [college |-> None, notes |-> {}, status |-> "NONE"]
    /\ event = [stored |-> FALSE, audits |-> 0]
    /\ torn = {} /\ lapped = {}

\* requireTenant
TenantCall(r, u, route) == Call(r, u, route) /\ user[u].college # None

Go(r, op, c, id) == req' = [req EXCEPT ![r] = [NoReq EXCEPT !.op = op, !.college = c, !.data = id]]

-----------------------------------------------------------------------------
(* institutionSignup: five creates in a row. *)

\* the checks look at colleges only, and the college comes first
Signup(r, c, e) ==
    /\ Begin(r, TRUE) /\ college[c] = NoCollege
    /\ college' = [college EXCEPT ![c] = [status |-> "ACTIVE", active |-> TRUE, deleted |-> FALSE]]
    /\ Go(r, "admin", c, e)
    /\ UNCHANGED <<authRows, gateRows, overtaken, unmarked, crashes, enrolRows, tenantRows>>

\* an e-mail that a user already has ends the signup here
SignupAdmin(r) ==
    LET q == req[r] IN
    /\ q.op = "admin"
    /\ IF Exists(q.data) THEN Done(r) /\ torn' = torn \cup {q.college} /\ UNCHANGED user
       ELSE /\ user' = [user EXCEPT ![q.data] = [NoUser EXCEPT
                 !.role = "COLLEGE_ADMIN", !.college = q.college, !.active = TRUE]]
            /\ req' = [req EXCEPT ![r].op = "profile"] /\ UNCHANGED torn
    /\ UNCHANGED <<session, resetToken, access, gateRows, college, overtaken, unmarked,
                   requests, crashes, enrolRows, profile, subscribed, entitled, step,
                   branding, snapshots, domain, push, ticket, event, lapped>>

\* a profile that updateTenantStatus made meanwhile is a clash
SignupProfile(r) ==
    LET q == req[r] IN
    /\ q.op = "profile"
    /\ IF profile[q.college].status # "NONE"
       THEN Done(r) /\ torn' = torn \cup {q.college} /\ UNCHANGED profile
       ELSE /\ profile' = [profile EXCEPT ![q.college] = [status |-> "TRIAL", percent |-> 1]]
            /\ req' = [req EXCEPT ![r].op = "trial"] /\ UNCHANGED torn
    /\ UNCHANGED <<accountRows, requests, subscribed, entitled, step, branding,
                   snapshots, domain, push, ticket, event, lapped>>

\* the trial subscription and the billing customer; no entitlements yet
SignupTrial(r, p) ==
    /\ req[r].op = "trial" /\ Done(r)
    /\ subscribed' = [subscribed EXCEPT ![req[r].college] = @ \cup {p}]
    /\ UNCHANGED <<accountRows, requests, profile, entitled, step, branding,
                   snapshots, domain, push, ticket, event, torn, lapped>>

-----------------------------------------------------------------------------
(* Onboarding. *)

InFlight(c, ops) == \E r \in Requests : req[r].op \in ops /\ req[r].college = c

\* saveOnboardingStep writes the step ...
SaveOnboardingStep(r, u, s, done) ==
    LET c == user[u].college IN
    /\ TenantCall(r, u, "saveOnboardingStep")
    /\ step' = [step EXCEPT ![c] = IF done THEN @ \cup {s} ELSE @ \ {s}]
    /\ Go(r, "count", c, s)
    /\ lapped' = IF InFlight(c, {"count", "percent"}) THEN lapped \cup {c} ELSE lapped
    /\ UNCHANGED <<accountRows, profile, subscribed, entitled, branding, snapshots,
                   domain, push, ticket, event, torn>>

\* ... counts the completed ones ...
OnboardingCount(r) ==
    /\ req[r].op = "count"
    /\ req' = [req EXCEPT ![r].op = "percent", ![r].n = Cardinality(step[req[r].college])]
    /\ UNCHANGED <<accountRows, requests, tenantRows>>

\* ... and writes the share of them to the profile, which must be there
OnboardingPercent(r) ==
    LET q == req[r]  c == q.college IN
    /\ q.op = "percent" /\ Done(r)
    /\ IF profile[c].status = "NONE" THEN lapped' = lapped \cup {c} /\ UNCHANGED profile
       ELSE profile' = [profile EXCEPT ![c].percent = q.n] /\ UNCHANGED lapped
    /\ UNCHANGED <<accountRows, requests, subscribed, entitled, step, branding,
                   snapshots, domain, push, ticket, event, torn>>

-----------------------------------------------------------------------------
(* Status, plans, entitlements. *)

\* cancelSubscription, reactivateSubscription and updateTenantStatus write the
\* status, from whatever it was
SetLifecycle(r, u, c, status) ==
    /\ \/ /\ user[u].college = c /\ profile[c].status # "NONE"
          /\ \/ status = "CANCELLED" /\ TenantCall(r, u, "cancelSubscription")
             \/ status = "ACTIVE" /\ TenantCall(r, u, "reactivateSubscription")
       \/ Call(r, u, "updateTenantStatus") /\ college[c] # NoCollege
    /\ profile' = [profile EXCEPT ![c].status = status]
    /\ UNCHANGED <<accountRows, req, subscribed, entitled, step, branding,
                   snapshots, domain, push, ticket, event, torn, lapped>>

\* platformChangePlan adds a subscription ...
PlatformChangePlan(r, u, c, p) ==
    /\ Call(r, u, "platformChangePlan") /\ college[c] # NoCollege
    /\ subscribed' = [subscribed EXCEPT ![c] = @ \cup {p}]
    /\ req' = [req EXCEPT ![r] = [NoReq EXCEPT !.op = "sync", !.college = c,
           !.data = p, !.todo = DOMAIN PlanFeature[p]]]
    /\ UNCHANGED <<accountRows, profile, entitled, step, branding, snapshots,
                   domain, push, ticket, event, torn, lapped>>

\* ... and syncEntitlements goes through the features the new plan lists; what
\* only an earlier plan listed stays as it is
SyncEntitlement(r) ==
    LET q == req[r] IN
    /\ q.op = "sync"
    /\ \/ \E f \in q.todo :
            /\ entitled' = [entitled EXCEPT ![q.college] =
                   IF PlanFeature[q.data][f] THEN @ \cup {f} ELSE @ \ {f}]
            /\ req' = [req EXCEPT ![r].todo = @ \ {f}]
       \/ q.todo = {} /\ Done(r) /\ UNCHANGED entitled
    /\ UNCHANGED <<accountRows, requests, profile, subscribed, step, branding,
                   snapshots, domain, push, ticket, event, torn, lapped>>

\* assertEntitled
Entitled(c, f) == f \in entitled[c]

-----------------------------------------------------------------------------
(* Branding and domains. *)

\* updateBranding reads the current row ...
UpdateBranding(r, u) ==
    LET c == user[u].college IN
    /\ TenantCall(r, u, "updateBranding") /\ Entitled(c, "custom_branding")
    /\ req' = [req EXCEPT ![r] = [NoReq EXCEPT !.op = IF branding[c] = 0 THEN "brand" ELSE "snapshot",
           !.college = c, !.n = branding[c]]]
    /\ UNCHANGED <<accountRows, tenantRows>>

\* Mutant: no copy is kept.
MutBrandingSnapshot(r) ==
    /\ req[r].op = "snapshot" /\ req' = [req EXCEPT ![r].op = "brand"]
    /\ UNCHANGED <<accountRows, requests, tenantRows>>

\* ... keeps a copy of it: (collegeId, version) is unique, so the second of two
\* updates that read the same version fails here
BrandingSnapshot(r) ==
    LET q == req[r] IN
    /\ q.op = "snapshot"
    /\ IF q.n \in snapshots[q.college] THEN Done(r) /\ UNCHANGED snapshots
       ELSE /\ snapshots' = [snapshots EXCEPT ![q.college] = @ \cup {q.n}]
            /\ req' = [req EXCEPT ![r].op = "brand"]
    /\ UNCHANGED <<accountRows, requests, profile, subscribed, entitled, step,
                   branding, domain, push, ticket, event, torn, lapped>>

\* ... and writes the next version
BrandingWrite(r) ==
    LET q == req[r] IN
    /\ q.op = "brand" /\ q.n < MaxVersion /\ Done(r)
    /\ branding' = [branding EXCEPT ![q.college] = q.n + 1]
    /\ UNCHANGED <<accountRows, requests, profile, subscribed, entitled, step,
                   snapshots, domain, push, ticket, event, torn, lapped>>

\* createDomain: the name is unique over all tenants
CreateDomain(r, u) ==
    LET c == user[u].college IN
    /\ TenantCall(r, u, "createDomain") /\ Entitled(c, "custom_domain")
    /\ domain = None /\ domain' = c
    /\ UNCHANGED <<accountRows, req, profile, subscribed, entitled, step, branding,
                   snapshots, push, ticket, event, torn, lapped>>

-----------------------------------------------------------------------------
(* Webhooks, tickets, push tokens. *)

\* verifyWebhookSignature holds; an event is stored once, and every delivery
\* of it leaves one more audit row
Webhook(r) ==
    /\ Begin(r, TRUE)
    /\ event' = [stored |-> TRUE, audits |-> event.audits + 1]
    /\ UNCHANGED <<accountRows, req, profile, subscribed, entitled, step, branding,
                   snapshots, domain, push, ticket, torn, lapped>>

CreateSupportTicket(r, u) ==
    /\ TenantCall(r, u, "createSupportTicket") /\ ticket.status = "NONE"
    /\ ticket' = [college |-> user[u].college, notes |-> {}, status |-> "OPEN"]
    /\ UNCHANGED <<accountRows, req, profile, subscribed, entitled, step, branding,
                   snapshots, domain, push, event, torn, lapped>>

\* supportTicket, and the check of replySupportTicket
MayReply(u, internal) ==
    user[u].role = "SUPER_ADMIN" \/ (ticket.college = user[u].college /\ ~internal)

ReplySupportTicket(r, u, internal) ==
    /\ Call(r, u, "replySupportTicket") /\ ticket.status # "NONE" /\ MayReply(u, internal)
    /\ ticket' = [ticket EXCEPT !.notes = IF internal THEN @ \cup {u} ELSE @,
           !.status = IF user[u].role = "SUPER_ADMIN" THEN "WAITING_ON_CUSTOMER" ELSE "IN_PROGRESS"]
    /\ UNCHANGED <<accountRows, req, profile, subscribed, entitled, step, branding,
                   snapshots, domain, push, event, torn, lapped>>

\* createPushToken: a token that is known keeps the user it was created for
CreatePushToken(r, u) ==
    /\ Call(r, u, "createPushToken") /\ push' = IF push = None THEN u ELSE push
    /\ UNCHANGED <<accountRows, req, profile, subscribed, entitled, step, branding,
                   snapshots, domain, ticket, event, torn, lapped>>

-----------------------------------------------------------------------------
\* a restart, as in Accounts; a signup or a save of onboarding stops half way
Crash ==
    /\ CrashAccounts
    /\ torn' = torn \cup {req[r].college : r \in {x \in Requests :
                              req[x].op \in {"admin", "profile", "trial"}}}
    /\ lapped' = lapped \cup {req[r].college : r \in {x \in Requests :
                              req[x].op \in {"count", "percent"}}}
    /\ UNCHANGED <<enrolRows, profile, subscribed, entitled, step, branding,
                   snapshots, domain, push, ticket, event>>

TenancyNext ==
    \E r \in Requests :
      \/ \E c \in Colleges, e \in Users : Signup(r, c, e)
      \/ SignupAdmin(r) \/ SignupProfile(r) \/ \E p \in Plans : SignupTrial(r, p)
      \/ OnboardingCount(r) \/ OnboardingPercent(r) \/ SyncEntitlement(r)
      \/ BrandingSnapshot(r) \/ BrandingWrite(r) \/ Webhook(r)
      \/ \E u \in Users :
           \/ \E s \in Steps, done \in BOOLEAN : SaveOnboardingStep(r, u, s, done)
           \/ \E c \in Colleges :
                \/ \E status \in Lifecycle : SetLifecycle(r, u, c, status)
                \/ \E p \in Plans : PlatformChangePlan(r, u, c, p)
           \/ UpdateBranding(r, u) \/ CreateDomain(r, u) \/ CreateSupportTicket(r, u)
           \/ \E internal \in BOOLEAN : ReplySupportTicket(r, u, internal)
           \/ CreatePushToken(r, u)

-----------------------------------------------------------------------------
(* Properties. *)

\* A tenant has a feature only by a plan it was subscribed to that enables it,
\* however the feature by feature updates of several plan changes interleave.
EntitledByAPlan ==
    \A c \in Colleges : \A f \in entitled[c] : \E p \in subscribed[c] :
        f \in DOMAIN PlanFeature[p] /\ PlanFeature[p][f]

\* Every earlier version of a tenant's branding is kept: two updates cannot
\* overwrite the same version, and a restart loses none.
BrandingHistory ==
    \A c \in Colleges, v \in 1..MaxVersion : v < branding[c] => v \in snapshots[c]

\* The administrator a signup creates belongs to a tenant with a profile and a
\* subscription, unless the signup is under way or did not finish.
SignupWhole ==
    \A u \in Users : user[u].role = "COLLEGE_ADMIN" /\ user[u].pw = 0 =>
        LET c == user[u].college IN
        \/ profile[c].status # "NONE" /\ subscribed[c] # {}
        \/ c \in torn \/ InFlight(c, {"profile", "trial"})

\* The onboarding percentage is that of the completed steps once the save that
\* changed them is through, unless saves overlapped, a restart cut one off or
\* there was no profile to write to.
PercentExact ==
    \A c \in Colleges : step[c] # {} =>
        \/ profile[c].percent = Cardinality(step[c])
        \/ InFlight(c, {"count", "percent"}) \/ c \in lapped

\* What belongs to a tenant fits together although it is written by several
\* statements without a transaction: archive, entitlements, branding history,
\* signup and onboarding.
TenantsConsistent ==
    /\ ArchiveStands
    /\ EntitledByAPlan
    /\ BrandingHistory
    /\ SignupWhole
    /\ PercentExact
=============================================================================
