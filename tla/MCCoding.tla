------------------------------ MODULE MCCoding ------------------------------
(* One or two departures from the example of a production environment;      *)
(* two students and an administrator of one college, an administrator of     *)
(* another and one of the platform; one background job; one student who      *)
(* starts attempts; a behaviour stays in one area.                           *)
EXTENDS Coding, JobQueue, AttemptStart

VARIABLE area
CONSTANTS su, ad, xa, st, s2, c1, c2

MCRole == [u \in Users |-> CASE u = su -> "SUPER_ADMIN" [] u \in {ad, xa} -> "COLLEGE_ADMIN"
             [] OTHER -> "STUDENT"]
MCCollege == [u \in Users |-> CASE u = su -> None [] u = xa -> c2 [] OTHER -> c1]

Program(status, language, tokens) ==
    [status |-> status, language |-> language, tokens |-> tokens]
MCSources == {Program("ACCEPTED", "enabled", {1, 2}),
              Program("WRONG_ANSWER", "other", {1, 2}),
              Program("ACCEPTED", "disabled", {1})}
Case(id, public, active, weight) ==
    [id |-> id, public |-> public, active |-> active, weight |-> weight]
MCCases == {Case(1, TRUE, TRUE, 0), Case(2, FALSE, TRUE, 2), Case(3, FALSE, FALSE, 1)}

\* .env.production.example and a developer's .env
Release == [NODE_ENV |-> "production", APP_ENV |-> "production", API_URL |-> "set",
    DATABASE_URL |-> "set", DIRECT_DATABASE_URL |-> "set", REDIS_URL |-> "set",
    JWT_ACCESS_SECRET |-> "own", JWT_REFRESH_SECRET |-> "own", APP_ENCRYPTION_KEY |-> "set",
    COOKIE_SECURE |-> "true", CORS_ORIGINS |-> "https://exam", TRUSTED_PROXIES |-> "set",
    FRONTEND_URL |-> "https://exam", WEB_ORIGIN |-> "https://exam", SWAGGER_ENABLED |-> "false",
    EMAIL_PROVIDER |-> "smtp", EMAIL_FROM |-> "set", OTEL_ENABLED |-> "false",
    OTEL_EXPORTER_ENDPOINT |-> "", OTEL_EXPORTER_OTLP_ENDPOINT |-> "", ERROR_TRACKING_DSN |-> "set",
    STORAGE_PROVIDER |-> "disabled", BACKUP_PROVIDER |-> "disabled", BACKUP_BUCKET |-> "",
    CODE_RUNNER_MODE |-> "DISABLED", CODE_RUNNER_URL |-> "", CODE_RUNNER_INTERNAL_TOKEN |-> "",
    INTERNAL_SERVICE_TOKEN |-> "set", AI_FEATURE_ENABLED |-> "true", AI_PROVIDER |-> "openai",
    AI_API_KEY |-> "", OPENAI_API_KEY |-> "", BILLING_ENABLED |-> "false",
    BILLING_PROVIDER |-> "DISABLED", BILLING_SECRET_KEY |-> "set",
    BILLING_WEBHOOK_SECRET |-> "set", PUSH_PROVIDER |-> "disabled", PUSH_PUBLIC_KEY |-> "",
    PUSH_PRIVATE_KEY |-> "set"]
Developer == [NODE_ENV |-> "development", DATABASE_URL |-> "set", REDIS_URL |-> "set",
    JWT_ACCESS_SECRET |-> "dev-access-secret-change-me",
    JWT_REFRESH_SECRET |-> "dev-refresh-secret-change-me", CODE_RUNNER_MODE |-> "MOCK"]
Unset(e, v) == [w \in DOMAIN e \ {v} |-> e[w]]
Set(e, v, x) == (v :> x) @@ e
OneOff(e) ==
    {Unset(e, v) : v \in DOMAIN e}
    \cup {Set(e, v, "") : v \in {"CORS_ORIGINS", "FRONTEND_URL", "WEB_ORIGIN", "DIRECT_DATABASE_URL",
            "INTERNAL_SERVICE_TOKEN", "EMAIL_FROM", "BILLING_SECRET_KEY", "BACKUP_PROVIDER"}}
    \cup {Set(e, v, "set") : v \in {"AI_API_KEY", "OPENAI_API_KEY", "CODE_RUNNER_URL",
            "CODE_RUNNER_INTERNAL_TOKEN", "AZURE_OPENAI_ENDPOINT", "PUSH_PUBLIC_KEY"}}
    \cup {Set(e, p[1], p[2]) : p \in {
            <<"NODE_ENV", "development">>, <<"NODE_ENV", "staging">>, <<"APP_ENV", "local">>,
            <<"JWT_ACCESS_SECRET", "short">>, <<"FRONTEND_URL", "not a URL">>,
            <<"FRONTEND_URL", "https://exam/app">>, <<"CORS_ORIGINS", "https://admin,https://exam/">>,
            <<"WEB_ORIGIN", " ">>, <<"CORS_ORIGINS", " ">>, <<"TRUSTED_PROXIES", " ">>,
            <<"EMAIL_PROVIDER", "console">>, <<"STORAGE_PROVIDER", "local">>,
            <<"EMAIL_PROVIDER", "other">>,
            <<"CODE_RUNNER_MODE", "MOCK">>, <<"CODE_RUNNER_MODE", "mock">>,
            <<"CODE_RUNNER_MODE", "EXTERNAL">>, <<"AI_FEATURE_ENABLED", "false">>,
            <<"AI_PROVIDER", "mock">>, <<"AI_PROVIDER", "azure-openai">>, <<"AI_PROVIDER", "ollama">>,
            <<"BILLING_PROVIDER", "MOCK">>, <<"BILLING_PROVIDER", "STRIPE">>,
            <<"BILLING_ENABLED", "true">>, <<"PUSH_PROVIDER", "fcm">>, <<"BACKUP_PROVIDER", "s3">>,
            <<"OTEL_ENABLED", "true">>}}
Deployments == LET one == OneOff(Release) IN
    UNION {OneOff(e) : e \in one} \cup OneOff(Developer) \cup {Release, Developer}
Modes == {Set(Set(Developer, "CODE_RUNNER_MODE", m), "NODE_ENV", n) :
            m \in {"MOCK", "DISABLED", "DOCKER_ISOLATED"}, n \in {"development", "test"}}

MCEnvironments == Deployments \cup Modes

CancelNext(u) == \E j \in JobIds : CancelJob(u, j)
SubmitNext(us) == \E u \in us, r \in Requests, src \in Sources :
    requests < 2 /\ RunOrSubmit(r, u, src, TRUE)
Symmetry == Permutations(Requests) \cup Permutations(Devices)

MCInit ==
    /\ area \in {"configuration", "modes", "judging", "staff", "queue", "start"}
    /\ CodingInit /\ QueueInit /\ StartsInit
    /\ CASE area = "configuration" -> TRUE [] area = "modes" -> env \in Modes
         [] OTHER -> env = Developer
MCNext ==
    /\ UNCHANGED area
    /\ IF area = "queue" THEN QueueNext ELSE UNCHANGED queueVars
    /\ IF area = "start" THEN StartsNext ELSE UNCHANGED svars
    /\ CASE area \in {"queue", "start"} -> UNCHANGED codingVars
         [] area = "configuration" -> requests = 0 /\ RunnerSubmit(st)
         [] area = "modes" -> (StudentNext(st) /\ requests = 0) \/ SystemNext
         [] area = "judging" -> StudentNext(st) \/ RejudgeNext(ad) \/ CancelNext(ad)
                \/ JudgeNext \/ Crash
         [] area = "staff" -> (\E u \in {su, ad, xa} : StaffNext(u))
                \/ RejudgeNext(ad) \/ SubmitNext({st, s2}) \/ JudgeNext
MCSpec == MCInit /\ [][MCNext]_<<codingVars, queueVars, svars, area>>
=============================================================================
