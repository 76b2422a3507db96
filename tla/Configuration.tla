---------------------------- MODULE Configuration ----------------------------
(***************************************************************************)
(* The deployment's environment and the four places that judge it on their  *)
(* own: scripts/production-check.js before a release, validateEnvironment   *)
(* at startup, releaseReadiness of SystemService and providerStatus of the   *)
(* AI provider factory while the process runs.                              *)
(*                                                                          *)
(* An environment is a function from the names of the variables that are    *)
(* set to their values; of a value, only what the code tells apart is kept. *)
(* "" is a variable set to nothing, " " one set to blanks.                  *)
(***************************************************************************)

Flags == {"true", "false"}

\* The enumerated variables and what environmentSchema admits.
Admitted ==
    [NODE_ENV |-> {"development", "test", "staging", "production"},
     APP_ENV |-> {"local", "test", "staging", "production"},
     COOKIE_SECURE |-> Flags, SWAGGER_ENABLED |-> Flags, OTEL_ENABLED |-> Flags,
     AI_FEATURE_ENABLED |-> Flags, BILLING_ENABLED |-> Flags,
     EMAIL_PROVIDER |-> {"console", "smtp", "resend", "sendgrid", "ses"},
     STORAGE_PROVIDER |-> {"disabled", "local", "s3", "r2", "minio", "azure-blob"},
     CODE_RUNNER_MODE |-> {"DISABLED", "MOCK", "DOCKER_ISOLATED", "REMOTE_RUNNER"},
     AI_PROVIDER |-> {"mock", "openai", "gemini", "anthropic", "azure-openai", "ollama"},
     BILLING_PROVIDER |-> {"DISABLED", "MOCK", "STRIPE", "RAZORPAY"},
     PUSH_PROVIDER |-> {"disabled", "web-push", "fcm"},
     BACKUP_PROVIDER |-> {"disabled", "local", "s3", "r2", "azure-blob"}]

\* The value of an unset variable; an optional one is undefined, which the
\* code's truth tests do not tell from "".
Default ==
    [NODE_ENV |-> "development", APP_ENV |-> "local", COOKIE_SECURE |-> "false",
     SWAGGER_ENABLED |-> "true", OTEL_ENABLED |-> "false", AI_FEATURE_ENABLED |-> "true",
     BILLING_ENABLED |-> "false", EMAIL_PROVIDER |-> "console",
     EMAIL_FROM |-> "CampusTest Pro", STORAGE_PROVIDER |-> "local",
     CODE_RUNNER_MODE |-> "DISABLED", AI_PROVIDER |-> "mock",
     BILLING_PROVIDER |-> "DISABLED", PUSH_PROVIDER |-> "disabled",
     BACKUP_PROVIDER |-> "disabled"]

\* CODE_RUNNER_MODE is put in upper case, and EXTERNAL is an old name
Upper(v) == CASE v = "mock" -> "MOCK" [] v \in {"external", "EXTERNAL"} -> "REMOTE_RUNNER"
              [] OTHER -> v
Raw(e, v) == IF v \in DOMAIN e THEN e[v] ELSE ""
Value(e, v) == LET x == IF v \notin DOMAIN e /\ v \in DOMAIN Default THEN Default[v] ELSE Raw(e, v)
               IN IF v = "CODE_RUNNER_MODE" THEN Upper(x) ELSE x
Lacks(e, v) == Value(e, v) = ""
RunnerMode(e) == Value(e, "CODE_RUNNER_MODE")

\* the names whose rule fails
Failing(rules) == {rule[1] : rule \in {r \in rules : r[2]}}

-----------------------------------------------------------------------------
(* validateEnvironment. *)

\* the shape: enumerations, two URLs and four texts that must be there
Malformed(e) ==
    {v \in DOMAIN Admitted : Value(e, v) \notin Admitted[v]}
    \cup {v \in {"API_URL", "FRONTEND_URL"} : Raw(e, v) \in {" ", "not a URL"}}
    \cup {v \in {"DATABASE_URL", "REDIS_URL"} : Lacks(e, v)}
    \cup {v \in {"JWT_ACCESS_SECRET", "JWT_REFRESH_SECRET"} : Raw(e, v) \in {"", "short"}}

Staged == {"staging", "production"}
Strict(e) == Value(e, "NODE_ENV") \in Staged \/ Value(e, "APP_ENV") \in Staged

StrictIssues(e) == IF ~Strict(e) THEN {} ELSE
    {v \in {"API_URL", "DIRECT_DATABASE_URL", "INTERNAL_SERVICE_TOKEN", "TRUSTED_PROXIES",
            "APP_ENCRYPTION_KEY"} : Lacks(e, v)}
    \cup Failing({<<"FRONTEND_URL", Lacks(e, "FRONTEND_URL") /\ Lacks(e, "WEB_ORIGIN")>>})

\* Mutant: only one of the two variables makes a deployment production.
MutProduction(e) == Value(e, "NODE_ENV") = "production"
Production(e) == "production" \in {Value(e, "NODE_ENV"), Value(e, "APP_ENV")}

Needs(e, vs) == \E v \in vs : Lacks(e, v)
ProductionRules(e) == LET is(v, x) == Value(e, v) = x IN {
      <<"JWT_ACCESS_SECRET", is("JWT_ACCESS_SECRET", "dev-access-secret-change-me")>>,
      <<"JWT_REFRESH_SECRET", is("JWT_REFRESH_SECRET", "dev-refresh-secret-change-me")>>,
      <<"COOKIE_SECURE", is("COOKIE_SECURE", "false")>>,
      <<"CORS_ORIGINS", Lacks(e, "CORS_ORIGINS") /\ Lacks(e, "FRONTEND_URL")>>,
      <<"SWAGGER_ENABLED", is("SWAGGER_ENABLED", "true")>>,
      <<"EMAIL_PROVIDER", is("EMAIL_PROVIDER", "console")>>,
      <<"STORAGE_PROVIDER", is("STORAGE_PROVIDER", "local")>>,
      <<"CODE_RUNNER_MODE", is("CODE_RUNNER_MODE", "MOCK")>>,
      <<"CODE_RUNNER_URL", is("CODE_RUNNER_MODE", "REMOTE_RUNNER")
            /\ Needs(e, {"CODE_RUNNER_URL", "CODE_RUNNER_INTERNAL_TOKEN"})>>,
      <<"AI_PROVIDER", is("AI_PROVIDER", "mock")>>,
      <<"AZURE_OPENAI_ENDPOINT", is("AI_FEATURE_ENABLED", "true")
            /\ is("AI_PROVIDER", "azure-openai")
            /\ Needs(e, {"AZURE_OPENAI_ENDPOINT", "AZURE_OPENAI_DEPLOYMENT"})>>,
      <<"EMAIL_FROM", ~is("EMAIL_PROVIDER", "console") /\ Lacks(e, "EMAIL_FROM")>>,
      <<"BILLING_PROVIDER", is("BILLING_PROVIDER", "MOCK")>>,
      <<"BILLING_SECRET_KEY", is("BILLING_ENABLED", "true")
            /\ Value(e, "BILLING_PROVIDER") \in {"STRIPE", "RAZORPAY"}
            /\ Needs(e, {"BILLING_SECRET_KEY", "BILLING_WEBHOOK_SECRET"})>>,
      <<"PUSH_PUBLIC_KEY", ~is("PUSH_PROVIDER", "disabled")
            /\ Needs(e, {"PUSH_PUBLIC_KEY", "PUSH_PRIVATE_KEY"})>>}
ProductionIssues(e) == IF Production(e) THEN Failing(ProductionRules(e)) ELSE {}

\* the issues of the thrown error; superRefine does not see a malformed object
Issues(e) == IF Malformed(e) # {} THEN Malformed(e) ELSE StrictIssues(e) \cup ProductionIssues(e)

-----------------------------------------------------------------------------
(* corsOrigins, and the address in a password reset mail. *)

LocalOrigin == "http://localhost:3000"
NormalizeOrigin(o) ==
    CASE o = " " -> "" [] o \in {"https://exam/", "https://exam/app"} -> "https://exam" [] OTHER -> o
Split(list) == IF list = "https://admin,https://exam/" THEN {"https://admin", "https://exam/"}
               ELSE {list}

CorsOrigins(e) ==
    LET found == {NormalizeOrigin(o) : o \in Split(Raw(e, "CORS_ORIGINS"))
                       \cup {Raw(e, "WEB_ORIGIN"), Raw(e, "FRONTEND_URL")}} \ {""}
    IN IF found = {} THEN {LocalOrigin} ELSE found

ResetAddress(e) == CASE ~Lacks(e, "FRONTEND_URL") -> Raw(e, "FRONTEND_URL")
                     [] Lacks(e, "FRONTEND_URL") /\ ~Lacks(e, "WEB_ORIGIN") -> Raw(e, "WEB_ORIGIN")
                     [] OTHER -> LocalOrigin

-----------------------------------------------------------------------------
(* scripts/production-check.js: looks at raw values and blanks count as none. *)

Has(e, v) == Raw(e, v) \notin {"", " "}
GateNames ==
    {"DATABASE_URL", "DIRECT_DATABASE_URL", "REDIS_URL", "JWT_ACCESS_SECRET",
    "JWT_REFRESH_SECRET", "APP_ENCRYPTION_KEY", "FRONTEND_URL", "API_URL",
    "CORS_ORIGINS", "TRUSTED_PROXIES", "BILLING_WEBHOOK_SECRET", "BACKUP_PROVIDER",
    "ERROR_TRACKING_DSN"}
GateRules(e) == LET raw(v, x) == Raw(e, v) = x IN {
      <<"APP_ENV", ~raw("APP_ENV", "production")>>,
      <<"JWT_ACCESS_SECRET", raw("JWT_ACCESS_SECRET", "dev-access-secret-change-me")>>,
      <<"JWT_REFRESH_SECRET", raw("JWT_REFRESH_SECRET", "dev-refresh-secret-change-me")>>,
      <<"COOKIE_SECURE", ~raw("COOKIE_SECURE", "true")>>,
      <<"BILLING_PROVIDER", raw("BILLING_PROVIDER", "MOCK")>>,
      <<"EMAIL_PROVIDER", raw("EMAIL_PROVIDER", "console")>>,
      <<"STORAGE_PROVIDER", raw("STORAGE_PROVIDER", "local")>>,
      <<"AI_PROVIDER", raw("AI_PROVIDER", "mock")>>,
      <<"CODE_RUNNER_MODE", raw("CODE_RUNNER_MODE", "MOCK")>>,
      <<"BACKUP_BUCKET", Raw(e, "BACKUP_PROVIDER") \notin {"", "disabled"} /\ ~Has(e, "BACKUP_BUCKET")>>,
      <<"OTEL_EXPORTER_ENDPOINT", raw("OTEL_ENABLED", "true") /\ ~Has(e, "OTEL_EXPORTER_ENDPOINT")>>,
      <<"BILLING_SECRET_KEY", raw("BILLING_ENABLED", "true") /\ ~Has(e, "BILLING_SECRET_KEY")>>,
      <<"PUSH_PUBLIC_KEY", Raw(e, "PUSH_PROVIDER") \notin {"", "disabled"}
            /\ ~(Has(e, "PUSH_PUBLIC_KEY") /\ Has(e, "PUSH_PRIVATE_KEY"))>>}
GateFails(e) == {v \in GateNames : ~Has(e, v)} \cup Failing(GateRules(e))

-----------------------------------------------------------------------------
(* releaseReadiness: the checks of the configuration that are FAIL; outside  *)
(* of APP_ENV production they are warnings.                                  *)

ReadinessFails(e) == IF Value(e, "APP_ENV") # "production" THEN {} ELSE
    LET is(v, x) == Value(e, v) = x IN Failing({
      <<"billing", is("BILLING_PROVIDER", "MOCK")>>, <<"email", is("EMAIL_PROVIDER", "console")>>,
      <<"storage", is("STORAGE_PROVIDER", "local")>>, <<"ai", is("AI_PROVIDER", "mock")>>,
      <<"codeRunner", is("CODE_RUNNER_MODE", "MOCK")>>,
      <<"monitoring", Lacks(e, "OTEL_EXPORTER_ENDPOINT") /\ Lacks(e, "OTEL_EXPORTER_OTLP_ENDPOINT")>>,
      <<"backups", is("BACKUP_PROVIDER", "disabled")>>})

-----------------------------------------------------------------------------
(* AiProviderFactory. *)

ProviderKey == [p \in {"openai", "gemini", "anthropic", "azure-openai"} |->
    CASE p = "openai" -> "OPENAI_API_KEY" [] p = "gemini" -> "GOOGLE_GEMINI_API_KEY"
      [] p = "anthropic" -> "ANTHROPIC_API_KEY" [] OTHER -> "AZURE_OPENAI_API_KEY"]
KeyOf(e) == ProviderKey[Value(e, "AI_PROVIDER")]
Keyed(e) == Value(e, "AI_PROVIDER") \in DOMAIN ProviderKey
AzureIncomplete(e) == Value(e, "AI_PROVIDER") = "azure-openai"
                      /\ Needs(e, {"AZURE_OPENAI_ENDPOINT", "AZURE_OPENAI_DEPLOYMENT"})
IsFeatureEnabled(e) == Value(e, "AI_FEATURE_ENABLED") = "true"
                       \/ (Value(e, "AI_PROVIDER") = "openai" /\ ~Lacks(e, "OPENAI_API_KEY"))

\* providerStatus: configured, of configurationMessage
AiConfigured(e) == /\ IsFeatureEnabled(e) /\ ~AzureIncomplete(e)
                   /\ Keyed(e) => ~(Lacks(e, KeyOf(e)) /\ Lacks(e, "AI_API_KEY"))

\* getProvider and the provider it returns: whether a call gets as far as a
\* request.  The key is taken with ??, so one set to "" hides AI_API_KEY.
AiUsable(e) ==
    /\ IsFeatureEnabled(e) /\ ~AzureIncomplete(e)
    /\ ~(Value(e, "NODE_ENV") = "production" /\ Value(e, "AI_PROVIDER") = "mock")
    /\ Keyed(e) => (IF KeyOf(e) \in DOMAIN e THEN e[KeyOf(e)] ELSE Raw(e, "AI_API_KEY")) # ""
=============================================================================
