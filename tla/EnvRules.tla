------------------------------- MODULE EnvRules -------------------------------
(***************************************************************************)
(* The environment contract: what the compose file makes of .env, and       *)
(* packages/config/src/index.ts, the rules of loadEnv, over environments    *)
(* whose values are the classes of text that the rules tell apart.  A       *)
(* variable that is not set is "unset", a secret then has the length 0.     *)
(*                                                                         *)
(* Fields first, each alone and in every environment; then defaults are     *)
(* filled in; then the rules of production, over the parsed values.         *)
(***************************************************************************)
EXTENDS Naturals, Sequences

Written == {"*", "none", "postgres", "http", "https", "redis"}
Schemes == {"unset", "empty"} \cup Written
Hosts == {"localhost", "service", "public", "example"}
Urls == [scheme : Schemes, host : Hosts, sample : BOOLEAN]
Secrets == [value : {"access", "service"}, length : Nat, sample : BOOLEAN]
Flags == {"unset", "", "true", "1", "false", "0", "other"}
Numbers == {"unset", "positive", "other"}

EnvShapes ==
    [NODE_ENV : {"unset", "development", "test", "production", "other"},
     DEPLOYMENT_MODE : {"unset", "standalone", "compose", "other"},
     DATABASE_URL : Urls, REDIS_URL : Urls, BACKEND_URL : Urls,
     JWT_ACCESS_SECRET : Secrets, SERVICE_API_TOKEN : Secrets,
     JWT_ACCESS_TTL : Numbers, JWT_REFRESH_TTL : Numbers, BACKEND_PORT : Numbers,
     CORS_ORIGIN : Seq(Urls),
     COOKIE_DOMAIN : {"unset", "localhost", "bare", "url", "example"},
     TELEGRAM_BOT_TOKEN : {"unset", "sample", "real"},
     LOG_LEVEL : {"unset", "level", "other"},
     OTEL_SDK_DISABLED : Flags, OTEL_VERBOSE_SPANS : Flags,
     OTEL_EXPORTER_OTLP_ENDPOINT : Urls,
     METRICS_EXPORTER : {"unset", "otlp", "prometheus", "other"}]

Local(scheme) == [scheme |-> scheme, host |-> "localhost", sample |-> FALSE]

\* Mutant: z.coerce.boolean(), for which every text but the empty one is true.
EnvBoolCoerced(v, def) == IF v = "unset" THEN def ELSE v # ""

\* The value of a flag that was accepted.
EnvBool(v, def) == IF v \in {"unset", ""} THEN def ELSE v \in {"true", "1"}

HasProtocol(url, protocols) == url.scheme \in protocols

\* The entries of a comma-separated list, without the empty ones.
ParseOrigins(origins) ==
    {origins[i] : i \in {k \in DOMAIN origins : origins[k].scheme # "empty"}}

Default(url, scheme) == IF url.scheme = "unset" THEN Local(scheme) ELSE url

-----------------------------------------------------------------------------
(* The compose file: the environment of the backend's container, out of .env. *)

\* ${CORS_ORIGIN}: neither left out nor empty.
Given(origins) == Len(origins) > 1 \/ (Len(origins) = 1 /\ HasProtocol(origins[1], Written))

\* ${VAR:-default}: what is left out of .env, or empty there, has a default, which is a
\* sample value where a secret is asked for.  The rest of .env is passed on as it is.
Composed(env) ==
    LET Url(url, scheme, host) ==
            IF HasProtocol(url, Written) THEN url ELSE [Local(scheme) EXCEPT !.host = host]
        Secret(secret, value, length) ==
            IF secret.length > 0 THEN secret
            ELSE [value |-> value, length |-> length, sample |-> TRUE]
        Text(text, default) == IF text \in {"unset", ""} THEN default ELSE text
    IN [env EXCEPT
            !.NODE_ENV = Text(@, "production"), !.DEPLOYMENT_MODE = Text(@, "compose"),
            !.DATABASE_URL = Url(@, "postgres", "service"),
            !.REDIS_URL = Url(@, "redis", "service"),
            !.JWT_ACCESS_SECRET = Secret(@, "access", 41),
            !.SERVICE_API_TOKEN = Secret(@, "service", 23),
            !.JWT_ACCESS_TTL = Text(@, "positive"), !.JWT_REFRESH_TTL = Text(@, "positive"),
            !.BACKEND_PORT = Text(@, "positive"),
            !.CORS_ORIGIN = IF Given(@) THEN @ ELSE <<Local("http")>>,
            !.COOKIE_DOMAIN = Text(@, "localhost"), !.LOG_LEVEL = Text(@, "level"),
            !.OTEL_SDK_DISABLED = Text(@, "true"), !.OTEL_VERBOSE_SPANS = Text(@, "false"),
            !.OTEL_EXPORTER_OTLP_ENDPOINT = Url(@, "http", "service"),
            !.METRICS_EXPORTER = Text(@, "otlp")]

-----------------------------------------------------------------------------
(* The schema, field by field.                                               *)

FieldsHold(env) ==
    /\ env.NODE_ENV # "other" /\ env.DEPLOYMENT_MODE # "other"
    /\ HasProtocol(env.DATABASE_URL, {"postgres"})
    /\ env.JWT_ACCESS_SECRET.length >= 16 /\ env.SERVICE_API_TOKEN.length >= 8
    /\ "other" \notin {env.JWT_ACCESS_TTL, env.JWT_REFRESH_TTL, env.BACKEND_PORT}
    /\ \A o \in ParseOrigins(env.CORS_ORIGIN) : HasProtocol(o, {"unset", "*", "http", "https"})
    /\ HasProtocol(env.BACKEND_URL, {"unset", "http", "https"})
    /\ HasProtocol(env.REDIS_URL, {"unset", "redis"})
    /\ env.LOG_LEVEL # "other" /\ env.METRICS_EXPORTER # "other"
    /\ "other" \notin {env.OTEL_SDK_DISABLED, env.OTEL_VERBOSE_SPANS}
    /\ HasProtocol(env.OTEL_EXPORTER_OTLP_ENDPOINT, {"unset", "empty", "http", "https"})

\* What is parsed, where later steps look at it.
Parsed(env) ==
    [production |-> env.NODE_ENV = "production",
     compose |-> env.DEPLOYMENT_MODE = "compose",
     database |-> env.DATABASE_URL,
     redis |-> Default(env.REDIS_URL, "redis"),
     secrets |-> {env.JWT_ACCESS_SECRET, env.SERVICE_API_TOKEN},
     origins |-> [i \in DOMAIN env.CORS_ORIGIN |-> Default(env.CORS_ORIGIN[i], "http")],
     cookieDomain |-> IF env.COOKIE_DOMAIN = "unset" THEN "localhost" ELSE env.COOKIE_DOMAIN,
     botToken |-> env.TELEGRAM_BOT_TOKEN,
     disabled |-> EnvBool(env.OTEL_SDK_DISABLED, FALSE),
     endpoint |-> env.OTEL_EXPORTER_OTLP_ENDPOINT.scheme \notin {"unset", "empty"}]

-----------------------------------------------------------------------------
(* The rules of production.                                                  *)

\* Mutant: a secret is judged by its length.
SecretsHoldByLength(p) ==
    /\ \A s \in p.secrets : s.length >= 32
    /\ \E s, t \in p.secrets : s.value # t.value
    /\ ~p.database.sample /\ ~p.redis.sample
    /\ p.botToken # "sample"

SecretsHold(p) ==
    /\ \A s \in p.secrets : s.length >= 32 /\ ~s.sample
    /\ \E s, t \in p.secrets : s.value # t.value
    /\ ~p.database.sample /\ ~p.redis.sample
    /\ p.botToken # "sample"

OriginsHold(p) ==
    \A o \in ParseOrigins(p.origins) : HasProtocol(o, {"https"}) /\ o.host # "example"

CookieDomainHolds(p) == p.cookieDomain = "bare"

ComposeHolds(p) ==
    p.compose =>
        /\ "localhost" \notin {p.database.host, p.redis.host}
                                  \cup {o.host : o \in ParseOrigins(p.origins)}
        /\ p.cookieDomain # "localhost"

TelemetryHolds(p) == ~p.disabled => p.endpoint

\* loadEnv returns.
Accepts(env) ==
    /\ FieldsHold(env)
    /\ LET p == Parsed(env) IN
           p.production =>
               SecretsHold(p) /\ OriginsHold(p) /\ CookieDomainHolds(p)
                   /\ ComposeHolds(p) /\ TelemetryHolds(p)
=============================================================================
