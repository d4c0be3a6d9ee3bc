--------------------------- MODULE MCBackendContainer ---------------------------
(* A small instance of BackendContainer for TLC: see the .cfg file.            *)
EXTENDS BackendContainer

UrlOf(scheme, host, sample) == [scheme |-> scheme, host |-> host, sample |-> sample]
SecretOf(value, length, sample) == [value |-> value, length |-> length, sample |-> sample]

\* A production environment that is accepted, as the playbook renders it.
Good ==
    [NODE_ENV |-> "production", DEPLOYMENT_MODE |-> "compose",
     DATABASE_URL |-> UrlOf("postgres", "service", FALSE),
     REDIS_URL |-> UrlOf("redis", "service", FALSE),
     BACKEND_URL |-> UrlOf("http", "service", FALSE),
     JWT_ACCESS_SECRET |-> SecretOf("access", 32, FALSE),
     SERVICE_API_TOKEN |-> SecretOf("service", 32, FALSE),
     JWT_ACCESS_TTL |-> "unset", JWT_REFRESH_TTL |-> "unset", BACKEND_PORT |-> "positive",
     CORS_ORIGIN |-> <<UrlOf("https", "public", FALSE)>>,
     COOKIE_DOMAIN |-> "bare", TELEGRAM_BOT_TOKEN |-> "real", LOG_LEVEL |-> "unset",
     OTEL_SDK_DISABLED |-> "false", OTEL_VERBOSE_SPANS |-> "",
     OTEL_EXPORTER_OTLP_ENDPOINT |-> UrlOf("http", "service", FALSE),
     METRICS_EXPORTER |-> "unset"]

\* The same, with everything left out that the compose file has a good default for.
Sparse ==
    [Good EXCEPT !.NODE_ENV = "unset", !.DEPLOYMENT_MODE = "unset", !.BACKEND_PORT = "unset",
                 !.DATABASE_URL.scheme = "unset", !.REDIS_URL.scheme = "unset",
                 !.TELEGRAM_BOT_TOKEN = "unset", !.OTEL_EXPORTER_OTLP_ENDPOINT.scheme = "unset"]

\* A developer's, which may leave out everything.
Developers ==
    [Sparse EXCEPT !.NODE_ENV = "development",
                   !.JWT_ACCESS_SECRET.length = 0, !.SERVICE_API_TOKEN.length = 0,
                   !.CORS_ORIGIN = <<>>, !.COOKIE_DOMAIN = "unset"]

\* One variable changed: left out, where that is no good, or written in a wrong way, or
\* another way to say whether telemetry is wanted.
Variants(e) ==
    {[e EXCEPT !.NODE_ENV = "other"], [e EXCEPT !.DEPLOYMENT_MODE = "other"],
     [e EXCEPT !.JWT_REFRESH_TTL = "other"], [e EXCEPT !.BACKEND_URL.scheme = "none"],
     [e EXCEPT !.LOG_LEVEL = "other"], [e EXCEPT !.METRICS_EXPORTER = "other"],
     [e EXCEPT !.TELEGRAM_BOT_TOKEN = "sample"]}
    \cup {[e EXCEPT !.DATABASE_URL = v] : v \in
            {UrlOf("postgres", "localhost", FALSE), UrlOf("postgres", "service", TRUE)}}
    \cup {[e EXCEPT !.REDIS_URL = v] : v \in
            {UrlOf("http", "service", FALSE), UrlOf("redis", "service", TRUE)}}
    \cup {[e EXCEPT !.JWT_ACCESS_SECRET = v] : v \in
            {SecretOf("access", 0, FALSE), SecretOf("access", 31, FALSE),
             SecretOf("access", 32, TRUE), SecretOf("service", 32, FALSE)}}
    \cup {[e EXCEPT !.SERVICE_API_TOKEN = v] : v \in
            {SecretOf("service", 0, FALSE), SecretOf("service", 31, FALSE)}}
    \cup {[e EXCEPT !.CORS_ORIGIN = v] : v \in
            {<<>>, <<UrlOf("unset", "public", FALSE)>>, <<UrlOf("http", "public", FALSE)>>,
             <<UrlOf("*", "public", FALSE)>>, <<UrlOf("https", "example", FALSE)>>,
             <<UrlOf("https", "localhost", FALSE)>>, <<UrlOf("redis", "public", FALSE)>>}}
    \cup {[e EXCEPT !.COOKIE_DOMAIN = v] : v \in {"unset", "url", "example"}}
    \cup {[e EXCEPT !.OTEL_SDK_DISABLED = v] : v \in {"unset", "1", "other"}}
    \cup {[e EXCEPT !.OTEL_EXPORTER_OTLP_ENDPOINT.scheme = "none"]}

MCEnvironments == {Good, Sparse, Developers} \cup Variants(Good) \cup Variants(Sparse)
=============================================================================
