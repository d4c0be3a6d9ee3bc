---------------------------- MODULE BackendContainer ----------------------------
(***************************************************************************)
(* The backend's container: apps/backend/src/main.ts with its pool of       *)
(* database connections, its readiness probe and its telemetry, restarted   *)
(* by compose whenever it exits; and the one-time bootstrap of the admin,   *)
(* zenstack/bootstrap-admin.ts, which an operator runs inside it with       *)
(* docker compose exec, while users register.                               *)
(*                                                                         *)
(* The database goes away and comes back, also under a query that is        *)
(* running, the processes are killed between any two steps, and a statement *)
(* may be done though its answer is lost.                                   *)
(***************************************************************************)
EXTENDS EnvRules

CONSTANTS
    Environments,   \* what the operator may have written into .env
    Clients,        \* the connections that the pool may hold
    Runs,           \* runs of bootstrap-admin
    MaxKills        \* bound: signals and kills

ASSUME ContainerAssumption ==
    /\ Environments \subseteq EnvShapes
    /\ "register" \notin Runs
    /\ MaxKills \in Nat

VARIABLES
    env,            \* the .env beside the compose file
    phase,          \* where its main process is
    sdk,            \* the OpenTelemetry SDK runs
    pool,           \* whether it lends connections
    client,         \* client[c]: connection c
    query,          \* query[c]: who has checked it out, and waits for an answer
    probe,          \* the last answer of /health/ready
    db,             \* the database answers
    user,           \* the row with the bootstrap address
    audits,         \* runs whose admin.bootstrap row is in AuditLog
    step,           \* step[r]: where run r is
    kills

process == <<phase, sdk, pool, client, query, probe>>
lending == <<pool, client, query>>
tables == <<user, audits>>
vars == <<env, process, db, tables, step, kills>>

NoUser == [role |-> "none", by |-> "register"]
Users == {NoUser} \cup [role : {"USER", "ADMIN"}, by : Runs \cup {"register"}]
Phases == {"down", "migrating", "booting", "listening", "closing", "flushing"}
Finished == {"created", "exists", "failed"}
Running == {"find", "create", "audit"}

Init ==
    /\ env \in Environments
    /\ phase = "down" /\ sdk = FALSE /\ pool = "open" /\ probe = "none"
    /\ client = [c \in Clients |-> "none"] /\ query = [c \in Clients |-> "none"]
    /\ db = "up"
    /\ user = NoUser /\ audits = {}
    /\ step = [r \in Runs |-> "idle"]
    /\ kills = 0

-----------------------------------------------------------------------------
(* The database.                                                             *)

\* Connections break, idle or not; the process hears of each one later.
DbDown ==
    /\ db = "up"
    /\ db' = "down"
    /\ client' = [c \in Clients |-> IF client[c] = "live" THEN "dead" ELSE client[c]]
    /\ UNCHANGED <<env, phase, sdk, pool, query, probe, tables, step, kills>>

DbUp ==
    /\ db = "down"
    /\ db' = "up"
    /\ UNCHANGED <<env, process, tables, step, kills>>

-----------------------------------------------------------------------------
(* The main process.                                                         *)

\* The container stops, and what was started in it with exec is killed.
Exit ==
    /\ phase' = "down" /\ sdk' = FALSE /\ pool' = "open" /\ probe' = "none"
    /\ client' = [c \in Clients |-> "none"] /\ query' = [c \in Clients |-> "none"]
    /\ step' = [r \in Runs |-> IF step[r] \in Running THEN "failed" ELSE step[r]]
    /\ UNCHANGED <<env, db, tables>>

\* compose up, or its restart policy.
Up ==
    /\ phase = "down"
    /\ phase' = "migrating"
    /\ UNCHANGED <<env, sdk, lending, probe, db, tables, step, kills>>

\* db:migrate && node main.js
Migrate ==
    /\ phase = "migrating"
    /\ \/ /\ db = "up"
          /\ phase' = "booting"
          /\ UNCHANGED <<env, sdk, lending, probe, db, tables, step>>
       \/ db = "down" /\ Exit
    /\ UNCHANGED kills

\* What the container was started with.
Loaded == Composed(env)

\* bootstrap() to the end: loadEnv, startOtel, which does nothing when the SDK is disabled
\* or has no endpoint, the application, whose pool connects on demand, and listen.
Boot ==
    /\ phase = "booting"
    /\ \/ /\ Accepts(Loaded)
          /\ phase' = "listening"
          /\ sdk' = (Parsed(Loaded).endpoint /\ ~Parsed(Loaded).disabled)
          /\ UNCHANGED <<env, lending, probe, db, tables, step>>
       \/ ~Accepts(Loaded) /\ Exit
    /\ UNCHANGED kills

\* A query checks out a client: one that is idle, broken or not, before a new connection.
CheckOut(c, who) ==
    /\ pool = "open" /\ query[c] = "none"
    /\ client[c] = "none" => db = "up" /\ \A d \in Clients : query[d] = "none" => client[d] = "none"
    /\ client' = [client EXCEPT ![c] = IF @ = "none" THEN "live" ELSE @]
    /\ query' = [query EXCEPT ![c] = who]

\* A statement of some request.  (Without a client, the request fails and nothing changes.)
Serve(c) ==
    /\ phase = "listening" /\ CheckOut(c, "request")
    /\ UNCHANGED <<env, phase, sdk, pool, probe, db, tables, step, kills>>

\* GET /health/ready: SELECT 1 over the pool.
Ready(c) ==
    /\ phase = "listening" /\ CheckOut(c, "probe")
    /\ UNCHANGED <<env, phase, sdk, pool, probe, db, tables, step, kills>>

\* No client for the probe: the pool cannot connect, or has ended.
NotReady ==
    /\ phase \in {"listening", "closing"}
    /\ \/ pool = "ended"
       \/ /\ db = "down" /\ \E c \in Clients : query[c] = "none"
          /\ \A c \in Clients : query[c] = "none" => client[c] = "none"
    /\ probe' = "down"
    /\ UNCHANGED <<env, phase, sdk, lending, db, tables, step, kills>>

\* Mutant: once the probe has failed, its answer is kept.
AnswerOnce(c) ==
    /\ query[c] # "none" /\ client[c] = "live"
    /\ probe' = IF query[c] = "probe" /\ probe # "down" THEN "up" ELSE probe
    /\ client' = [client EXCEPT ![c] = IF pool = "open" THEN @ ELSE "none"]
    /\ query' = [query EXCEPT ![c] = "none"]
    /\ UNCHANGED <<env, phase, sdk, pool, db, tables, step, kills>>

\* The database answers, and the client goes back to the pool.
Answer(c) ==
    /\ query[c] # "none" /\ client[c] = "live"
    /\ probe' = IF query[c] = "probe" THEN "up" ELSE probe
    /\ client' = [client EXCEPT ![c] = IF pool = "open" THEN @ ELSE "none"]
    /\ query' = [query EXCEPT ![c] = "none"]
    /\ UNCHANGED <<env, phase, sdk, pool, db, tables, step, kills>>

\* The connection broke under the query, which rejects, and the pool forgets the client.
\* The listener of the pool is one for idle clients, and pool.query, which the probe uses,
\* has its own; a client that the ORM has checked out for a request has none in this
\* repository, so that its 'error' event may end the process.
Cut(c) ==
    /\ query[c] # "none" /\ client[c] = "dead"
    /\ \/ /\ probe' = IF query[c] = "probe" THEN "down" ELSE probe
          /\ client' = [client EXCEPT ![c] = "none"]
          /\ query' = [query EXCEPT ![c] = "none"]
          /\ UNCHANGED <<env, phase, sdk, pool, db, tables, step>>
       \/ query[c] = "request" /\ Exit
    /\ UNCHANGED kills

\* Mutant: without a listener, the error of an idle client ends the process.
IdleErrorThrown(c) == query[c] = "none" /\ client[c] = "dead" /\ Exit /\ UNCHANGED kills

\* The pool's 'error' event: logged, and the pool forgets the client.
IdleError(c) ==
    /\ query[c] = "none" /\ client[c] = "dead"
    /\ client' = [client EXCEPT ![c] = "none"]
    /\ UNCHANGED <<env, phase, sdk, pool, query, probe, db, tables, step, kills>>

\* Mutant: a DatabaseService without onModuleDestroy.
SignalKeepsPool ==
    /\ kills < MaxKills /\ kills' = kills + 1
    /\ \/ /\ phase = "listening"
          /\ phase' = "closing"
          /\ UNCHANGED <<env, sdk, lending, probe, db, tables, step>>
       \/ phase \in {"migrating", "booting"} /\ Exit

\* SIGINT or SIGTERM: shutdown() calls app.close(), whose hooks end the pool, and with it
\* the idle clients, while the server still listens; before there is a handler, the signal
\* ends the process.
Signal ==
    /\ kills < MaxKills /\ kills' = kills + 1
    /\ \/ /\ phase = "listening"
          /\ phase' = "closing" /\ pool' = "ended"
          /\ client' = [c \in Clients |-> IF query[c] = "none" THEN "none" ELSE client[c]]
          /\ UNCHANGED <<env, sdk, query, probe, db, tables, step>>
       \/ phase \in {"migrating", "booting"} /\ Exit

\* The pool has ended when the last client is back.
Close ==
    /\ phase = "closing" /\ \A c \in Clients : query[c] = "none"
    /\ phase' = "flushing"
    /\ UNCHANGED <<env, sdk, lending, probe, db, tables, step, kills>>

\* app.close() rejects: nothing catches it, and stopOtel is never called.
CloseFails == phase = "closing" /\ Exit /\ UNCHANGED kills

\* stopOtel, and process.exit(0).
Flush == phase = "flushing" /\ Exit /\ UNCHANGED kills

\* Killed, out of memory, or out of the grace period after a signal.
Kill ==
    /\ phase # "down"
    /\ \/ kills < MaxKills /\ kills' = kills + 1
       \/ phase \in {"closing", "flushing"} /\ UNCHANGED kills
    /\ Exit

-----------------------------------------------------------------------------
(* Users and the bootstrap.                                                  *)

\* AuthService.register, with the address of the admin to be.
Register ==
    /\ phase = "listening" /\ db = "up" /\ user = NoUser
    /\ user' = [role |-> "USER", by |-> "register"]
    /\ UNCHANGED <<env, process, db, audits, step, kills>>

\* main() to its first query: the environment, the address and the password, and in
\* production the confirmation.
Invoke(r) ==
    /\ step[r] = "idle" /\ phase # "down"
    /\ \E inputOk, confirmed \in BOOLEAN :
           step' = [step EXCEPT ![r] =
               IF Accepts(Loaded) /\ inputOk /\ (Parsed(Loaded).production => confirmed)
               THEN "find" ELSE "failed"]
    /\ UNCHANGED <<env, process, db, tables, kills>>

Find(r) ==
    /\ step[r] = "find" /\ db = "up"
    /\ step' = [step EXCEPT ![r] = IF user = NoUser THEN "create" ELSE "exists"]
    /\ UNCHANGED <<env, process, db, tables, kills>>

\* Mutant: db.user.upsert.
CreateOrReset(r) ==
    /\ step[r] = "create" /\ db = "up"
    /\ user' = [role |-> "ADMIN", by |-> r]
    /\ step' = [step EXCEPT ![r] = "audit"]
    /\ UNCHANGED <<env, process, db, audits, kills>>

\* The INSERT, some time after the look-up: argon2.hash comes first.  The unique index
\* refuses a second row; the answer may be lost.
Create(r) ==
    /\ step[r] = "create" /\ db = "up"
    /\ IF user = NoUser
       THEN /\ user' = [role |-> "ADMIN", by |-> r]
            /\ \E outcome \in {"audit", "failed"} : step' = [step EXCEPT ![r] = outcome]
       ELSE /\ step' = [step EXCEPT ![r] = "failed"]
            /\ UNCHANGED user
    /\ UNCHANGED <<env, process, db, audits, kills>>

\* Mutant: the audit is a courtesy, and its failure is swallowed.
AuditBestEffort(r) ==
    /\ step[r] = "audit"
    /\ audits' = IF db = "up" THEN audits \cup {r} ELSE audits
    /\ step' = [step EXCEPT ![r] = "created"]
    /\ UNCHANGED <<env, process, db, user, kills>>

Audit(r) ==
    /\ step[r] = "audit" /\ db = "up"
    /\ audits' = audits \cup {r}
    /\ \E outcome \in {"created", "failed"} : step' = [step EXCEPT ![r] = outcome]
    /\ UNCHANGED <<env, process, db, user, kills>>

\* A statement fails, or the operator interrupts the run: exit 1.
RunFails(r) ==
    /\ step[r] \in Running
    /\ step' = [step EXCEPT ![r] = "failed"]
    /\ UNCHANGED <<env, process, db, tables, kills>>

-----------------------------------------------------------------------------
Database == DbDown \/ DbUp
Lifecycle == Up \/ Migrate \/ Boot \/ Close \/ CloseFails \/ Flush
Probe == NotReady \/ \E c \in Clients : Ready(c)
Hears(c) == Answer(c) \/ Cut(c) \/ IdleError(c)
Bootstrap(r) == Invoke(r) \/ Find(r) \/ Create(r) \/ Audit(r) \/ RunFails(r)

Next ==
    \/ Database \/ Lifecycle \/ Probe
    \/ \E c \in Clients : Serve(c) \/ Hears(c)
    \/ Signal \/ Kill \/ Register
    \/ \E r \in Runs : Bootstrap(r)

Spec == Init /\ [][Next]_vars

\* compose restarts what exits and the process goes on; it hears of its connections; and
\* compose and Caddy probe it, in the queue of the pool when all clients are checked out.
FairSpec ==
    /\ Spec /\ WF_vars(Lifecycle) /\ SF_vars(Probe)
    /\ \A c \in Clients : WF_vars(Hears(c))

(***************************************************************************)
(* Properties.                                                             *)
(***************************************************************************)

\* Processes, pool, rows and runs keep their types; connections belong to a process that
\* answers requests, and none is left when telemetry is flushed; a bootstrap runs only in a
\* container that is up and whose environment is accepted.
TypeOK ==
    /\ env \in EnvShapes
    /\ phase \in Phases /\ sdk \in BOOLEAN
    /\ pool \in {"open", "ended"} /\ probe \in {"none", "up", "down"}
    /\ client \in [Clients -> {"none", "live", "dead"}]
    /\ query \in [Clients -> {"none", "request", "probe"}]
    /\ db \in {"up", "down"}
    /\ user \in Users /\ audits \subseteq Runs
    /\ step \in [Runs -> {"idle"} \cup Running \cup Finished]
    /\ kills \in 0 .. MaxKills
    /\ pool = "ended" <=> phase \in {"closing", "flushing"}
    /\ \A c \in Clients :
          /\ client[c] = "live" => db = "up"
          /\ query[c] # "none" => client[c] # "none"
          /\ client[c] # "none" => phase = "listening" \/ (phase = "closing" /\ query[c] # "none")
    /\ \A r \in Runs : step[r] \in Running => phase # "down" /\ Accepts(Loaded)

\* Production is what a .env says that names no other mode.
InProduction == phase = "listening" /\ env.NODE_ENV \in {"unset", "production"}

\* A backend that serves in production does telemetry when .env asks for it: neither a text
\* that is no flag nor an endpoint that is missing turns it off in silence.
TelemetryRuns == InProduction => sdk = (env.OTEL_SDK_DISABLED \in {"false", "0"})

\* Of what the compose file fills in for a .env that leaves it out, nothing public gets into
\* production: the secrets, the origin and the cookie's domain of a backend that serves
\* were written by its operator.  (The database's credentials are not among them.)
OwnValues ==
    InProduction =>
        /\ env.JWT_ACCESS_SECRET.length > 0 /\ env.SERVICE_API_TOKEN.length > 0
        /\ Given(env.CORS_ORIGIN)
        /\ env.COOKIE_DOMAIN # "unset"

\* An outage ends no process over idle clients or probes: only a signal, a kill, or a
\* connection that breaks under the statement of a request takes a backend away
\* (database.service.ts:31-36).
OutageIsNoExit ==
    [][phase = "listening" /\ phase' # "listening" =>
           \/ kills' > kills
           \/ \E c \in Clients : query[c] = "request" /\ client[c] = "dead"]_vars

\* When the database is back for good, an accepted backend comes to answer ready, and
\* stays so, without anyone's doing, however many connections the outage has broken under
\* queries or between them.
Recovers ==
    Accepts(Loaded) /\ <>[](db = "up") => <>[](phase = "listening" /\ probe = "up")

\* The bootstrap never changes a user's row and never adds another one under the address,
\* whatever runs and registrations overlap.
NeverResets ==
    [][user # NoUser => user' = user]_vars

\* A run that reports an admin created has created it, and recorded that; and what is
\* recorded is true, for whoever reads the audit trail.
CreatedIsAudited ==
    /\ \A r \in Runs : step[r] = "created" => r \in audits
    /\ \A r \in audits : user = [role |-> "ADMIN", by |-> r]
=============================================================================
