# A verification project for ai-driven-fullstack-project

The repository is a full-stack starter: a NestJS backend with cookie-based
sessions, a Vue frontend, a Telegram bot, shared packages, and the Ansible
playbooks and scripts that deploy it, back it up and gate its CI.  This directory
holds TLA+ modules that model its behaviour, TLC configurations that check them on
small instances, and theorems about them that TLAPS checks for every instance.
Paths below are relative to the root of the repository.

## 1. The system

### Components

| Component | State it keeps | Operations | Talks to |
|---|---|---|---|
| **Auth backend** `apps/backend/src/auth` | rows of `User` and `RefreshToken`; the local variables of each handler between two awaits; issued JWTs (held by clients) | `register`, `login`, `refresh`, `logout`, `me`; guards | PostgreSQL through ZenStack, one statement at a time; clients over HTTP and the `refresh_token` cookie |
| **Browser client** `apps/frontend`, `packages/api-client` | per tab: access token, user, loading, error, route, pending navigation; per browser: the cookie | guard, sign in, log out, reload, history navigation, page load | auth backend |
| **Other backend guards** (`roles.guard`, `service-token.guard`, throttler) | counters of the throttler | refuse a request before its handler | auth backend, bot |
| **Container lifecycle** `main.ts`, `database.service.ts` | phase of the process, connections of the pool, idle or under a query, readiness | boot, serve, probe, signals, exit and restart | compose, PostgreSQL |
| **Admin bootstrap** `zenstack/bootstrap-admin.ts` | `User`, `AuditLog` rows | create the first admin once, and record it | PostgreSQL, inside the backend's container |
| **Telegram bot** `apps/telegram-bot` | session counter in Redis, polling offset | commands, shutdown | Telegram, Redis, backend (`usersCount`) |
| **Configuration** `packages/config` | none | accept or refuse an environment | every process |
| **Deploy and rollback** `infra/ansible` | running images, `.env`, `releases/*.json`, `current.json`, schema version | deploy, roll back | registry, Docker, backend boot |
| **Backup and restore drill** `scripts/backup` | archives and checksums on the remote | dump, upload, prune, drill | PostgreSQL, S3 |
| **Security gates** `check-security-exceptions.mjs`, `audit-ci.mjs`, the workflows | a register of waivers with dates, `.trivyignore`, a tracking issue | check, audit, scan, merge, rescan | registry of advisories, GitHub |
| **Upgrade gate** `migration-upgrade-gate.mjs` | the working tree, a scratch database | apply a baseline, upgrade it | git, PostgreSQL |
| **Skill tooling** `install-skills.mjs`, `verify-skills.mjs` | `.agents/skills`, `.claude/skills`, `skills-lock.json` | download, verify, link, persist; check offline | the skills command |
| **Observability** | SDK started or not | start, stop | every process |

Vendored agent skills, documents and assets make up most of the repository's
lines; they are text.

### What is hard about it

* **Interleaving of requests.**  Every `await` in `AuthService` is a point where
  another request runs.  `refresh` is a look-up, a slow argon2 verification, a
  conditional revocation, another look-up and an INSERT; the row can be revoked,
  deleted or expire between any two of them, and no transaction spans them.
* **Failure in the middle.**  The process can die, or a statement fail, after the
  old refresh token is revoked and before the new one exists.
* **Late, lost and reordered answers.**  The client gives up after 10 s while the
  backend goes on; several async functions of one Pinia store overlap; tabs share a
  cookie that is good for one exchange.
* **Time.**  Access tokens are trusted until they expire, whatever happened to the
  user or the session; refresh tokens have a lifetime of their own.
* **Playbooks, scripts and containers** can stop between any two steps, and what they
  left behind is what the next run starts from.
* **What outlives a process** (the queue at Telegram, a session in Redis, a row that was
  committed before its answer was lost) is met again by the next process.
* **Days pass** between the steps of a job and between a merge and the next rescan.

The hazards, each at its line and with the properties that cover it, are in
`PROJECT.json`.

### What makes each component correct

* Auth: a refresh token is exchanged at most once; a session never has two usable
  tokens; a session that is over stays over; a token belongs to the user who signed
  in; a deleted user gets nothing more; every request is answered.
* Browser: racing restores do not cost the browser its cookie; a tab that logged
  out stays out until it has new tokens; a waiting navigation is decided; a profile
  on the screen is the one of the access token.
* Container: an outage of the database ends no process over idle connections or probes and
  heals by itself; nothing that compose fills in for a forgotten line of `.env` gets into
  production unseen.  Bootstrap: it never changes a row, and
  what it reports as created is created and recorded.
* Bot: no command is lost in silence, the counter is the number of writes that reached
  Redis, updates are tried in order and all of them in the end.
* Deploy: what runs, what `.env` names and what `current.json` records agree, or the run
  has failed.  Backup: a newest archive that can be verified and a history that
  retention keeps.
* Gates: nothing high passes without a waiver that obeys the rules on the day it counts,
  and what becomes vulnerable after its merge is noticed.  Upgrade gate: the upgrade it
  passes is the one from the previous release.
* Skills: what agents load after a run is what the lock names, and a recorded hash stays.

## 2. Modules

| Module | Role |
|---|---|
| `SessionFamilies` | abstract specification: what the backend promises about refresh tokens |
| `AuthService` | the backend's handlers, one action per database statement |
| `AuthServiceProofs` | type correctness, the session invariants and what is owed to single requests, the implementation of `SessionFamilies`, and that every request is answered, proved |
| `BrowserSession` | the tabs of a browser over one cookie, composed with `SessionFamilies` |
| `BrowserProofs` | types, the cookie, the logged-out tab and waiting navigations of `BrowserSession`, and that it stays within `SessionFamilies`, proved |
| `Deploy` | the playbooks and the restore procedure over one host |
| `DeployProofs` | the types, the schema and, with one operator, what runs and what is recorded, proved |
| `EnvRules` | the environment contract as operators: what compose makes of `.env`, which environments `loadEnv` accepts, and what it makes of them |
| `BackendContainer` | the backend's process over `EnvRules`, its pool and probe, and the admin bootstrap inside it |
| `ContainerProofs` | all properties of `BackendContainer`, recovery included, proved |
| `UpdateDelivery` | abstract specification: what the bot promises about the updates of its chats |
| `Bot` | the Telegram bot, its queue and its sessions |
| `BotProofs` | types, order, accounting and the counter of the bot, and that it implements `UpdateDelivery`, proved |
| `SecurityGate` | the register of waivers, the two jobs that use it and the three workflows |
| `GateProofs` | types, the waivers, and that what becomes wrong is noticed, proved |
| `SkillStore` | the skill installer and its offline check |
| `SkillProofs` | all safety properties of `SkillStore`, proved |
| `MigrationGate` | the upgrade gate |
| `UpgradeProofs` | what a verdict of the upgrade gate says, for any two commits, proved |
| `MCAuthService`, `MCBrowserSession`, `MCDeploy`, `MCBackendContainer`, `MCBot`, `MCSecurityGate`, `MCSkillStore`, `MCMigrationGate` | symmetry sets and small constants for TLC |

```
SessionFamilies  <--- implemented by (TLC and TLAPS) ---  AuthService
      ^
      '------ used as the backend by ------ BrowserSession

UpdateDelivery  <--- implemented by (TLC and TLAPS) ---  Bot

EnvRules  <--- boots by --- BackendContainer
```

The browser is checked against the promise and not against the handlers: the
refinement is what allows it, and it keeps the product of the two state spaces out
of the runs.  The other modules share no state with the sessions: `Deploy` knows of the
backend only whether it boots and answers, `BackendContainer` looks inside that boot.

### SessionFamilies

A *session* is named by the refresh token its login returned; the tokens it rotates
to belong to it.  `Open`, `Spend`, `Mint`, `Abandon`, `Close` are the only things that
may happen: a session has at most one usable token *or* one rotation in flight, and
one that has neither is over for good, since no action gives it anything again.

### AuthService

| TLA+ | Code |
|---|---|
| `users`, `tokens` | the tables of `schema.zmodel` and the init migration; a `RefreshToken` with `revokedAt = null` is `"live"` |
| `req[r]` | the local variables of the handler that serves request `r`; `step` is the await it stands at |
| `jwts` | access tokens in clients' hands, with `sub` and `exp` |
| `clock` | `Date.now()` |
| `parent`, `family` | history: what a token was rotated from, and its session |
| `StartX`, `XFind`, ... | the route of `auth.controller.ts` and one action per statement of `auth.service.ts` |
| `Revoke`, `RevokeMatches` | `updateMany({ where: { id, revokedAt: null } })` |
| `RegisterCreate` / `RegisterDuplicate` | the INSERT under the unique index on `email` |
| `IssueCreate` / `IssueOrphan` | the INSERT under the foreign key on `userId` |
| `GuardRejects` | `JwtAuthGuard` in front of `logout` and `me` |
| `Abort` | a statement fails or the process dies |
| `DeleteUser` | a row deleted by an operator, `ON DELETE CASCADE` |

A secret, a password or a signature is abstracted to whether it verifies, so
`LoginReject` and `RefreshReject` are always possible.  `LoginFind` stands for
`validateUser` with its argon2 verification: nothing it read is used afterwards but
the id.  `TypeOK` is `Types` and `Lifetimes`: at every moment, the one of its making
included, an access or a refresh token is at most its own TTL from its expiry, so that
no token lives longer than its TTL.  Bounds: `IdLeft` and `UserIdLeft` let a request start only while an id is
left for it, so that the finite sets of ids never stop a handler half way;
`MaxClock` stops the clock.

### BrowserSession

| TLA+ | Code |
|---|---|
| `tab[b]` | the Pinia store of `stores/auth.ts`, the route, the pending navigation (`nav`) and the `submitting` / `loggingOut` of the mounted view (`busy`) |
| `call[c]` | an async function that awaits the network: which one (`fn`), its request (`op`), where that is (`at`), the cookie and bearer it was sent with, and whether the tab still waits for it (`heard`) |
| `cookie` | the one `refresh_token` cookie of the browser |
| `Forward`, `Back`, `Load`, `GoToDashboard`, `ToLogin` | `router.beforeEach` and its two routes |
| `Submit`, `ClickLogout`, `ClickReload` | the handlers of the views, with the buttons' disabled states |
| `Serve...` | the backend, as `SessionFamilies` allows |
| `ReceiveTokens`, `ReceiveProfile`, `ReceiveLogout`, `ReceiveError` | the continuation of `login`, `tryRefresh`, `fetchMe`, `reload`, `logout` after its await |
| `GiveUp`, `LoseAnswer`, `LoseRequest` | `AbortSignal.timeout`, a connection that breaks before or after the headers |
| `Outdate` | the access token expires or its key is rotated |
| `EndSession` | the session ages out or its user is deleted |

A navigation that another one replaces still runs its guard to the end, and the
store changes it makes stay: `nav` names the call whose verdict counts.  After a page
load nobody hears the old page's calls, though the backend may still serve them.
`Faults` switches lost answers, timeouts, refusals and failing INSERTs;
`CookieHasDomain` is whether `COOKIE_DOMAIN` is set, because `clearCookie`
(`auth.controller.ts:87`) names no domain and then does not remove the cookie.
Bounds: `Calls` limits the functions in flight, `TokenIds` the pairs; a sign-in or a
refresh past the last pair is refused with 429, which `AUTH_THROTTLE` does too.
`Takes` and `Unused` fix which free name is used, since names mean nothing.

### Deploy

| TLA+ | Code |
|---|---|
| `play[p]` | a run of `deploy.yml` or `rollback.yml`, or a `docker compose up` by hand: its variables (`release`), the command it is at, and the release that compose read from `.env` when it started (`project`) |
| `env` | the images named by `{{ app_dir }}/.env` |
| `running[s]`, `backend` | the containers of `docker-compose.yml` and whether the backend is down, booting or serving |
| `schema` | how many migrations the database has |
| `recorded`, `current` | `releases/<tag>.json` and `releases/current.json` |
| `Render` ... `RecordCurrent` | the tasks of the playbooks, in order; a rollback has no `Migrate` and no `Record` |
| `UpBackend`, `UpFrontend`, `UpBot` | `docker compose up -d`, which starts the services in the order of `depends_on` |
| `Fail` | any command fails or its retries run out; Ansible stops and undoes nothing |
| `Boot` | the compose command of the backend: `db:migrate`, then the server |
| `Crash` | `restart: unless-stopped` |
| `StopWriters`, `Restore`, `BringUp` | section 9 of `docs/runbooks/BACKUP_RESTORE.md` |

A release is one name for its three digests, and it is signed or not as a whole.
Migrations are numbered, and `Migrations[r]` is how many release `r` carries: `zen migrate
deploy` applies those the database lacks and leaves newer ones alone.  `Boot` takes the
migration and the start of the server as one step, since the container is not healthy in
between; `Crash` can come right after.  The frontend and the bot start in parallel in
reality; neither touches what the other does.  Nothing locks the host, so `Plays` may
hold several operators.

### EnvRules and BackendContainer

| TLA+ | Code |
|---|---|
| `env`, `Composed`, `Loaded` | the `.env` beside `docker-compose.yml`; what its `${VAR:-default}` make of it; the environment of the container |
| `EnvShapes` | the variables of `packages/config`, each with the classes of text that the rules tell apart (a URL by its protocol, host and whether it holds a sample value) |
| `FieldsHold` | the Zod schema; `EnvBool`, `ParseOrigins`, `HasProtocol` are its helpers |
| `Parsed` | defaults and transforms |
| `SecretsHold` ... `TelemetryHolds` | the blocks of `superRefine` for production |
| `phase` | the container: `db:migrate`, `bootstrap()`, listening, `app.close()`, `stopOtel` |
| `pool`, `client[c]`, `query[c]` | whether `pg.Pool` lends connections; connection `c`, live, broken or not there; who has checked it out and waits |
| `probe` | the last answer of `/health/ready` |
| `Serve`, `Ready`, `NotReady` | a statement of a request, and `SELECT 1` of the probe, check a connection out, or find none |
| `Answer`, `Cut` | the database answers; or the connection breaks under the query, which rejects |
| `IdleError` | the pool's `'error'` listener |
| `Signal`, `Close`, `CloseFails`, `Flush` | `shutdown()` and Nest's hooks |
| `Exit`, `Up` | the process ends, compose restarts it |
| `step[r]`, `Invoke` ... `Audit` | one run of `bootstrap-admin.ts`, statement by statement |
| `Register` | `AuthService.register` with the same address |

The rules of `EnvRules` are operators, so that what boots with an environment can be said
about every one of them; properties are stated over `env`, what an operator wrote, while the
rules see what compose made of it.  The database goes away between queries and under
them.  The listener of `database.service.ts:37` is one for idle clients, and `pool.query`,
which the probe uses, has its own; a client that the ORM has checked out for a request has
none in the repository, so `Cut` may end the process there, and `OutageIsNoExit` leaves that
one step out.  A request that finds no connection fails and changes nothing here.  A
statement of the bootstrap may be done though its answer is lost (`Create` to
`"failed"` with the row there).  The two closes that overlap on a signal, Nest's own
and `shutdown()`'s, are one step; `CloseFails` stands for the second one's rejection.  Bound: `MaxKills` signals and kills.

### Bot

| TLA+ | Code |
|---|---|
| `sent`, `confirmed` | the updates at Telegram, and those the offset of `getUpdates` has confirmed |
| `session` | `commandCount` in Redis |
| `phase`, `lastTried`, `fetched` | grammY's polling loop, `lastTriedUpdateId`, and the answer it is at |
| `step`, `count` | the middleware of `createBot`: session read, backend, reply, session write |
| `Read` | `session()` and the counting middleware |
| `AskBackend` | `buildStatsReply` with its deadline |
| `Write`, `HandlerEnds` | the session's `SET` reaches Redis and is answered |
| `HandlerFails` | an error that `bot.catch` logs; at the write, also one where Redis took the `SET` and its answer was lost |
| `Signal`, `Stop`, `Quit`, `StopOtel`, `ShutdownFails`, `Drained` | `shutdown()` of `index.ts` |
| `Crash`, `GraceExpires`, `Launch` | the container runtime |

grammY is not under the repository; the module has of it what `index.ts` and `bot.ts` rely
on.  A signal ends the polling at once but not the handler that is running, which
then meets a closed Redis.  Bounds: `MaxUpdates`, and `MaxLaunches` processes, of
which the last is neither killed nor signalled, so that liveness is not refuted by
restarts without end.

### UpdateDelivery

Updates are taken in order, one at a time and each at least once; one that is taken is
*settled*, perhaps more than once: its handler ends and counts a command that has been answered,
or it fails on the record.  Telegram forgets only settled updates and the one in hand.
`Bot!KeepsDelivery` maps `hand` to `Hand` (the update whose handler runs) and
`settled` to `Settled` (`excused`, and `saved`, the updates whose session some handler has brought
to Redis); a process that dies over an update takes the step `Drop`.

### SecurityGate

| TLA+ | Code |
|---|---|
| `Valid`, `Active` | `validateExceptions` and `loadActiveExceptions` of `check-security-exceptions.mjs` |
| `Check`, `Audit` | the dependency-audit job: that script, then `audit-ci.mjs` |
| `Audited`, `Shipped` | advisories of the production dependencies that `pnpm audit --prod` looks at; those of packages inside an image, which the dependencies of the frontend's build are not (`Dockerfile.frontend` copies the built `dist` alone) |
| `WriteTrivyignore`, `Scan` | the image job: `--write-trivyignore` (`listed` is the day it ran), then Trivy over what is in the images |
| `Change`, `Rescan`, `Release`, `Conclude` | the workflows under `.github/workflows` and what they end in |
| `Publish`, `DayPasses` | advisories are published, time passes |

Days are numbers and a date that does not parse is `NoDate`.  Critical is high and
moderate is low: the rules treat them alike.  The
informational audit of dev dependencies is left out.

### SkillStore

| TLA+ | Code |
|---|---|
| `canonical`, `claude`, `lockFile` | `.agents/skills`, `.claude/skills`, `skills-lock.json` |
| `Present` ... `Persist` | the loop of `install-skills.mjs`, one action per write |
| `Verified`, `Trusted` | what `verifyIntegrity` writes and returns |
| `Interrupt` | the installer is killed |
| `Touch`, `Relist` | somebody edits or deletes a skill, or changes its repository |
| `OfflineCheckPasses` | `verify-skills.mjs` |

The hash of a SKILL.md stands for its content.  `touched` remembers what changed after
the installer looked at it, which no installer can answer for.

### MigrationGate

The two commits are any two functions from names of migrations to contents; `tree` is the working tree that `git
checkout <ref> -- <dir>` writes into and removes nothing from (`Over`), `applied` the scratch
database.  A checkout of a directory that HEAD does not have fails (`Restore`).  What the
migration tool makes of a migration that was edited after it had been applied is not in the
repository: `Upgrade` and `Status` may go on or fail (`Edited`).  The gate has no retry and no concurrency; the module exists for what it
says of the order of those commands.

## 3. Runs

| Run | Instance | What it shows |
|---|---|---|
| `auth_sessions` | 2 requests, 1 user, 3 tokens, clock to 2, both TTLs 1 | `RotationMintsOnce`, `SessionHasOneToken`, `DeadRefreshRejected`, `LogoutSpendsToken`, `EndedSessionStaysEnded`, and that the handlers implement `SessionFamilies` |
| `auth_accounts` | 2 requests, 2 users, 2 addresses, 3 tokens, clock to 1, TTLs 1 (access) and 2 (refresh) | `Lifetimes` with both TTLs told apart, `OneUserPerEmail`, `SessionKeepsUser`, `DeletedUserGetsNoAccess` |
| `auth_liveness` | 2 requests, fairness | every accepted request is answered |
| `browser_tabs` | 2 tabs, 2 calls, 2 pairs, no faults | `CookieFollowsRotation`, `OutMeansOut` across tabs |
| `browser_settles` | 1 tab, 2 calls, 2 pairs, faults, fairness | `NavigationDecided` under faults (`CookieFollowsRotation` under faults is proved) |
| `browser_logout` | 1 tab, no faults | a violation, below |
| `deploy` | 1 operator, 3 releases (two in a row, one unsigned), 2 migrations | `PlaysRunSigned`, `SchemaCoversBackend`, `RecordsWhatRuns` |
| `container` | 65 `.env` files, 2 connections, 2 bootstrap runs, 1 signal or kill, fairness | `TelemetryRuns`, `OwnValues`, `CreatedIsAudited`, `OutageIsNoExit`, `Recovers`, `NeverResets` |
| `bot` | 4 updates of 2 chats (`/stats`, text, an unknown command, `/start`), 2 processes, fairness | `CommandsAccountedFor`, `CounterIsRuns`, `TriedInOrder`, `EveryUpdateTried`, and that the bot implements `UpdateDelivery` |
| `security_gate` | 2 advisories (one of them of nothing an image holds), 12 registers, 4 days, fairness | `WaiversHold`, `ExpiryIsNoticed`, `AdvisoryIsNoticed` |
| `skills` | 2 skills, 2 contents, 2 repositories | `RunLeavesTrusted`, `OfflineAgrees`, `HashIsKept` |
| `migration_upgrade` | 2 migrations, 2 contents | a violation, below |

**Why the bounds are enough.**  A race over one refresh token takes two requests: a
third adds only a second loser, and the proofs cover any number.  Three tokens are a
login, a rotation and a second rotation (or a second login), which is what a replayed
ancestor, a forked session or a revived one needs.  With both TTLs 1 and a clock to 2
a token is seen before, at and after its expiry while a request is in flight; in
`auth_accounts` the TTLs differ, so that one taken for the other shows, and a re-issue on
the refresh path gives a token that its user does not hold already.  Two
users and two addresses let a deletion, a re-registration and a foreign session
meet.  In the browser, two calls over two pairs contain a restore that races a
sign-in, a logout or another restore, with a loser and a winner; the second tab adds
the shared cookie.  Both values of `CookieHasDomain` occur.  On the host, two signed releases
let a rollback meet a newer schema and a restore an older one, and the third is the
one that fails its verification after its `.env` is there; the state space is finite
without a bound, so any number of playbooks follow one another.

The `.env` files are a full one and a sparse one (everything left out that compose has a
good default for), each with one variable left out or written in a wrong way, and a
developer's: a rule is met alone, and with what compose fills in; the proofs cover all.  Of two
connections one can break idle and the other under a query, or a request can hold one while
the probe waits.  Two bootstrap runs and a registration are
all that can meet at one unique index.  The bot's four updates put two commands of one
chat into different processes with a text between them.  Four days let a waiver of two
be checked on its last day, expire between two steps and be renewed; the second
advisory is one that only the audit can see.  Two skills let one fail while the other is linked, and
nothing bounds the number of installer runs.  Every action of the modules of passing runs
fires.

**Fairness.**  `AuthService!FairSpec` has weak fairness of `Handle(r)`, one handler's next
step: an accepted request is a promise on Node's event loop and a statement on a
pooled connection, which are served in turn; nothing is assumed of clients, the clock
or operators.  `BrowserSession!FairSpec` has weak fairness of serving a request and of
receiving its answer (the client's own 10 s timeout would end the wait otherwise).
`Bot!FairSpec`: the process goes on with its loop, its handler and its shutdown, and the
container runtime restarts it; that a request to Redis or Telegram succeeds is not
assumed.  `BackendContainer!FairSpec`: compose restarts, the process goes on with its
start or its end, it hears of each query and each broken connection in the end, and the
readiness probe gets its turn in the pool's queue when all connections are checked out (strong
fairness, since other queries take them in between); the database may stay away, and
`Recovers` says so.  That compose restarts is `restart: unless-stopped`, which does not start
again what was stopped with `docker stop`: the model takes it that whoever stops the
container so also starts it again.  `SecurityGate!FairSpec`: jobs run to their end, and the weekly rescan
is started however many other workflows are (strong fairness, since each of them
disables it for a while; the schedule does not wait for a quiet moment for ever).

**Violations.**  Each is a statement of the repository that the code does not keep:

* `LogoutGuardsDashboard` (`apps/frontend/e2e/auth.spec.ts:61`): a logout with an expired
  access token is refused before the handler; the store is cleared, the cookie and its
  row stay, and the next page load is signed in.
* `UpgradeIsTested` (`scripts/migration-upgrade-gate.mjs:6`): `git checkout` of a directory
  removes nothing, so the baseline already has HEAD's migrations and the upgrade has
  nothing to do.

**Other disagreements met while modelling**, which no run states:

* The loser of two overlapping registrations gets 500 where
  `test/auth-negative.e2e-spec.ts` says 409; `OneUserPerEmail` holds.
* A profile request that outlives its session overwrites the next user's profile
  (`stores/auth.ts:18`); an open dashboard whose token is refused repeats the refusal on every
  Retry, as only the route guard refreshes.
* A playbook that fails after `compose up` leaves other containers running than
  `current.json` names, which the rollback runbook reads as what is running.
* `audit-ci.mjs:39` takes an empty answer of the registry for an empty report, although its
  header (13-14) says that an outage fails; `AdvisoryIsNoticed` holds by the image scan, for what is in an image.
* `verify-skills.mjs:7-8` says that a missing SKILL.md fails; 33-36 skip it.  An installer that
  is killed before it persists leaves links to content whose hash the next run
  records as it finds it.
* `main.ts:34` gives `enableCors` a list of origins as one text, so that none of them is
  served; `packages/config` accepts such lists.
* The comment at `database.service.ts:31-36` says that in-flight queries merely reject; the repository
  listens for errors of idle clients only, and a client under a request's statement is not
  one.  `OutageIsNoExit` says how far the listener reaches.
* `docker-compose.yml:11-12` says that `packages/config` rejects placeholders in production; of
  compose's own defaults it lets `postgres:postgres` of `DATABASE_URL` pass, and `OwnValues` does
  not speak of it.
* With audits that end in an error (above), an advisory of a package that only the frontend's
  build uses goes unnoticed: no image holds it.
* A bootstrap run that dies after the INSERT leaves an admin without an audit row, and an
  ordinary user with the address is reported as the existing admin.

## 4. Proofs

`AuthServiceProofs` proves about `Spec` for every finite or infinite choice of the
constants, from `NoneAssumption` and `TTLAssumption` alone:

* **TypeCorrect** `Spec => []TypeOK`.  `TypeOK` is not inductive: `IssueCreate` inserts a row
  for `req[r].user`, which must be a user and not `None`, at a step that only some
  requests reach.  `TypeInv` adds `Wiring` (what each step of a handler has in its
  local variables) and `RowsOwned` (a row that was inserted has an owner).  The bound on the
  lifetimes is kept because expiries never move and the clock only goes on.
* **RotationCorrect**, **SessionCorrect**, **SessionUserCorrect**:
  `[]RotationMintsOnce`, `[]SessionHasOneToken`, `[]SessionKeepsUser`.  The inductive
  invariant is `SessionInv`: a token with a successor, or with a rotation in flight, is
  not live (`SpentBeforeReplaced`); a rotation acts for the owner of its token
  (`ActsForOwner`); the two properties themselves; and `FamiliesKeepUser`.  The
  point of the argument is the conditional revocation: `RefreshRevoke` needs a live
  row and leaves a revoked one, so of the requests that passed the check on the
  same row one gets past it.  Most steps touch neither statuses towards life nor
  rotations: `Calm` says so, and `CalmKeepsSessions` disposes of them at once; what is
  left is `RefreshRevoke`, `IssueCreate`, logout and deletion.
* **PromiseKept** `Spec => KeepsPromise`: `Init` maps to the
  initial states of `SessionFamilies`, `RefreshRevoke` to `Spend`, `IssueCreate` to `Mint` or
  `Open`, `LogoutRevoke` and `DeleteUser` to `Close`, a rotation that ends otherwise to
  `Abandon`, and everything else to a stutter.
* **EndedCorrect** `Spec => EndedSessionStaysEnded`: no step of the promise gives a session that
  is over anything again.

`AuthServiceProofs` also has what is owed to single requests, on top of `TypeInv`:

* **EmailCorrect** and **AccessCorrect** need only the guards of the INSERTs, which are the
  unique index and the foreign key; the latter says that neither an access token nor a
  refresh token comes to a user whose row is deleted.
* **DeadCorrect** and **LogoutCorrect**: the inductive invariant is `OnTheirWay`.  A refresh that
  was dead on arrival is before its check and its token is still spent or expired, or it
  is at the check with a row that says so; a logout that has answered is over with its
  token.  `SpentForGood` (no step makes a spent row live or moves an expiry) keeps this while
  others run, and `OnTheirWayOthers` leaves each step with its own handler to look at.

`DeployProofs` proves about `Deploy`, for any releases and migrations:

* **HostTypeCorrect** and **SchemaCorrect**, for any number of operators: `[]TypeOK` and
  `[]SchemaCoversBackend`.  The types need `Wired`: a playbook knows its release, and a
  stack brought up by hand goes through no other command.  Given the types, the schema
  is inductive, because the backend's own command migrates before it serves, other
  migrations only add and a restore needs a stopped backend.
* **SignedCorrect** and **RecordCorrect**, with one operator (`Solo`): `[]PlaysRunSigned` and
  `RecordsWhatRuns`.  Both follow from `Progress`: at each command, what the earlier ones
  left in `.env` and in the containers is still there.  The assumption is needed: the
  playbooks hold no lock, and another one may render `.env` between any two commands.

`ContainerProofs`, from `ContainerAssumption`, for any set of environments, connections and runs:

* **ContainerTypeCorrect**, and **RowCorrect** and **OutageCorrect** from it: a process that listens is
  ended by a signal, a kill or `Cut`, and `Cut` ends it only over a broken connection that a
  request has checked out.
* **TrailCorrect**: `AuditsAreTrue` adds that a run which is about to record an admin has created
  the row; the unique index keeps it that run's.
* **TelemetryCorrect** and **OwnCorrect**: `BootedByRules` says that what listens was accepted by `loadEnv`, as
  compose composed it.  `ComposedFields` is what compose makes of a variable that was left
  out; each of these defaults fails a rule of production (a sample secret, an origin over
  http, a cookie domain that is localhost), so what was accepted was written.

`BotProofs`, from `BotAssumption`, for any chats, updates and processes: **BotTypeCorrect**,
**OrderCorrect** (what was tried and what is confirmed are beginnings of the queue),
**AccountCorrect** (a command that was tried is in hand, excused, or answered and saved;
only tried ones are confirmed) and

* **CounterCorrect** `Spec => []CounterIsRuns`.  A handler writes the count it read before two
  awaits, so the equation between a counter and the number of runs needs what `RunsCounted`
  adds: the run in hand is not among those whose write reached Redis, and past the read the count in hand is
  the counter and one more for a command.  Only one handler runs at a time, which is why
  nobody else writes in between.  The runs are finitely many (`TypeOK`), and one more
  run is one more element, so the sum needs no induction.
* **DeliveryKept** `Spec => KeepsDelivery`: `Init` maps to `Init`, and every step to one of
  `UpdateDelivery` or a stutter.  The invariant `SettledInOrder` is that what was tried is settled
  or in hand, so that whatever is next has only settled updates before it.

`SkillProofs`, from `SkillAssumption`, for any list of skills: **SkillTypeCorrect**; **HashCorrect**, because
the installer's copy of the lock has every hash of the file (`LockExtends`); **LinksCorrect** and
**OfflineCorrect** from `TurnsTaken`: of the skills that the run is done with, each is settled,
and a turn writes only to its own skill.

`GateProofs`, from `GateAssumption`, for any registers: **GateTypeCorrect** and **WaiversCorrect**.  The
invariant `CheckedBefore` is needed because validity and use are different steps, perhaps on
different days: past its first step a job's register was valid on some earlier day, and
an entry that is active now and was valid then obeys the rules; the list of ignored ids is what
was active on the day it was written, and valid then.

`UpgradeProofs`, for any sets of migrations: **VerdictCorrect**, what the gate's verdict does say (when it
passes, the migrations of both commits, put together, have been applied to an empty database, those
that HEAD edited as they were; when it fails, SQL of that union fails, or HEAD has no
migrations where the previous release has some, or HEAD edited one), and
**UpgradeUntested**, that the upgrade it runs never has anything to apply, so that the
violation of `UpgradeIsTested` is no accident of the instance.  The invariant `Progress`
says what each command left in the tree and in the database.

`BrowserProofs`, from `NoneAssumption` and `SwitchAssumption`, for any number of tabs, calls, users and
tokens, with and without faults: **BrowserTypeCorrect**, **CookieCorrect** and **OutCorrect**, from one
invariant in two halves.

* `ClientInv` is about each request and each store: only an answered sign-in or refresh holds a
  pair, a navigation waits for a restore that still listens, and a tab that logged out
  holds no token and waits at most for a new pair.
* `SessionInv` says of every session where its one pair is.  A pair under way is known to no jar,
  request or other answer (`Undelivered`), so nobody can spend it first and it is still
  the usable one when it is delivered (`NewIsCurrent`); a rotation in flight is that of
  one request (`Rotators`); hence the jar holds the usable token, or the successor is being
  minted or on its way, or the session has been closed (`CookieTracked`).
  `CookieFollowsRotation` alone is not inductive: it says nothing while a call is in
  flight.
* Steps that mint and spend nothing are all `Quiet`, and one lemma takes the sessions through
  them; sign-in, rotation, the spend and its failure have a lemma each.

* **PromiseSuffices** `Spec => Backend!Spec`: what the browser makes the backend do is a behaviour
  of `SessionFamilies`, the specification that **PromiseKept** says the handlers implement.
* **NeverRefusedCorrect**, with finitely many ids: a rotation in flight has a pair left for it
  (`PairsSuffice`), and a cookie that some session takes is the one token of its own
  session, so that every request that was sent has a possible outcome.

**Liveness.**  `ENABLED` is out of the prover's reach, so weak fairness of an action `A` is
stated with the guard that enables it, `[]<>~guard \/ []<><<A>>_vars`.  This is what
`WF_vars(A)` says as soon as `guard => ENABLED <<A>>_vars` (`FairIsServed`, `FairServes`,
`FairGoesOn` and `FairRuns` are that step, from the fairness of each `FairSpec`), and that `A`
is possible under its guard is in turn proved as far as it is not plain from the actions:
**NeverStuckCorrect**, with finitely many requests and ids, for the INSERTs of the backend
and **NeverRefusedCorrect** for the requests of the browser.  From these hypotheses:

* **AnswerCorrect** `Spec /\ (\A r : Served(r)) => EveryRequestAnswered`.  `Left` counts the
  statements a handler has left; **AdvanceCorrect** says that no step raises it while the
  request is in flight, and `Handle(r)` lowers it.
* **NavigationCorrect** `Spec /\ (\A c : Serves(c) /\ Receives(c)) => NavigationDecided`.  `ToGo`
  counts what is left of a restore.  Whatever the other calls do, a step leaves the call alone,
  brings it nearer or decides the navigation (`NeverFurther`); a call that fails is no longer
  waited for.
* **RecoveryCorrect** `Spec /\ GoesOn /\ Heard(a) /\ Heard(b) /\ Probed /\ <>[][LeftAlone]_vars => Recovers`
  for `Clients = {a, b}`: each of the two connections is heard of and the probe gets its
  turn.  More connections need an induction over their number in temporal formulas.  The last
  hypothesis, nobody signals or kills the process any more, is what the bound `MaxKills` comes to
  in the model; a process that a broken connection ends comes back by itself.
* **ExpiryCorrect** and **AdvisoryCorrect** `Spec /\ JobsRun /\ RescanComes => ...`: `JobsLeft` is lowered
  by every step of a job and by nothing raised while a workflow runs, so every workflow
  ends; then a rescan comes (the strong fairness of `FairSpec`, with its guard), sees what is
  wrong and ends in an issue.

Each rank runs over a few literal values, one leads-to per value, and the temporal prover
chains them; without any one of the hypotheses these proofs fail.

Left to TLC: that an action is `ENABLED` under its guard, which the liveness runs rest on
anyway since they assume `WF` and `SF` themselves (`guard => ENABLED <<A>>_vars`, given to TLC
as an invariant of those instances, holds for each of those actions), and
`Bot!EveryUpdateTried`, whose argument is an induction over processes and updates of any
number, in temporal formulas.

## 5. Not modelled, and why

* The contents of passwords, hashes, JWTs and cookies: only whether they verify.
* The throttler's counting, Swagger, OpenAPI: a library's, configured here only.  A
  throttled request is refused before any handler runs.
* `RolesGuard`, `ServiceTokenGuard` and the validation pipe: stateless checks on one request.
* A rotation's answer that names the cookie's own expiry: `maxAge` and the row's
  `expiresAt` are the same TTL, so a cookie outlives its row by transit time only.
* Observability beyond whether the SDK runs: wiring of third-party SDKs.
* `with-env.mjs`: reads a file and starts a command.
* Backup and restore drill: shell pipelines over `pg_dump`, `openssl cms` and `aws s3`, whose
  state is the remote's files.  `Deploy` has the restore procedure; the hazards of the scripts are
  listed without a property.
* Vendored skills and documents.

## 6. Plan

What is left, in this order:

1. `Backup`: dump, encrypt, upload, checksum, prune, each of which may fail; the restore
   drill against the destination at any moment; retention against a reference
   definition of what it keeps.  Two statements to settle there: that a failed job
   alerts (`BACKUP_RESTORE.md:46`), although a function does not inherit bash's `ERR`
   trap and the pruning is one, and that one archive per week is kept (`:44`),
   although nothing reads the weekly number.
2. `EnvRules` against `infra/ansible/preflight.yml`: whether the playbook refuses what the backend
   would refuse at boot.
