-------------------------------- MODULE Deploy --------------------------------
(***************************************************************************)
(* Deploying and rolling back a release: infra/ansible/deploy.yml and       *)
(* rollback.yml over infra/docker/docker-compose.yml, on one host.          *)
(*                                                                         *)
(* A playbook is a sequence of commands, each of which may fail and end it; *)
(* nothing is undone.  docker compose takes the images to run from .env,    *)
(* which it reads when it starts, and not from the playbook's variables.    *)
(* Nothing keeps a second operator from starting a playbook meanwhile.      *)
(***************************************************************************)
EXTENDS Naturals

CONSTANTS
    Plays,              \* playbooks that run at the same time
    Releases,           \* release tags with their three image digests
    Signed,             \* releases whose digests were signed by the release workflow
    Migrations,         \* Migrations[r]: how many migrations release r carries
    VerifySignatures,   \* verify_image_signatures
    None                \* no release

ASSUME ReleaseAssumption ==
    /\ None \notin Releases
    /\ Signed \subseteq Releases
    /\ Migrations \in [Releases -> Nat]
    /\ VerifySignatures \in BOOLEAN

VARIABLES
    env,        \* the release whose digests are in .env
    running,    \* running[s]: the release of the container of service s
    backend,    \* the backend's container: down, booting (or crash-looping), serving
    schema,     \* how many migrations the database has
    recorded,   \* releases/<tag>.json
    current,    \* releases/current.json
    play        \* play[p]: a playbook, its variables and the command it is at

host == <<env, running, backend, schema>>
records == <<recorded, current>>
vars == <<host, records, play>>

Services == {"backend", "frontend", "bot"}

\* The commands of deploy.yml, in order; rollback.yml skips "migrate" and "record".  A stack
\* that is brought up by hand goes through the three services of docker compose up alone.
Commands == {"render", "verify", "pull", "migrate", "backend", "frontend", "bot",
             "ready", "record", "current"}
Play == [kind : {"none", "deploy", "rollback", "byHand"}, at : Commands \cup {"ended"},
         release : Releases \cup {None},    \* *_image and repo_version / rollback_tag
         project : Releases \cup {None}]    \* what docker compose up read from .env
Ended == [kind |-> "none", at |-> "ended", release |-> None, project |-> None]

Init ==
    /\ env = None
    /\ running = [s \in Services |-> None]
    /\ backend = "down"
    /\ schema = 0
    /\ recorded = {} /\ current = None
    /\ play = [p \in Plays |-> Ended]

At(p, command) == play[p].at = command
Goto(p, command) == play' = [play EXCEPT ![p].at = command]
Deploys(p) == play[p].kind = "deploy"

\* zen migrate deploy: applies the migrations of the image that the database lacks.
Migrated(r) == IF Migrations[r] > schema THEN Migrations[r] ELSE schema

-----------------------------------------------------------------------------
(* The playbooks.  deploy.yml has passed its preflight, rollback.yml the     *)
(* assertion that three digests are given.                                  *)

Start(p, kind, r) ==
    /\ At(p, "ended") /\ kind \in {"deploy", "rollback"}
    /\ play' = [play EXCEPT ![p] = [kind |-> kind, at |-> "render", release |-> r,
                                    project |-> None]]
    /\ UNCHANGED <<host, records>>

\* Mutant: the template is rendered by a task that comes too late.
RenderLater(p) ==
    /\ At(p, "render")
    /\ Goto(p, "verify")
    /\ UNCHANGED <<host, records>>

Render(p) ==
    /\ At(p, "render")
    /\ env' = play[p].release
    /\ Goto(p, "verify")
    /\ UNCHANGED <<running, backend, schema, records>>

\* Mutant: a host without cosign skips the verification.
VerifyOpen(p) ==
    /\ At(p, "verify")
    /\ Goto(p, "pull")
    /\ UNCHANGED <<host, records>>

\* cosign verify, of the playbook's own variables; without cosign the playbook fails.
Verify(p) ==
    /\ At(p, "verify")
    /\ VerifySignatures => play[p].release \in Signed
    /\ Goto(p, "pull")
    /\ UNCHANGED <<host, records>>

Pull(p) ==
    /\ At(p, "pull")
    /\ Goto(p, IF Deploys(p) THEN "migrate" ELSE "backend")
    /\ UNCHANGED <<host, records>>

\* docker compose run --rm backend db:migrate.
Migrate(p) ==
    /\ At(p, "migrate")
    /\ schema' = Migrated(env)
    /\ Goto(p, "backend")
    /\ UNCHANGED <<env, running, backend, records>>

\* docker compose up -d reads .env, and starts or replaces the backend if it has to.
Recreate ==
    /\ backend' = IF running["backend"] = env THEN
                       IF backend = "down" THEN "booting" ELSE backend
                  ELSE "booting"
    /\ running' = [running EXCEPT !["backend"] = env]

UpBackend(p) ==
    /\ At(p, "backend")
    /\ Recreate
    /\ play' = [play EXCEPT ![p] = [kind |-> @.kind, at |-> "frontend",
                                    release |-> @.release, project |-> env]]
    /\ UNCHANGED <<env, schema, records>>

UpFrontend(p) ==
    /\ At(p, "frontend")
    /\ running' = [running EXCEPT !["frontend"] = play[p].project]
    /\ Goto(p, "bot")
    /\ UNCHANGED <<env, backend, schema, records>>

EndUp(p) ==
    play' = [play EXCEPT ![p] = IF @.kind = "byHand" THEN Ended ELSE [@ EXCEPT !.at = "ready"]]

\* Mutant: the bot is left alone when its dependency is not healthy.
UpBotOptional(p) ==
    /\ At(p, "bot")
    /\ running' = IF backend = "serving"
                  THEN [running EXCEPT !["bot"] = play[p].project] ELSE running
    /\ EndUp(p)
    /\ UNCHANGED <<env, backend, schema, records>>

\* The bot depends on the backend with condition service_healthy.
UpBot(p) ==
    /\ At(p, "bot") /\ backend = "serving"
    /\ running' = [running EXCEPT !["bot"] = play[p].project]
    /\ EndUp(p)
    /\ UNCHANGED <<env, backend, schema, records>>

\* /health/ready, asked of whatever backend container there is.
Ready(p) ==
    /\ At(p, "ready") /\ backend = "serving"
    /\ Goto(p, IF Deploys(p) THEN "record" ELSE "current")
    /\ UNCHANGED <<host, records>>

Record(p) ==
    /\ At(p, "record")
    /\ recorded' = recorded \cup {play[p].release}
    /\ Goto(p, "current")
    /\ UNCHANGED <<host, current>>

RecordCurrent(p) ==
    /\ At(p, "current")
    /\ current' = play[p].release
    /\ play' = [play EXCEPT ![p] = Ended]
    /\ UNCHANGED <<host, recorded>>

\* A command fails, or its retries run out: the playbook ends where it is.
Fail(p) ==
    /\ ~At(p, "ended")
    /\ play' = [play EXCEPT ![p] = Ended]
    /\ UNCHANGED <<host, records>>

-----------------------------------------------------------------------------
(* The host, and an operator with docs/runbooks/BACKUP_RESTORE.md.           *)

\* Mutant: the command of the image, which runs the server only.
BootServerOnly ==
    /\ backend = "booting"
    /\ backend' = "serving"
    /\ UNCHANGED <<env, running, schema, records, play>>

\* The command of the compose file: db:migrate, then the server.
Boot ==
    /\ backend = "booting"
    /\ backend' = "serving"
    /\ schema' = Migrated(running["backend"])
    /\ UNCHANGED <<env, running, records, play>>

\* The container dies and is restarted (restart: unless-stopped).
Crash ==
    /\ backend = "serving"
    /\ backend' = "booting"
    /\ UNCHANGED <<env, running, schema, records, play>>

StopWriters ==
    /\ backend # "down"
    /\ backend' = "down"
    /\ UNCHANGED <<env, running, schema, records, play>>

\* The latest backup is older than some of the migrations.
Restore ==
    /\ backend = "down"
    /\ \E n \in 0 .. schema : schema' = n
    /\ UNCHANGED <<env, running, backend, records, play>>

\* docker compose --env-file .env up -d, by hand.
BringUp(p) ==
    /\ At(p, "ended") /\ env # None
    /\ play' = [play EXCEPT ![p] = [kind |-> "byHand", at |-> "backend", release |-> None,
                                    project |-> None]]
    /\ UNCHANGED <<host, records>>

-----------------------------------------------------------------------------
Command(p) ==
    \/ Render(p) \/ Verify(p) \/ Pull(p) \/ Migrate(p)
    \/ UpBackend(p) \/ UpFrontend(p) \/ UpBot(p)
    \/ Ready(p) \/ Record(p) \/ RecordCurrent(p)

Next ==
    \/ \E p \in Plays, kind \in {"deploy", "rollback"}, r \in Releases : Start(p, kind, r)
    \/ \E p \in Plays : BringUp(p) \/ Command(p) \/ Fail(p)
    \/ Boot \/ Crash
    \/ StopWriters \/ Restore

Spec == Init /\ [][Next]_vars

(***************************************************************************)
(* Properties.                                                             *)
(***************************************************************************)

\* The host's files and containers and the playbooks keep their types, and a playbook
\* past its template task has something in .env to run.
TypeOK ==
    /\ env \in Releases \cup {None}
    /\ running \in [Services -> Releases \cup {None}]
    /\ backend \in {"down", "booting", "serving"}
    /\ schema \in Nat
    /\ recorded \subseteq Releases /\ current \in Releases \cup {None}
    /\ play \in [Plays -> Play]
    /\ backend # "down" => running["backend"] # None
    /\ \A p \in Plays : play[p].at \notin {"render", "ended"} => env # None

\* What a playbook pulls, migrates with and starts comes from .env, and what it verified
\* from its variables: with one operator the two agree, so from the verification on
\* nothing but signed digests is put to work by a playbook.
PlaysRunSigned ==
    VerifySignatures => \A p \in Plays : play[p].kind \in {"deploy", "rollback"} =>
        /\ play[p].at \in {"pull", "migrate", "backend"} => env \in Signed
        /\ play[p].at \in {"frontend", "bot"} => play[p].project \in Signed

\* A backend that answers has the schema it was built for, whatever was deployed, rolled
\* back or restored from an older backup before it booted.
SchemaCoversBackend ==
    backend = "serving" => schema >= Migrations[running["backend"]]

\* releases/current.json tells what was deployed: a playbook that changes it has all three
\* services on the release it writes.
RecordsWhatRuns ==
    [][current' # current => \A s \in Services : running[s] = current']_vars
=============================================================================
