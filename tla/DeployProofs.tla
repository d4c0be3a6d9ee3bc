----------------------------- MODULE DeployProofs -----------------------------
(***************************************************************************)
(* What holds of Deploy for any set of releases: with any number of         *)
(* playbooks at once, the types and SchemaCoversBackend; with one operator, *)
(* PlaysRunSigned and RecordsWhatRuns too.                                  *)
(***************************************************************************)
EXTENDS Deploy, TLAPS

USE ReleaseAssumption DEF host, records

(***************************************************************************)
(* Types.                                                                   *)
(***************************************************************************)

\* A playbook knows its release, and a stack brought up by hand runs the commands of
\* docker compose up alone.
Wired(q) ==
    /\ q.kind \in {"deploy", "rollback"} => q.release \in Releases
    /\ q.at \notin {"backend", "frontend", "bot", "ended"} => q.kind \in {"deploy", "rollback"}
    /\ q.at # "ended" => q.kind # "none"

TypeInv == TypeOK /\ \A p \in Plays : Wired(play[p])

\* What the database has been migrated to is a number of migrations, not lower than before.
LEMMA MigratedType ==
    ASSUME schema \in Nat, NEW r \in Releases
    PROVE  Migrated(r) \in Nat /\ Migrated(r) >= schema /\ Migrated(r) >= Migrations[r]
  BY DEF Migrated

\* A command that moves its playbook on and leaves the other playbooks alone keeps the types.
LEMMA MovesTyped ==
    ASSUME TypeInv, NEW p \in Plays, NEW q \in Play, Wired(q),
           play' = [play EXCEPT ![p] = q],
           env' \in Releases \cup {None}, env # None => env' # None,
           q.at \notin {"render", "ended"} => env' # None
    PROVE  /\ play' \in [Plays -> Play]
           /\ \A x \in Plays : play'[x].at \notin {"render", "ended"} => env' # None
           /\ \A x \in Plays : Wired(play'[x])
  BY DEF TypeInv, TypeOK, At

\* The playbook itself after it went on to another command, or ended.
LEMMA PlayMoves ==
    ASSUME TypeInv, NEW p \in Plays, ~At(p, "ended")
    PROVE  /\ play[p] \in Play /\ Wired(play[p]) /\ env \in Releases \cup {None}
           /\ Ended \in Play /\ Wired(Ended)
           /\ \A c \in Commands :
                /\ [play[p] EXCEPT !.at = c] \in Play
                /\ c \in {"backend", "frontend", "bot"} \/ play[p].kind # "byHand"
                      => Wired([play[p] EXCEPT !.at = c])
           /\ ~At(p, "render") => env \in Releases
  BY DEF TypeInv, TypeOK, Play, Ended, Commands, Wired, At

\* Each command of a playbook keeps the types.
LEMMA CommandTyped ==
    ASSUME TypeInv, NEW p \in Plays, Command(p)
    PROVE  TypeInv'
<1> USE PlayMoves DEF At
<1>1. CASE Render(p)
  <2>1. play[p].release \in Releases /\ play[p].kind # "byHand"
    BY <1>1 DEF Render, TypeInv, Wired
  <2> QED BY <1>1, <2>1, MovesTyped DEF Render, Goto, TypeInv, TypeOK, Commands
<1>2. CASE Verify(p)
  <2>1. play[p].kind # "byHand"
    BY <1>2 DEF Verify, TypeInv, Wired
  <2> QED BY <1>2, <2>1, MovesTyped DEF Verify, Goto, TypeInv, TypeOK, Commands
<1>3. CASE Pull(p)
  <2>1. play[p].kind # "byHand"
    BY <1>3 DEF Pull, TypeInv, Wired
  <2> QED BY <1>3, <2>1, MovesTyped DEF Pull, Goto, TypeInv, TypeOK, Commands
<1>4. CASE Migrate(p)
  <2>1. env \in Releases /\ Migrated(env) \in Nat
    BY <1>4, MigratedType DEF Migrate, TypeInv, TypeOK
  <2> QED BY <1>4, <2>1, MovesTyped DEF Migrate, Goto, TypeInv, TypeOK, Commands
<1>5. CASE UpBackend(p)
  <2>1. env \in Releases
    BY <1>5 DEF UpBackend, TypeInv, TypeOK
  <2> DEFINE q == [kind |-> play[p].kind, at |-> "frontend",
                 release |-> play[p].release, project |-> env]
  <2>2. play[p] \in Play /\ Wired(play[p])
    BY <1>5 DEF UpBackend
  <2>3. q \in Play /\ Wired(q) /\ q.at = "frontend"
    BY <1>5, <2>1, <2>2 DEF UpBackend, Play, Commands, Wired
  <2>4. /\ running' \in [Services -> Releases \cup {None}]
        /\ backend' \in {"down", "booting", "serving"} /\ running'["backend"] # None
    BY <1>5, <2>1 DEF UpBackend, Recreate, TypeInv, TypeOK, Services
  <2>5. play' = [play EXCEPT ![p] = q]
    BY <1>5 DEF UpBackend
  <2> HIDE DEF q
  <2> QED BY <1>5, <2>1, <2>3, <2>4, <2>5, MovesTyped DEF UpBackend, TypeInv, TypeOK
<1>6. CASE UpFrontend(p)
  <2>1. play[p].project \in Releases \cup {None}
    BY <1>6 DEF UpFrontend, Play
  <2>2. running' \in [Services -> Releases \cup {None}] /\ running'["backend"] = running["backend"]
    BY <1>6, <2>1 DEF UpFrontend, TypeInv, TypeOK, Services
  <2> QED BY <1>6, <2>2, MovesTyped DEF UpFrontend, Goto, TypeInv, TypeOK, Commands
<1>7. CASE UpBot(p)
  <2>1. play[p].project \in Releases \cup {None}
    BY <1>7 DEF UpBot, Play
  <2>2. running' \in [Services -> Releases \cup {None}] /\ running'["backend"] = running["backend"]
    BY <1>7, <2>1 DEF UpBot, TypeInv, TypeOK, Services
  <2>3. CASE play[p].kind = "byHand"
    BY <1>7, <2>2, <2>3, MovesTyped DEF UpBot, EndUp, Ended, TypeInv, TypeOK, Commands
  <2>4. CASE play[p].kind # "byHand"
    BY <1>7, <2>2, <2>4, MovesTyped DEF UpBot, EndUp, TypeInv, TypeOK, Commands
  <2> QED BY <2>3, <2>4
<1>8. CASE Ready(p)
  <2>1. play[p].kind # "byHand"
    BY <1>8 DEF Ready, TypeInv, Wired
  <2> QED BY <1>8, <2>1, MovesTyped DEF Ready, Goto, TypeInv, TypeOK, Commands
<1>9. CASE Record(p)
  <2>1. play[p].kind # "byHand" /\ play[p].release \in Releases
    BY <1>9 DEF Record, TypeInv, Wired
  <2> QED BY <1>9, <2>1, MovesTyped DEF Record, Goto, TypeInv, TypeOK, Commands
<1>10. CASE RecordCurrent(p)
  <2>1. play[p].release \in Releases
    BY <1>10 DEF RecordCurrent, TypeInv, Wired
  <2> QED BY <1>10, <2>1, MovesTyped DEF RecordCurrent, Ended, TypeInv, TypeOK
<1> QED
  BY <1>1, <1>2, <1>3, <1>4, <1>5, <1>6, <1>7, <1>8, <1>9, <1>10 DEF Command

\* So does every other step: an operator, the host, a playbook that fails.
LEMMA OtherTyped ==
    ASSUME TypeInv,
           \/ \E p \in Plays, kind \in {"deploy", "rollback"}, r \in Releases : Start(p, kind, r)
           \/ \E p \in Plays : BringUp(p) \/ Fail(p)
           \/ Boot \/ Crash \/ StopWriters \/ Restore \/ UNCHANGED vars
    PROVE  TypeInv'
<1>1. ASSUME NEW p \in Plays, NEW kind \in {"deploy", "rollback"}, NEW r \in Releases, Start(p, kind, r)
      PROVE  TypeInv'
  <2> DEFINE q == [kind |-> kind, at |-> "render", release |-> r, project |-> None]
  <2>1. q \in Play /\ Wired(q)
    BY DEF Play, Commands, Wired
  <2> QED BY <1>1, <2>1, MovesTyped DEF Start, TypeInv, TypeOK
<1>2. ASSUME NEW p \in Plays, BringUp(p) PROVE TypeInv'
  <2> DEFINE q == [kind |-> "byHand", at |-> "backend", release |-> None, project |-> None]
  <2>1. q \in Play /\ Wired(q)
    BY DEF Play, Commands, Wired, Ended
  <2> QED BY <1>2, <2>1, MovesTyped DEF BringUp, TypeInv, TypeOK
<1>3. ASSUME NEW p \in Plays, Fail(p) PROVE TypeInv'
  <2>1. Ended \in Play /\ Wired(Ended) /\ Ended.at = "ended"
    BY DEF Play, Wired, Ended
  <2> QED BY <1>3, <2>1, MovesTyped DEF Fail, TypeInv, TypeOK
<1>4. CASE Boot
  <2>1. running["backend"] \in Releases
    BY <1>4 DEF Boot, TypeInv, TypeOK, Services
  <2> QED BY <1>4, <2>1, MigratedType DEF Boot, TypeInv, TypeOK, Wired
<1>5. CASE Crash \/ StopWriters \/ Restore
  BY <1>5 DEF Crash, StopWriters, Restore, TypeInv, TypeOK, Wired
<1>6. CASE UNCHANGED vars
  BY <1>6 DEF vars, TypeInv, TypeOK, Wired
<1> QED BY <1>1, <1>2, <1>3, <1>4, <1>5, <1>6

LEMMA InitTyped == Init => TypeInv
  BY DEF Init, TypeInv, TypeOK, Wired, Play, Ended, Services, Commands

LEMMA TypeInvariance == Spec => []TypeInv
<1>1. TypeInv /\ [Next]_vars => TypeInv'
  BY CommandTyped, OtherTyped DEF Next
<1> QED BY InitTyped, <1>1, PTL DEF Spec

\* The host and the playbooks keep their types, and a playbook past its template task has
\* something in .env to run (deploy.yml:81, rollback.yml:37).
THEOREM HostTypeCorrect == Spec => []TypeOK
<1>1. TypeInv => TypeOK
  BY DEF TypeInv
<1> QED BY TypeInvariance, <1>1, PTL

(***************************************************************************)
(* The schema.                                                              *)
(***************************************************************************)

\* A backend that answers has the schema it was built for, with any number of operators:
\* it migrates before it serves (docker-compose.yml:196), what else migrates only adds,
\* and a restore works on a stopped backend.
THEOREM SchemaCorrect == Spec => []SchemaCoversBackend
<1>1. Init => SchemaCoversBackend
  BY DEF Init, SchemaCoversBackend
<1>2. TypeInv /\ SchemaCoversBackend /\ [Next]_vars => SchemaCoversBackend'
  <2> SUFFICES ASSUME TypeInv, SchemaCoversBackend, [Next]_vars
               PROVE  SchemaCoversBackend'
    OBVIOUS
  <2> USE DEF SchemaCoversBackend
  <2>1. backend = "serving" => running["backend"] \in Releases
    BY DEF TypeInv, TypeOK, Services
  <2>2. ASSUME NEW p \in Plays, Migrate(p) PROVE SchemaCoversBackend'
    <3>1. env \in Releases /\ schema \in Nat
      BY <2>2 DEF Migrate, At, TypeInv, TypeOK
    <3>2. schema' >= schema /\ schema' \in Nat
      BY <2>2, <3>1, MigratedType DEF Migrate
    <3> QED BY <2>1, <2>2, <3>1, <3>2 DEF Migrate
  <2>3. ASSUME NEW p \in Plays, UpBackend(p) PROVE SchemaCoversBackend'
    BY <2>3 DEF UpBackend, Recreate, TypeInv, TypeOK, Services
  <2>4. ASSUME NEW p \in Plays, UpFrontend(p) \/ UpBot(p) PROVE SchemaCoversBackend'
    BY <2>4 DEF UpFrontend, UpBot, TypeInv, TypeOK, Services
  <2>5. CASE Boot
    BY <2>5, MigratedType DEF Boot, TypeInv, TypeOK, Services
  <2>6. CASE Crash \/ StopWriters \/ Restore
    BY <2>6 DEF Crash, StopWriters, Restore
  <2>7. CASE UNCHANGED host
    BY <2>7
  <2>8. ASSUME NEW p \in Plays,
               \/ \E kind \in {"deploy", "rollback"}, r \in Releases : Start(p, kind, r)
               \/ BringUp(p) \/ Fail(p) \/ Verify(p) \/ Pull(p) \/ Ready(p) \/ Record(p)
               \/ RecordCurrent(p)
        PROVE  UNCHANGED host
    BY <2>8 DEF Start, BringUp, Fail, Verify, Pull, Ready, Record, RecordCurrent
  <2>9. ASSUME NEW p \in Plays, Render(p) PROVE SchemaCoversBackend'
    BY <2>9 DEF Render
  <2> QED BY <2>2, <2>3, <2>4, <2>5, <2>6, <2>7, <2>8, <2>9 DEF Next, Command, vars
<1> QED BY TypeInvariance, <1>1, <1>2, PTL DEF Spec

(***************************************************************************)
(* One operator: what .env, the containers and the playbook agree on.       *)
(***************************************************************************)

Solo == \A p, q \in Plays : p = q

\* What a playbook has done so far is still there: no other playbook renders .env, and no
\* other docker compose up replaces a container.
DoneSoFar(q) ==
    q.kind \in {"deploy", "rollback"} =>
        /\ q.at \notin {"render", "ended"} => env = q.release
        /\ q.at \notin {"render", "verify", "ended"} /\ VerifySignatures => q.release \in Signed
        /\ q.at \in {"frontend", "bot", "ready", "record", "current"} =>
               q.project = q.release /\ running["backend"] = q.release
        /\ q.at \in {"bot", "ready", "record", "current"} => running["frontend"] = q.release
        /\ q.at \in {"ready", "record", "current"} => running["bot"] = q.release

Progress == TypeInv /\ \A p \in Plays : DoneSoFar(play[p])

\* A command leaves its own playbook where it should be.
LEMMA CommandProgress ==
    ASSUME Progress, NEW p \in Plays, Command(p)
    PROVE  DoneSoFar(play[p])'
<1>1. TypeInv /\ TypeInv' /\ DoneSoFar(play[p]) /\ play[p] \in Play
  BY CommandTyped DEF Progress, TypeInv, TypeOK
<1> USE <1>1 DEF DoneSoFar, At, Goto
<1>2. CASE Render(p)
  BY <1>2 DEF Render, TypeInv, TypeOK
<1>3. CASE Verify(p)
  BY <1>3 DEF Verify, TypeInv, TypeOK
<1>4. CASE Pull(p)
  BY <1>4 DEF Pull, TypeInv, TypeOK
<1>5. CASE Migrate(p)
  BY <1>5 DEF Migrate, TypeInv, TypeOK
<1>6. CASE UpBackend(p)
  BY <1>6 DEF UpBackend, Recreate, TypeInv, TypeOK, Services
<1>7. CASE UpFrontend(p)
  BY <1>7 DEF UpFrontend, TypeInv, TypeOK, Services
<1>8. CASE UpBot(p)
  BY <1>8 DEF UpBot, EndUp, Ended, TypeInv, TypeOK, Services
<1>9. CASE Ready(p)
  BY <1>9 DEF Ready, TypeInv, TypeOK
<1>10. CASE Record(p)
  BY <1>10 DEF Record, TypeInv, TypeOK
<1>11. CASE RecordCurrent(p)
  BY <1>11 DEF RecordCurrent, Ended, TypeInv, TypeOK
<1> QED
  BY <1>2, <1>3, <1>4, <1>5, <1>6, <1>7, <1>8, <1>9, <1>10, <1>11 DEF Command

\* With one operator nothing else disturbs it either.
LEMMA ProgressInvariance ==
    ASSUME Solo
    PROVE  Spec => []Progress
<1>1. Init => Progress
  BY InitTyped DEF Init, Progress, DoneSoFar, Ended
<1>2. Progress /\ [Next]_vars => Progress'
  <2> SUFFICES ASSUME Progress, [Next]_vars
               PROVE  TypeInv' /\ \A x \in Plays : DoneSoFar(play[x])'
    BY DEF Progress
  <2>1. TypeInv'
    BY CommandTyped, OtherTyped DEF Progress, Next
  <2>2. ASSUME NEW x \in Plays PROVE DoneSoFar(play[x])'
    <3>1. DoneSoFar(play[x]) /\ play \in [Plays -> Play]
      BY DEF Progress, TypeInv, TypeOK
    <3>2. \A p \in Plays : p = x
      BY DEF Solo
    <3> USE <3>1, <3>2 DEF DoneSoFar
    <3>3. ASSUME NEW p \in Plays, NEW kind \in {"deploy", "rollback"}, NEW r \in Releases,
                 Start(p, kind, r)
          PROVE  DoneSoFar(play[x])'
      BY <3>3 DEF Start
    <3>4. ASSUME NEW p \in Plays, BringUp(p) \/ Fail(p) PROVE DoneSoFar(play[x])'
      <4>1. play'[x].kind \in {"byHand", "none"}
        BY <3>4 DEF BringUp, Fail, Ended
      <4> QED BY <4>1
    <3>5. ASSUME NEW p \in Plays, Command(p) PROVE DoneSoFar(play[x])'
      BY <3>5, CommandProgress
    <3>6. CASE Boot \/ Crash \/ StopWriters \/ Restore \/ UNCHANGED vars
      BY <3>6 DEF Boot, Crash, StopWriters, Restore, vars
    <3> QED BY <3>3, <3>4, <3>5, <3>6 DEF Next
  <2> QED BY <2>1, <2>2
<1> QED BY <1>1, <1>2, PTL DEF Spec

\* One operator's playbook pulls, migrates with and starts what it verified: .env, which
\* docker compose reads, names the release of the playbook's variables (deploy.yml:81-147).
THEOREM SignedCorrect ==
    ASSUME Solo
    PROVE  Spec => []PlaysRunSigned
<1>1. Progress => PlaysRunSigned
  BY DEF Progress, DoneSoFar, PlaysRunSigned
<1> QED BY ProgressInvariance, <1>1, PTL

\* One operator's playbook that writes releases/current.json has all three services on the
\* release it writes (deploy.yml:141-185, rollback.yml:79-114).
THEOREM RecordCorrect ==
    ASSUME Solo
    PROVE  Spec => RecordsWhatRuns
<1>1. Progress /\ [Next]_vars => [current' # current => \A s \in Services : running[s] = current']_vars
  <2> SUFFICES ASSUME Progress, Next, current' # current
               PROVE  \A s \in Services : running[s] = current'
    BY DEF vars
  <2>1. PICK p \in Plays : RecordCurrent(p)
    BY DEF Next, Command, Start, BringUp, Fail, Boot, Crash, StopWriters, Restore,
           Render, Verify, Pull, Migrate, UpBackend, UpFrontend, UpBot, Ready, Record
  <2>2. play[p].kind \in {"deploy", "rollback"} /\ play[p].at = "current"
    BY <2>1 DEF RecordCurrent, At, Progress, TypeInv, Wired
  <2> QED BY <2>1, <2>2 DEF RecordCurrent, Progress, DoneSoFar, Services
<1> QED BY ProgressInvariance, <1>1, PTL DEF Spec, RecordsWhatRuns
=============================================================================
