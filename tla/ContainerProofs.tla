---------------------------- MODULE ContainerProofs ----------------------------
(***************************************************************************)
(* Safety of the backend's container and of the admin bootstrap, for any    *)
(* set of environments, of connections and of runs: type correctness, what  *)
(* the environment contract gives in production, what an outage cannot do,  *)
(* and what the bootstrap does to the user's row and to the audit trail;    *)
(* and that the backend recovers from outages.                              *)
(***************************************************************************)
EXTENDS BackendContainer, TLAPS

\* The container stops: everything in it is gone, and runs in it have failed.
LEMMA ExitType ==
    ASSUME TypeOK, Exit, kills' \in 0 .. MaxKills
    PROVE  TypeOK'
<1>1. step' \in [Runs -> {"idle"} \cup Running \cup Finished]
    BY DEF TypeOK, Exit, Running, Finished
<1>2. \A r \in Runs : step'[r] \notin Running
    BY DEF TypeOK, Exit, Running
<1>3. /\ client' \in [Clients -> {"none", "live", "dead"}]
      /\ query' \in [Clients -> {"none", "request", "probe"}]
      /\ \A c \in Clients : client'[c] = "none" /\ query'[c] = "none"
    BY DEF Exit
<1>4. /\ env' \in EnvShapes /\ db' \in {"up", "down"} /\ user' \in Users /\ audits' \subseteq Runs
      /\ phase' = "down" /\ sdk' = FALSE /\ pool' = "open" /\ probe' = "none"
    BY DEF TypeOK, Exit, tables
<1> QED
    BY <1>1, <1>2, <1>3, <1>4 DEF TypeOK, Phases

\* What TypeOK says of the pool and of one of its connections.
PoolOK ==
    /\ pool \in {"open", "ended"} /\ probe \in {"none", "up", "down"}
    /\ client \in [Clients -> {"none", "live", "dead"}]
    /\ query \in [Clients -> {"none", "request", "probe"}]

LentOK(c) ==
    /\ client[c] = "live" => db = "up"
    /\ query[c] # "none" => client[c] # "none"
    /\ client[c] # "none" => phase = "listening" \/ (phase = "closing" /\ query[c] # "none")

\* A step of the pool changes connections only.
LEMMA PoolType ==
    ASSUME TypeOK, UNCHANGED <<env, phase, sdk, db, tables, step, kills>>,
           pool' = pool, PoolOK', \A c \in Clients : LentOK(c)'
    PROVE  TypeOK'
<1>1. Loaded' = Loaded
    BY DEF Loaded
<1>2. \A r \in Runs : step'[r] \in Running => phase' # "down" /\ Accepts(Loaded)'
    BY <1>1 DEF TypeOK
<1> QED
    BY <1>1, <1>2 DEF TypeOK, PoolOK, LentOK, tables

\* A step of the bootstrap changes the state of its run only.
LEMMA RunType ==
    ASSUME TypeOK, NEW r \in Runs, NEW outcome \in Running \cup Finished,
           step' = [step EXCEPT ![r] = outcome],
           outcome \in Running => phase # "down" /\ Accepts(Loaded),
           user' \in Users, audits' \subseteq Runs,
           UNCHANGED <<env, process, db, kills>>
    PROVE  TypeOK'
<1>1. step' \in [Runs -> {"idle"} \cup Running \cup Finished]
    BY DEF TypeOK
<1>2. \A q \in Runs : step'[q] = IF q = r THEN outcome ELSE step[q]
    BY DEF TypeOK
<1>3. \A q \in Runs : step'[q] \in Running => phase # "down" /\ Accepts(Loaded)
    BY <1>2 DEF TypeOK
<1>4. Loaded' = Loaded
    BY DEF Loaded
<1>5. \A q \in Runs : step'[q] \in Running => phase' # "down" /\ Accepts(Loaded)'
    BY <1>3, <1>4 DEF TypeOK, process
<1> QED
    BY <1>1, <1>5 DEF TypeOK, process

\* Processes, pool, rows and runs keep their types.
THEOREM ContainerTypeCorrect == Spec => []TypeOK
<1>1. Init => TypeOK
    <2> SUFFICES ASSUME Init PROVE TypeOK
        OBVIOUS
    <2>1. env \in EnvShapes /\ kills \in 0 .. MaxKills
        BY ContainerAssumption DEF Init
    <2>2. step = [r \in Runs |-> "idle"] /\ "idle" \notin Running
        BY DEF Init, Running
    <2>3. user \in Users /\ audits \subseteq Runs
        BY DEF Init, Users
    <2>4. PoolOK /\ \A c \in Clients : LentOK(c)
        BY DEF Init, PoolOK, LentOK
    <2> QED
        BY <2>1, <2>2, <2>3, <2>4 DEF Init, TypeOK, Phases, PoolOK, LentOK
<1>2. TypeOK /\ [Next]_vars => TypeOK'
    <2> SUFFICES ASSUME TypeOK, [Next]_vars
                 PROVE  TypeOK'
        OBVIOUS
    <2>a. MaxKills \in Nat /\ kills \in 0 .. MaxKills
        BY ContainerAssumption DEF TypeOK
    <2>b. Exit /\ UNCHANGED kills => TypeOK'
        BY <2>a, ExitType
    <2>c. Exit /\ kills < MaxKills /\ kills' = kills + 1 => TypeOK'
        BY <2>a, ExitType
    <2>1. CASE DbDown
        <3>1. \A c \in Clients : client'[c] = IF client[c] = "live" THEN "dead" ELSE client[c]
            BY <2>1 DEF DbDown
        <3>2. PoolOK' /\ \A c \in Clients : LentOK(c)'
            BY <2>1, <3>1 DEF TypeOK, DbDown, PoolOK, LentOK
        <3> QED
            BY <2>1, <3>2 DEF TypeOK, DbDown, tables, Loaded, PoolOK, LentOK
    <2>2. CASE DbUp
        BY <2>2 DEF TypeOK, DbUp, process, tables, Loaded
    <2>3. CASE Up
        BY <2>3 DEF TypeOK, Up, lending, tables, Phases, Loaded
    <2>4. CASE Migrate
        BY <2>4, <2>b DEF TypeOK, Migrate, lending, tables, Phases, Loaded
    <2>5. CASE Boot
        <3>1. CASE Accepts(Loaded) /\ phase' = "listening" /\ sdk' \in BOOLEAN
            BY <2>5, <3>1 DEF TypeOK, Boot, lending, tables, Phases, Exit, Loaded
        <3>2. CASE Exit
            BY <2>5, <3>2, <2>b DEF Boot
        <3> QED
            BY <2>5, <3>1, <3>2 DEF Boot
    <2>6. CASE Close
        BY <2>6 DEF TypeOK, Close, lending, tables, Phases, Loaded
    <2>7. CASE CloseFails \/ Flush
        BY <2>7, <2>b DEF CloseFails, Flush
    <2>8. ASSUME NEW c \in Clients, Serve(c) \/ Ready(c) PROVE TypeOK'
        <3>1. /\ \E who \in {"request", "probe"} : CheckOut(c, who)
              /\ phase = "listening" /\ probe' = probe
              /\ UNCHANGED <<env, phase, sdk, pool, db, tables, step, kills>>
            BY <2>8 DEF Serve, Ready
        <3>2. PoolOK'
            BY <3>1 DEF TypeOK, CheckOut, PoolOK
        <3>3. \A d \in Clients : LentOK(d)'
            <4>1. /\ client'[c] = IF client[c] = "none" THEN "live" ELSE client[c]
                  /\ client[c] = "none" => db = "up"
                  /\ \A d \in Clients : d # c => client'[d] = client[d] /\ query'[d] = query[d]
                BY <3>1 DEF TypeOK, CheckOut
            <4> QED
                BY <3>1, <4>1 DEF TypeOK, LentOK
        <3> QED
            BY <3>1, <3>2, <3>3, PoolType
    <2>9. ASSUME NEW c \in Clients, IdleError(c) PROVE TypeOK'
        <3>1. PoolOK' /\ \A d \in Clients : LentOK(d)'
            BY <2>9 DEF TypeOK, IdleError, PoolOK, LentOK
        <3> QED
            BY <2>9, <3>1, PoolType DEF IdleError
    <2>10. CASE NotReady
        <3>1. PoolOK' /\ \A d \in Clients : LentOK(d)'
            BY <2>10 DEF TypeOK, NotReady, lending, PoolOK, LentOK
        <3> QED
            BY <2>10, <3>1, PoolType DEF NotReady, lending
    <2>16. ASSUME NEW c \in Clients, Answer(c) \/ Cut(c) PROVE TypeOK'
        <3>1. CASE Exit /\ UNCHANGED kills
            BY <3>1, <2>b
        <3>2. CASE /\ probe' \in {"up", "down", probe}
                   /\ query' = [query EXCEPT ![c] = "none"]
                   /\ \/ client' = [client EXCEPT ![c] = "none"]
                      \/ client' = client /\ pool = "open"
                   /\ UNCHANGED <<env, phase, sdk, pool, db, tables, step, kills>>
            <4>1. PoolOK'
                BY <3>2 DEF TypeOK, PoolOK
            <4>2. \A d \in Clients : LentOK(d)'
                BY <3>2 DEF TypeOK, LentOK
            <4> QED
                BY <3>2, <4>1, <4>2, PoolType
        <3>3. \/ client' = [client EXCEPT ![c] = "none"]
              \/ client' = client /\ pool = "open"
              \/ Exit
            <4>1. CASE Answer(c) /\ pool = "open"
                <5>1. client' = [client EXCEPT ![c] = client[c]]
                    BY <4>1 DEF Answer
                <5> QED
                    BY <4>1, <5>1 DEF TypeOK
            <4>2. CASE Answer(c) /\ pool # "open"
                BY <4>2 DEF Answer
            <4>3. CASE Cut(c)
                BY <4>3 DEF Cut
            <4> QED
                BY <2>16, <4>1, <4>2, <4>3
        <3> QED
            BY <2>16, <3>1, <3>2, <3>3 DEF Answer, Cut
    <2>11. CASE Signal
        <3>1. kills' \in 0 .. MaxKills
            BY <2>11, <2>a DEF Signal
        <3>2. CASE phase = "listening" /\ phase' = "closing"
            <4>1. \A c \in Clients : client'[c] = IF query[c] = "none" THEN "none" ELSE client[c]
                BY <2>11, <3>2 DEF Signal, Exit
            <4>2. PoolOK' /\ \A c \in Clients : LentOK(c)'
                BY <2>11, <3>2, <4>1 DEF TypeOK, Signal, Exit, PoolOK, LentOK
            <4> QED
                BY <2>11, <3>1, <3>2, <4>2 DEF TypeOK, Signal, tables, Phases, Exit, Loaded, PoolOK, LentOK
        <3> QED
            BY <2>11, <2>c, <3>2 DEF Signal
    <2>12. CASE Kill
        BY <2>12, <2>b, <2>c DEF Kill
    <2>13. CASE Register
        <3>1. user' \in Users
            BY <2>13 DEF Register, Users
        <3> QED
            BY <2>13, <3>1 DEF TypeOK, Register, process, Loaded
    <2>14. ASSUME NEW r \in Runs, Bootstrap(r) PROVE TypeOK'
        <3>1. \/ step[r] = "idle" /\ phase # "down"
              \/ step[r] \in Running
            BY <2>14 DEF Bootstrap, Invoke, Find, Create, Audit, RunFails, Running
        <3>2. step[r] \in Running => phase # "down" /\ Accepts(Loaded)
            BY DEF TypeOK
        <3>3. user' \in Users
            BY <2>14 DEF TypeOK, Bootstrap, Invoke, Find, Create, Audit, RunFails, Users, tables
        <3>4. audits' \subseteq Runs
            BY <2>14 DEF TypeOK, Bootstrap, Invoke, Find, Create, Audit, RunFails, tables
        <3>5. UNCHANGED <<env, process, db, kills>>
            BY <2>14 DEF Bootstrap, Invoke, Find, Create, Audit, RunFails
        <3>6. \E outcome \in Running \cup Finished :
                  /\ step' = [step EXCEPT ![r] = outcome]
                  /\ outcome \in Running => phase # "down" /\ Accepts(Loaded)
            <4>1. CASE Invoke(r)
                <5>1. phase # "down"
                    BY <4>1 DEF Invoke
                <5>2. CASE step' = [step EXCEPT ![r] = "find"] /\ Accepts(Loaded)
                    BY <5>1, <5>2 DEF Running
                <5>3. CASE step' = [step EXCEPT ![r] = "failed"]
                    BY <5>3 DEF Running, Finished
                <5>4. ASSUME NEW inputOk \in BOOLEAN, NEW confirmed \in BOOLEAN,
                             step' = [step EXCEPT ![r] =
                                 IF Accepts(Loaded) /\ inputOk /\ (Parsed(Loaded).production => confirmed)
                                 THEN "find" ELSE "failed"]
                      PROVE  \/ step' = [step EXCEPT ![r] = "find"] /\ Accepts(Loaded)
                             \/ step' = [step EXCEPT ![r] = "failed"]
                    BY <5>4
                <5> QED
                    BY <4>1, <5>2, <5>3, <5>4 DEF Invoke
            <4>2. CASE Find(r)
                <5>1. phase # "down" /\ Accepts(Loaded)
                    BY <4>2, <3>2 DEF Find, Running
                <5>2. CASE user = NoUser
                    <6>1. step' = [step EXCEPT ![r] = "create"] /\ "create" \in Running
                        BY <4>2, <5>2 DEF Find, Running
                    <6> QED
                        BY <5>1, <6>1
                <5>3. CASE user # NoUser
                    <6>1. step' = [step EXCEPT ![r] = "exists"] /\ "exists" \in Finished \ Running
                        BY <4>2, <5>3 DEF Find, Running, Finished
                    <6> QED
                        BY <5>1, <6>1
                <5> QED
                    BY <5>2, <5>3
            <4>3. CASE Create(r)
                <5>1. phase # "down" /\ Accepts(Loaded)
                    BY <4>3, <3>2 DEF Create, Running
                <5>2. \E outcome \in {"audit", "failed"} : step' = [step EXCEPT ![r] = outcome]
                    BY <4>3 DEF Create
                <5> QED
                    BY <5>1, <5>2 DEF Running, Finished
            <4>4. CASE Audit(r)
                BY <4>4 DEF Audit, Running, Finished
            <4>5. CASE RunFails(r)
                BY <4>5 DEF RunFails, Running, Finished
            <4> QED
                BY <2>14, <4>1, <4>2, <4>3, <4>4, <4>5 DEF Bootstrap
        <3> QED
            BY <3>3, <3>4, <3>5, <3>6, RunType
    <2>15. CASE UNCHANGED vars
        BY <2>15 DEF TypeOK, vars, process, tables, Loaded
    <2> QED
        BY <2>1, <2>2, <2>3, <2>4, <2>5, <2>6, <2>7, <2>8, <2>9, <2>10, <2>11, <2>12, <2>13,
           <2>14, <2>15, <2>16 DEF Next, Database, Lifecycle, Probe, Hears
<1> QED
    BY <1>1, <1>2, PTL DEF Spec

-----------------------------------------------------------------------------
\* The row under the bootstrap address, once there, stays as it is.
THEOREM RowCorrect == Spec => NeverResets
<1>1. [Next]_vars => (user # NoUser => user' = user)
    <2> SUFFICES ASSUME [Next]_vars, user # NoUser
                 PROVE  user' = user
        OBVIOUS
    <2>1. CASE \E r \in Runs : Bootstrap(r)
        BY <2>1 DEF Bootstrap, Invoke, Find, Create, Audit, RunFails, tables
    <2>2. CASE Database \/ Lifecycle \/ Signal \/ Kill
        BY <2>2 DEF Database, DbDown, DbUp, Lifecycle, Up, Migrate, Boot, Close, CloseFails, Flush,
                    Signal, Kill, Exit, tables
    <2>3. CASE Probe \/ (\E c \in Clients : Serve(c) \/ Hears(c)) \/ Register
        BY <2>3 DEF Probe, Ready, NotReady, Serve, Hears, Answer, Cut, IdleError, Exit, Register, tables
    <2>4. CASE UNCHANGED vars
        BY <2>4 DEF vars, tables
    <2> QED
        BY <2>1, <2>2, <2>3, <2>4 DEF Next
<1> QED
    BY <1>1, PTL DEF Spec, NeverResets

\* A run that is about to record its admin has created it; a later row would have been
\* refused, so the record stays true.
AuditsAreTrue ==
    /\ \A r \in Runs : step[r] = "created" => r \in audits
    /\ \A r \in Runs : r \in audits \/ step[r] = "audit" => user = [role |-> "ADMIN", by |-> r]

\* Only a run changes the records, and of itself only; rows stay.
LEMMA AuditsAreTrueStep ==
    TypeOK /\ AuditsAreTrue /\ [Next]_vars => AuditsAreTrue'
<1> SUFFICES ASSUME TypeOK, AuditsAreTrue, [Next]_vars
             PROVE  AuditsAreTrue'
    OBVIOUS
<1>a. ASSUME NEW r \in Runs PROVE NoUser # [role |-> "ADMIN", by |-> r]
    BY DEF NoUser
<1>b. ASSUME user' = user, audits' = audits,
             \A r \in Runs : step'[r] \in {"created", "audit"} => step'[r] = step[r]
      PROVE  AuditsAreTrue'
    BY <1>b DEF AuditsAreTrue
<1>c. ASSUME Exit PROVE AuditsAreTrue'
    <2>1. \A r \in Runs : step'[r] \in {"created", "audit"} => step'[r] = step[r]
        BY <1>c DEF Exit
    <2> QED
        BY <1>b, <1>c, <2>1 DEF Exit, tables
<1>1. CASE Database \/ Lifecycle \/ Signal \/ Kill
    BY <1>1, <1>b, <1>c DEF Database, DbDown, DbUp, Lifecycle, Up, Migrate, Boot, Close, CloseFails,
                            Flush, Signal, Kill, tables
<1>2. CASE Probe \/ (\E c \in Clients : Serve(c) \/ Hears(c))
    BY <1>2, <1>b, <1>c DEF Probe, Ready, NotReady, Serve, Hears, Answer, Cut, IdleError, tables
<1>3. CASE Register
    <2>1. user = NoUser /\ audits' = audits /\ step' = step
        BY <1>3 DEF Register
    <2> QED
        BY <1>a, <2>1 DEF AuditsAreTrue
<1>4. ASSUME NEW r \in Runs, Bootstrap(r) PROVE AuditsAreTrue'
    <2>a. \A q \in Runs : q # r => step'[q] = step[q]
        BY <1>4 DEF TypeOK, Bootstrap, Invoke, Find, Create, Audit, RunFails
    <2>1. CASE Invoke(r) \/ Find(r) \/ RunFails(r)
        <3>1. step'[r] \notin {"created", "audit"}
            BY <2>1 DEF TypeOK, Invoke, Find, RunFails
        <3>2. user' = user /\ audits' = audits
            BY <2>1 DEF Invoke, Find, RunFails, tables
        <3> QED
            BY <1>b, <2>a, <3>1, <3>2
    <2>2. CASE Create(r)
        <3>1. audits' = audits
            BY <2>2 DEF Create
        <3>2. CASE user = NoUser
            <4>1. user' = [role |-> "ADMIN", by |-> r]
                BY <2>2, <3>2 DEF Create
            <4>2. \A q \in Runs : q \notin audits /\ step[q] \notin {"audit", "created"}
                BY <1>a, <3>2 DEF AuditsAreTrue
            <4>3. step'[r] # "created"
                BY <2>2, <3>2 DEF TypeOK, Create
            <4> QED
                BY <2>a, <3>1, <4>1, <4>2, <4>3 DEF AuditsAreTrue
        <3>3. CASE user # NoUser
            <4>1. user' = user /\ step'[r] \notin {"created", "audit"}
                BY <2>2, <3>3 DEF TypeOK, Create
            <4> QED
                BY <1>b, <2>a, <3>1, <4>1
        <3> QED
            BY <3>2, <3>3
    <2>3. CASE Audit(r)
        <3>1. user' = user /\ audits' = audits \cup {r} /\ step'[r] # "audit"
            BY <2>3 DEF TypeOK, Audit
        <3>2. user = [role |-> "ADMIN", by |-> r]
            BY <2>3 DEF AuditsAreTrue, Audit
        <3> QED
            BY <2>a, <3>1, <3>2 DEF AuditsAreTrue
    <2> QED
        BY <1>4, <2>1, <2>2, <2>3 DEF Bootstrap
<1>5. CASE UNCHANGED vars
    BY <1>5, <1>b DEF vars, tables
<1> QED
    BY <1>1, <1>2, <1>3, <1>4, <1>5 DEF Next

\* The audit trail names the run that created the admin, and no other.
THEOREM TrailCorrect == Spec => []CreatedIsAudited
<1>1. Init => AuditsAreTrue
    BY DEF Init, AuditsAreTrue
<1>2. TypeOK /\ AuditsAreTrue => CreatedIsAudited
    BY DEF TypeOK, AuditsAreTrue, CreatedIsAudited
<1> QED
    BY <1>1, <1>2, AuditsAreTrueStep, ContainerTypeCorrect, PTL DEF Spec

-----------------------------------------------------------------------------
\* What may take a backend away besides signals and kills: a connection that broke under
\* the statement of a request.
THEOREM OutageCorrect == Spec => OutageIsNoExit
<1>1. TypeOK /\ [Next]_vars =>
        (phase = "listening" /\ phase' # "listening" =>
             \/ kills' > kills
             \/ \E c \in Clients : query[c] = "request" /\ client[c] = "dead")
    <2> SUFFICES ASSUME TypeOK, [Next]_vars, phase = "listening", phase' # "listening"
                 PROVE  \/ kills' > kills
                        \/ \E c \in Clients : query[c] = "request" /\ client[c] = "dead"
        OBVIOUS
    <2>1. kills \in Nat
        BY ContainerAssumption DEF TypeOK
    <2>2. Signal \/ Kill \/ \E c \in Clients : Hears(c)
        <3>1. ~(\E r \in Runs : Bootstrap(r))
            BY DEF Bootstrap, Invoke, Find, Create, Audit, RunFails, process
        <3>2. ~Database /\ ~Probe /\ ~(\E c \in Clients : Serve(c)) /\ ~Register
            BY DEF Database, DbDown, DbUp, Probe, Serve, Ready, NotReady, Register, process
        <3>3. ~Lifecycle
            BY DEF Lifecycle, Up, Migrate, Boot, Close, CloseFails, Flush
        <3>4. ~UNCHANGED vars
            BY DEF vars, process
        <3> QED
            BY <3>1, <3>2, <3>3, <3>4 DEF Next
    <2>3. ASSUME NEW c \in Clients, Hears(c)
          PROVE  query[c] = "request" /\ client[c] = "dead"
        BY <2>3 DEF Hears, Answer, Cut, IdleError
    <2> QED
        BY <2>1, <2>2, <2>3 DEF Signal, Kill
<1> QED
    BY <1>1, ContainerTypeCorrect, PTL DEF Spec, OutageIsNoExit

-----------------------------------------------------------------------------
\* A backend that listens has an environment that loadEnv accepted, and started telemetry
\* by what that says.
BootedByRules ==
    phase = "listening" =>
        /\ Accepts(Loaded)
        /\ sdk = (Parsed(Loaded).endpoint /\ ~Parsed(Loaded).disabled)

\* Nothing but the boot makes it listen, and the environment does not change.
LEMMA BootedByRulesStep == BootedByRules /\ [Next]_vars => BootedByRules'
<1> SUFFICES ASSUME BootedByRules, [Next]_vars
             PROVE  BootedByRules'
    OBVIOUS
<1>a. ASSUME env' = env, phase' = phase, sdk' = sdk PROVE BootedByRules'
    BY <1>a DEF BootedByRules, Loaded
<1>b. ASSUME phase' # "listening" PROVE BootedByRules'
    BY <1>b DEF BootedByRules
<1>1. CASE Boot
    <2>1. CASE Exit
        BY <1>b, <2>1 DEF Exit
    <2>2. CASE /\ Accepts(Loaded) /\ Loaded' = Loaded
               /\ sdk' = (Parsed(Loaded).endpoint /\ ~Parsed(Loaded).disabled)
        BY <2>2 DEF BootedByRules
    <2>3. env' = env => Loaded' = Loaded
        BY DEF Loaded
    <2> QED
        BY <1>1, <2>1, <2>2, <2>3 DEF Boot
<1>2. CASE Up \/ Migrate \/ Close \/ CloseFails \/ Flush \/ Signal \/ Kill
    BY <1>2, <1>b DEF Up, Migrate, Close, CloseFails, Flush, Signal, Kill, Exit
<1>3. CASE Database \/ Probe \/ (\E c \in Clients : Serve(c)) \/ Register
    BY <1>3, <1>a DEF Database, DbDown, DbUp, Probe, Ready, NotReady, Serve, Register, process
<1>4. ASSUME NEW c \in Clients, Hears(c) PROVE BootedByRules'
    BY <1>4, <1>a, <1>b DEF Hears, Answer, Cut, IdleError, Exit
<1>5. CASE \E r \in Runs : Bootstrap(r)
    BY <1>5, <1>a DEF Bootstrap, Invoke, Find, Create, Audit, RunFails, process
<1>6. CASE UNCHANGED vars
    BY <1>6, <1>a DEF vars, process
<1> QED
    BY <1>1, <1>2, <1>3, <1>4, <1>5, <1>6 DEF Next, Lifecycle

\* The boot's rules hold throughout.
LEMMA BootedByRulesAlways == Spec => []BootedByRules
<1>1. Init => BootedByRules
    BY DEF Init, BootedByRules
<1> QED
    BY <1>1, BootedByRulesStep, PTL DEF Spec

\* What the compose file makes of the variables that the two properties are about.
LEMMA ComposedFields ==
    ASSUME env \in EnvShapes
    PROVE  /\ Loaded.NODE_ENV = IF env.NODE_ENV = "unset" THEN "production" ELSE env.NODE_ENV
           /\ Loaded.OTEL_SDK_DISABLED = IF env.OTEL_SDK_DISABLED \in {"unset", ""} THEN "true"
                                         ELSE env.OTEL_SDK_DISABLED
           /\ Loaded.OTEL_EXPORTER_OTLP_ENDPOINT.scheme \in Written
           /\ ~(env.JWT_ACCESS_SECRET.length > 0) => Loaded.JWT_ACCESS_SECRET.sample
           /\ ~(env.SERVICE_API_TOKEN.length > 0) => Loaded.SERVICE_API_TOKEN.sample
           /\ ~Given(env.CORS_ORIGIN) => Loaded.CORS_ORIGIN = <<Local("http")>>
           /\ env.COOKIE_DOMAIN = "unset" => Loaded.COOKIE_DOMAIN = "localhost"
<1>1. /\ Loaded.NODE_ENV = IF env.NODE_ENV \in {"unset", ""} THEN "production" ELSE env.NODE_ENV
      /\ Loaded.OTEL_SDK_DISABLED = IF env.OTEL_SDK_DISABLED \in {"unset", ""} THEN "true"
                                    ELSE env.OTEL_SDK_DISABLED
    BY DEF Loaded, Composed, EnvShapes
<1>2. Loaded.OTEL_EXPORTER_OTLP_ENDPOINT =
        IF HasProtocol(env.OTEL_EXPORTER_OTLP_ENDPOINT, Written)
        THEN env.OTEL_EXPORTER_OTLP_ENDPOINT
        ELSE [Local("http") EXCEPT !.host = "service"]
    BY DEF Loaded, Composed, EnvShapes
<1>3. [Local("http") EXCEPT !.host = "service"].scheme \in Written
    BY DEF Local, Written
<1>4. /\ ~(env.JWT_ACCESS_SECRET.length > 0) => Loaded.JWT_ACCESS_SECRET.sample
      /\ ~(env.SERVICE_API_TOKEN.length > 0) => Loaded.SERVICE_API_TOKEN.sample
    BY DEF Loaded, Composed, EnvShapes
<1>5. /\ ~Given(env.CORS_ORIGIN) => Loaded.CORS_ORIGIN = <<Local("http")>>
      /\ env.COOKIE_DOMAIN = "unset" => Loaded.COOKIE_DOMAIN = "localhost"
    BY DEF Loaded, Composed, EnvShapes
<1>6. env.NODE_ENV # ""
    BY DEF EnvShapes
<1> QED
    BY <1>1, <1>2, <1>3, <1>4, <1>5, <1>6 DEF HasProtocol

\* A production backend does telemetry when its .env asks for it.
THEOREM TelemetryCorrect == Spec => []TelemetryRuns
<1>1. TypeOK /\ BootedByRules => TelemetryRuns
    <2> SUFFICES ASSUME TypeOK, BootedByRules, InProduction
                 PROVE  sdk = (env.OTEL_SDK_DISABLED \in {"false", "0"})
        BY DEF TelemetryRuns
    <2> DEFINE flag == env.OTEL_SDK_DISABLED
    <2>a. env \in EnvShapes /\ phase = "listening"
        BY DEF TypeOK, InProduction
    <2>1. /\ flag \in Flags
          /\ Loaded.OTEL_SDK_DISABLED = IF flag \in {"unset", ""} THEN "true" ELSE flag
          /\ Loaded.OTEL_EXPORTER_OTLP_ENDPOINT.scheme \in Written
        BY <2>a, ComposedFields DEF EnvShapes
    <2>2. Loaded.OTEL_SDK_DISABLED # "other"
        BY <2>a DEF BootedByRules, Accepts, FieldsHold
    <2>3. /\ Parsed(Loaded).endpoint
          /\ Parsed(Loaded).disabled = EnvBool(Loaded.OTEL_SDK_DISABLED, FALSE)
        BY <2>1 DEF Parsed, Written
    <2>4. EnvBool(Loaded.OTEL_SDK_DISABLED, FALSE) <=> flag \notin {"false", "0"}
        <3>1. CASE flag \in {"unset", "", "true", "1"}
            <4>1. Loaded.OTEL_SDK_DISABLED \in {"true", "1"}
                BY <2>1, <3>1
            <4> QED
                BY <3>1, <4>1 DEF EnvBool
        <3>2. CASE flag \in {"false", "0"}
            <4>1. Loaded.OTEL_SDK_DISABLED \in {"false", "0"}
                BY <2>1, <3>2
            <4> QED
                BY <3>2, <4>1 DEF EnvBool
        <3> QED
            BY <2>1, <2>2, <3>1, <3>2 DEF Flags
    <2>5. sdk = (Parsed(Loaded).endpoint /\ ~Parsed(Loaded).disabled)
        BY <2>a DEF BootedByRules
    <2> HIDE DEF flag
    <2>6. sdk <=> flag \in {"false", "0"}
        BY <2>3, <2>4, <2>5
    <2>7. sdk \in BOOLEAN
        BY DEF TypeOK
    <2> QED
        BY <2>6, <2>7 DEF flag
<1> QED
    BY <1>1, BootedByRulesAlways, ContainerTypeCorrect, PTL

-----------------------------------------------------------------------------
\* What the compose file fills in for secrets, origin and cookie domain is refused.
THEOREM OwnCorrect == Spec => []OwnValues
<1>1. TypeOK /\ BootedByRules => OwnValues
    <2> SUFFICES ASSUME TypeOK, BootedByRules, InProduction
                 PROVE  /\ env.JWT_ACCESS_SECRET.length > 0 /\ env.SERVICE_API_TOKEN.length > 0
                        /\ Given(env.CORS_ORIGIN)
                        /\ env.COOKIE_DOMAIN # "unset"
        BY DEF OwnValues
    <2> DEFINE p == Parsed(Loaded)
    <2>a. env \in EnvShapes /\ phase = "listening" /\ env.NODE_ENV \in {"unset", "production"}
        BY DEF TypeOK, InProduction
    <2>1. Loaded.NODE_ENV = "production"
        BY <2>a, ComposedFields
    <2>2. SecretsHold(p) /\ OriginsHold(p) /\ CookieDomainHolds(p)
        <3>1. p.production
            BY <2>1 DEF Parsed
        <3> QED
            BY <2>a, <3>1 DEF BootedByRules, Accepts
    <2>3. env.JWT_ACCESS_SECRET.length > 0 /\ env.SERVICE_API_TOKEN.length > 0
        <3>1. p.secrets = {Loaded.JWT_ACCESS_SECRET, Loaded.SERVICE_API_TOKEN}
            BY DEF Parsed
        <3>2. ~Loaded.JWT_ACCESS_SECRET.sample /\ ~Loaded.SERVICE_API_TOKEN.sample
            BY <2>2, <3>1 DEF SecretsHold
        <3> QED
            BY <2>a, <3>2, ComposedFields
    <2>4. Given(env.CORS_ORIGIN)
        <3> SUFFICES ASSUME ~Given(env.CORS_ORIGIN) PROVE FALSE
            OBVIOUS
        <3>1. Loaded.CORS_ORIGIN = <<Local("http")>>
            BY <2>a, ComposedFields
        <3>2. p.origins = [i \in DOMAIN Loaded.CORS_ORIGIN |-> Default(Loaded.CORS_ORIGIN[i], "http")]
            BY DEF Parsed
        <3>3. Local("http").scheme = "http"
            BY DEF Local
        <3>4. 1 \in DOMAIN p.origins /\ p.origins[1].scheme = "http"
            BY <3>1, <3>2, <3>3 DEF Default
        <3>5. p.origins[1] \in ParseOrigins(p.origins)
            BY <3>4 DEF ParseOrigins
        <3> QED
            BY <2>2, <3>4, <3>5 DEF OriginsHold, HasProtocol
    <2>5. env.COOKIE_DOMAIN # "unset"
        <3>1. p.cookieDomain = IF Loaded.COOKIE_DOMAIN = "unset" THEN "localhost"
                               ELSE Loaded.COOKIE_DOMAIN
            BY DEF Parsed
        <3> QED
            BY <2>a, <2>2, <3>1, ComposedFields DEF CookieDomainHolds
    <2> QED
        BY <2>3, <2>4, <2>5
<1> QED
    BY <1>1, BootedByRulesAlways, ContainerTypeCorrect, PTL

(* Recovery.  WF_vars and SF_vars of an action give what the formulas say,   *)
(* as soon as the action is enabled where they say so: the process always    *)
(* has a next step until it listens; a connection that broke or that has     *)
(* been checked out is heard of; and a backend that listens is probed as     *)
(* often as it has a client left.                                            *)

GoesOn == []<>(phase = "listening") \/ []<><<Lifecycle>>_vars

Pending(c) == query[c] # "none" \/ client[c] = "dead"
Heard(c) == []<>~Pending(c) \/ []<><<Hears(c)>>_vars

Lends == phase = "listening" /\ db = "up" /\ \E c \in Clients : query[c] = "none"
Probed == <>[]~Lends \/ []<><<Probe>>_vars

\* That is what fairness of the three actions gives them.
LEMMA FairGoesOn ==
    ASSUME NEW c
    PROVE
    /\ WF_vars(Lifecycle) /\ [](phase # "listening" => ENABLED <<Lifecycle>>_vars) => GoesOn
    /\ WF_vars(Hears(c)) /\ [](Pending(c) => ENABLED <<Hears(c)>>_vars) => Heard(c)
    /\ SF_vars(Probe) /\ [](Lends => ENABLED <<Probe>>_vars) => Probed
<1>1. phase # "listening" <=> ~(phase = "listening")
  OBVIOUS
<1> QED
  BY <1>1, PTL DEF GoesOn, Heard, Probed

\* Nobody signals or kills the process.
LeftAlone == ~Signal /\ ~Kill

\* No connection is broken any more.
Sound == \A c \in Clients : client[c] # "dead"

\* With the database there, connections do not break, and those that are broken go when
\* they are heard of.
LEMMA ConnectionsMend ==
    ASSUME TypeOK, [Next]_vars, db = "up", db' = "up", NEW c \in Clients
    PROVE  /\ client[c] # "dead" => client'[c] # "dead"
           /\ <<Hears(c)>>_vars => client'[c] # "dead"
<1>1. CASE Exit
  BY <1>1 DEF Exit
<1>2. ASSUME NEW d \in Clients, Hears(d)
      PROVE  /\ client[c] # "dead" => client'[c] # "dead"
             /\ d = c => client'[c] # "dead"
  BY <1>2 DEF TypeOK, Hears, Answer, Cut, IdleError, Exit
<1>3. ASSUME NEW d \in Clients, Serve(d) \/ Ready(d)
      PROVE  client[c] # "dead" => client'[c] # "dead"
  BY <1>3 DEF TypeOK, Serve, Ready, CheckOut
<1>4. CASE Signal
  <2>1. client[c] # "dead" => client'[c] # "dead"
    BY <1>4 DEF Signal, Exit
  <2> QED
    BY <1>2, <2>1
<1>5. CASE ~Exit /\ ~Signal /\ ~\E d \in Clients : Hears(d) \/ Serve(d) \/ Ready(d)
  <2>1. client' = client
    BY <1>5 DEF Next, Database, DbDown, DbUp, Lifecycle, Up, Migrate, Boot, Close, CloseFails,
                Flush, Probe, NotReady, Kill, Register, Bootstrap, Invoke, Find, Create, Audit,
                RunFails, vars, process, lending
  <2> QED
    BY <1>5, <2>1
<1> QED
  BY <1>1, <1>2, <1>3, <1>4, <1>5

\* The process goes round to listening, and stays there when no connection is broken.
LEMMA PhaseMoves ==
    ASSUME TypeOK, [Next]_vars, LeftAlone, db = "up", Accepts(Loaded), Sound
    PROVE  /\ phase = "closing" => phase' \in {"closing", "flushing", "down"}
           /\ phase = "flushing" => phase' \in {"flushing", "down"}
           /\ phase = "down" => phase' \in {"down", "migrating"}
           /\ phase = "migrating" => phase' \in {"migrating", "booting"}
           /\ phase = "booting" => phase' \in {"booting", "listening"}
           /\ phase = "listening" => phase' = "listening"
           /\ Lifecycle => phase' # phase
<1>1. CASE Lifecycle
  BY <1>1 DEF Lifecycle, Up, Migrate, Boot, Close, CloseFails, Flush, Exit
<1>2. CASE ~Lifecycle
  <2>1. ASSUME NEW c \in Clients, Hears(c) PROVE phase' = phase
    BY <2>1 DEF Hears, Answer, Cut, IdleError, Sound
  <2>2. phase' = phase
    BY <1>2, <2>1 DEF Next, LeftAlone, Database, DbDown, DbUp, Probe, Ready, NotReady, Serve, Register,
                      Bootstrap, Invoke, Find, Create, Audit, RunFails, vars, process
  <2> QED
    BY <1>2, <2>2
<1> QED
  BY <1>1, <1>2

\* While it listens over sound connections, a probe has a client, keeps it until it is
\* heard of, and answers that the backend is ready, which nothing then denies.
LEMMA ProbeMoves ==
    ASSUME TypeOK, [Next]_vars, LeftAlone, db = "up", phase = "listening", phase' = "listening",
           Sound, NEW c \in Clients
    PROVE  /\ probe = "up" => probe' = "up"
           /\ query[c] = "probe" => query'[c] = "probe" \/ probe' = "up"
           /\ <<Hears(c)>>_vars => query'[c] = "none"
           /\ <<Probe>>_vars => \E d \in Clients : query'[d] = "probe"
<1>0. pool = "open"
  BY DEF TypeOK
<1>1. ASSUME NEW d \in Clients, Hears(d)
      PROVE  /\ probe = "up" => probe' = "up"
             /\ query[c] = "probe" => query'[c] = "probe" \/ probe' = "up"
             /\ query'[d] = "none"
  BY <1>1 DEF TypeOK, Hears, Answer, Cut, IdleError, Sound
<1>2. ASSUME NEW d \in Clients, Ready(d)
      PROVE  /\ probe' = probe /\ query'[d] = "probe"
             /\ query[c] = "probe" => query'[c] = "probe"
  BY <1>2 DEF TypeOK, Ready, CheckOut
<1>3. ~NotReady
  BY <1>0 DEF NotReady
<1>4. ASSUME NEW d \in Clients, Serve(d)
      PROVE  /\ probe' = probe
             /\ query[c] = "probe" => query'[c] = "probe"
  BY <1>4 DEF TypeOK, Serve, CheckOut
<1>5. CASE ~Probe /\ ~\E d \in Clients : Serve(d) \/ Hears(d)
  <2>1. ~Lifecycle
    BY DEF Lifecycle, Up, Migrate, Boot, Close, CloseFails, Flush
  <2>2. probe' = probe /\ query' = query
    BY <1>5, <2>1 DEF Next, LeftAlone, Database, DbDown, DbUp, Register, Bootstrap, Invoke, Find, Create,
                      Audit, RunFails, vars, process
  <2> QED
    BY <1>5, <2>2
<1> QED
  BY <1>1, <1>2, <1>3, <1>4, <1>5 DEF Probe

\* When the database is back for good and the process is left alone, it comes to answer
\* ready and stays so, from wherever the outage and the signals before have left it.  For a
\* pool of at most two connections: that the broken ones of any number are gone some day
\* takes an induction over them, in temporal formulas.
THEOREM RecoveryCorrect ==
    ASSUME NEW a \in Clients, NEW b \in Clients, Clients = {a, b}
    PROVE  Spec /\ GoesOn /\ Heard(a) /\ Heard(b) /\ Probed /\ <>[][LeftAlone]_vars => Recovers
<1>1. [Next]_vars => (Accepts(Loaded) => Accepts(Loaded)')
  <2> SUFFICES ASSUME [Next]_vars PROVE env' = env
    BY DEF Loaded
  <2> QED
    BY DEF Next, Database, DbDown, DbUp, Lifecycle, Up, Migrate, Boot, Close, CloseFails, Flush,
           Exit, Probe, Ready, NotReady, Serve, Hears, Answer, Cut, IdleError, Signal, Kill, Register,
           Bootstrap, Invoke, Find, Create, Audit, RunFails, vars
<1> DEFINE Good == TypeOK /\ db = "up" /\ Accepts(Loaded)
           DeadA == client[a] = "dead"
           DeadB == client[b] = "dead"
           UsedA == query[a] # "none"
           UsedB == query[b] # "none"
           ProbeA == query[a] = "probe"
           ProbeB == query[b] = "probe"
<1>2. TypeOK => \/ phase = "closing" \/ phase = "flushing" \/ phase = "down"
                \/ phase = "migrating" \/ phase = "booting" \/ phase = "listening"
  BY DEF TypeOK, Phases
<1>3. ~DeadA /\ ~DeadB => Sound
  BY DEF Sound
<1>4. Good /\ (db = "up")' /\ [Next]_vars =>
        /\ ~DeadA => ~DeadA'
        /\ ~DeadB => ~DeadB'
        /\ <<Hears(a)>>_vars => ~DeadA'
        /\ <<Hears(b)>>_vars => ~DeadB'
  BY ConnectionsMend
<1>5. Good /\ [Next]_vars /\ [LeftAlone]_vars /\ ~DeadA /\ ~DeadB =>
        /\ phase = "closing" => (phase = "closing")' \/ (phase = "flushing")' \/ (phase = "down")'
        /\ phase = "flushing" => (phase = "flushing")' \/ (phase = "down")'
        /\ phase = "down" => (phase = "down")' \/ (phase = "migrating")'
        /\ phase = "migrating" => (phase = "migrating")' \/ (phase = "booting")'
        /\ phase = "booting" => (phase = "booting")' \/ (phase = "listening")'
        /\ phase = "listening" => (phase = "listening")'
  <2>1. CASE UNCHANGED vars
    BY <2>1 DEF vars, process
  <2>2. CASE LeftAlone
    BY <1>3, <2>2, PhaseMoves
  <2> QED
    BY <2>1, <2>2
<1>6. Good /\ [Next]_vars /\ [LeftAlone]_vars /\ ~DeadA /\ ~DeadB /\ <<Lifecycle>>_vars =>
        /\ phase = "closing" => ~(phase = "closing")'
        /\ phase = "flushing" => ~(phase = "flushing")'
        /\ phase = "down" => ~(phase = "down")'
        /\ phase = "migrating" => ~(phase = "migrating")'
        /\ phase = "booting" => ~(phase = "booting")'
  <2> SUFFICES ASSUME Good, [Next]_vars, [LeftAlone]_vars, ~DeadA, ~DeadB, <<Lifecycle>>_vars
               PROVE  phase' # phase
    OBVIOUS
  <2>1. LeftAlone
    OBVIOUS
  <2> QED
    BY <1>3, <2>1, PhaseMoves
<1>7. /\ phase = "listening" => phase \notin {"closing", "flushing", "down", "migrating", "booting"}
      /\ phase = "closing" \/ phase = "flushing" \/ phase = "down"
           \/ phase = "migrating" \/ phase = "booting" => ~(phase = "listening")
  OBVIOUS
<1>8. Good /\ [Next]_vars /\ [LeftAlone]_vars /\ ~DeadA /\ ~DeadB
        /\ phase = "listening" /\ (phase = "listening")' =>
        /\ probe = "up" => (probe = "up")'
        /\ ProbeA => ProbeA' \/ (probe = "up")'
        /\ ProbeB => ProbeB' \/ (probe = "up")'
        /\ <<Hears(a)>>_vars => ~UsedA'
        /\ <<Hears(b)>>_vars => ~UsedB'
        /\ <<Probe>>_vars => ProbeA' \/ ProbeB'
  <2>1. CASE UNCHANGED vars
    BY <2>1 DEF vars, process
  <2>2. CASE LeftAlone
    BY <1>3, <2>2, ProbeMoves
  <2> QED
    BY <2>1, <2>2
<1>9. /\ ProbeA => UsedA
      /\ ProbeB => UsedB
      /\ ~Pending(a) => ~UsedA /\ ~DeadA
      /\ ~Pending(b) => ~UsedB /\ ~DeadB
      /\ phase = "listening" /\ db = "up" /\ ~UsedA => Lends
  BY DEF Pending, Lends
<1> HIDE DEF DeadA, DeadB, UsedA, UsedB, ProbeA, ProbeB
<1>10. Spec => []TypeOK
  BY ContainerTypeCorrect
<1>11. Spec /\ GoesOn /\ Heard(a) /\ Heard(b) /\ <>[][LeftAlone]_vars
         /\ Accepts(Loaded) /\ <>[](db = "up")
         => <>[](Good /\ ~DeadA /\ ~DeadB /\ phase = "listening")
  BY <1>1, <1>2, <1>4, <1>5, <1>6, <1>7, <1>9, <1>10, PTL DEF Spec, GoesOn, Heard
<1>12. Spec /\ Heard(a) /\ Heard(b) /\ Probed /\ <>[][LeftAlone]_vars
         /\ <>[](Good /\ ~DeadA /\ ~DeadB /\ phase = "listening")
         => <>[](phase = "listening" /\ probe = "up")
  BY <1>8, <1>9, PTL DEF Spec, Heard, Probed
<1> QED
  BY <1>11, <1>12, PTL DEF Recovers
=============================================================================
