------------------------------ MODULE GateProofs ------------------------------
(***************************************************************************)
(* Type correctness of SecurityGate, and that neither gate lets a high      *)
(* finding through without a waiver that obeys the rules, for any set of    *)
(* registers and any number of days between the steps of a job.             *)
(***************************************************************************)
EXTENDS SecurityGate, TLAPS

\* The ids that a register waives are advisories.
LEMMA ActiveType ==
    ASSUME NEW r \in Registers, NEW d
    PROVE  Active(r, d) \subseteq Advisories
<1>1. \A i \in DOMAIN r : r[i].advisory \in Advisories \cup {None}
    BY GateAssumption DEF Entries
<1> QED
    BY <1>1 DEF Active

\* What is active on day d in a register that was valid on some day is waived by the rules.
LEMMA ActiveWaives ==
    ASSUME NEW r \in Registers, NEW d \in Nat, NEW v \in Nat, Valid(r, v),
           NEW a \in Active(r, d)
    PROVE  Waived(r, a, d)
<1>1. PICK i \in DOMAIN r : r[i].expires # NoDate /\ r[i].expires > d /\ a = r[i].advisory
    BY DEF Active
<1>2. /\ r[i].complete /\ r[i].severity \in {"high", "low"} /\ r[i].created # NoDate
      /\ r[i].expires > r[i].created
      /\ r[i].severity = "high" => r[i].expires - r[i].created <= MaxHighDays
    BY <1>1 DEF Valid
<1>3. r[i].expires \in Nat /\ r[i].created \in Nat
    BY GateAssumption DEF Entries
<1>4. r[i].severity = "high" => r[i].expires <= r[i].created + MaxHighDays
    BY <1>2, <1>3, GateAssumption
<1>5. \A j \in DOMAIN r : r[j].advisory = a <=> j = i
    <2>1. ASSUME NEW j \in DOMAIN r, r[j].advisory = a, j # i PROVE FALSE
        <3>1. DOMAIN r \subseteq Nat \ {0}
            BY GateAssumption
        <3>2. j \in 1 .. i - 1 \/ i \in 1 .. j - 1
            BY <2>1, <3>1
        <3> QED
            BY <1>1, <2>1, <3>2 DEF Valid
    <2> QED
        BY <1>1, <2>1
<1>6. r[i].created < r[i].expires /\ d < r[i].expires
    BY <1>1, <1>2, <1>3
<1> QED
    BY <1>2, <1>4, <1>5, <1>6 DEF Waived

-----------------------------------------------------------------------------
\* A workflow that starts for a commit keeps the types.
LEMMA StartType ==
    ASSUME TypeOK, NEW event \in Events \ {"none"}, NEW commit \in Commits,
           Start(event, commit)
    PROVE  TypeOK'
<1>1. workflow' \in [event : Events, commit : Commits] /\ workflow'.event # "none"
    BY DEF Start
<1> QED
    BY <1>1 DEF TypeOK, Start

\* Commits, jobs and workflows keep their types; jobs run inside a workflow.
THEOREM GateTypeCorrect == Spec => []TypeOK
<1>1. Init => TypeOK
    <2> SUFFICES ASSUME Init PROVE TypeOK
        OBVIOUS
    <2>1. main \in Commits
        BY GateAssumption DEF Init, Commits
    <2>2. workflow \in [event : Events, commit : Commits] /\ workflow.event = "none"
        BY <2>1 DEF Init, Events
    <2>3. day \in 1 .. LastDay /\ listed \in 0 .. day /\ published \subseteq Advisories
        BY GateAssumption DEF Init
    <2>4. audit = "ended" /\ images = "ended" /\ ignored = {} /\ listed = 0 /\ saw = "nothing"
        BY DEF Init
    <2>5. issue \in BOOLEAN
        BY DEF Init
    <2> QED
        BY <2>1, <2>2, <2>3, <2>4, <2>5 DEF TypeOK
<1>2. TypeOK /\ [Next]_vars => TypeOK'
    <2> SUFFICES ASSUME TypeOK, [Next]_vars
                 PROVE  TypeOK'
        OBVIOUS
    <2>a. Register \in Registers /\ Active(Register, day) \subseteq Advisories
        BY ActiveType DEF TypeOK, Register, Commits
    <2>1. CASE DayPasses
        <3>1. day \in Nat /\ day' = day + 1 /\ day' \in 1 .. LastDay /\ 0 .. day \subseteq 0 .. day'
            BY <2>1, GateAssumption DEF TypeOK, DayPasses
        <3> QED
            BY <2>1, <3>1 DEF TypeOK, DayPasses
    <2>2. CASE Publish
        BY <2>2 DEF TypeOK, Publish
    <2>3. CASE CloseIssue
        BY <2>3 DEF TypeOK, CloseIssue
    <2>4. CASE Change
        <3>1. PICK r \in Registers, l \in SUBSET main.carries :
                  Start("change", [register |-> r, carries |-> l])
            BY <2>4 DEF Change
        <3>2. [register |-> r, carries |-> l] \in Commits
            BY DEF TypeOK, Commits
        <3> QED
            BY <3>1, <3>2, StartType DEF Events
    <2>5. CASE Rescan
        BY <2>5, StartType DEF Rescan, Events, TypeOK
    <2>6. CASE Release
        BY <2>6, StartType DEF Release, Events, TypeOK
    <2>7. CASE Check
        BY <2>7 DEF TypeOK, Check
    <2>8. CASE Audit
        <3>1. audit' \in {"passed", "failed"} /\ saw' \in {"report", "garbage", "error"}
            BY <2>8 DEF Audit
        <3> QED
            BY <2>8, <3>1 DEF TypeOK, Audit
    <2>9. CASE WriteTrivyignore
        BY <2>9, <2>a DEF TypeOK, WriteTrivyignore
    <2>10. CASE Scan
        BY <2>10 DEF TypeOK, Scan
    <2>11. CASE Conclude
        <3>1. main' \in Commits
            BY <2>11 DEF TypeOK, Conclude
        <3>2. workflow' \in [event : Events, commit : Commits] /\ workflow'.event = "none"
            BY <2>11, <3>1 DEF Conclude, Events
        <3>3. issue' \in BOOLEAN
            BY <2>11 DEF TypeOK, Conclude
        <3> QED
            BY <2>11, <3>1, <3>2, <3>3 DEF TypeOK, Conclude
    <2>12. CASE UNCHANGED vars
        BY <2>12 DEF TypeOK, vars
    <2> QED
        BY <2>1, <2>2, <2>3, <2>4, <2>5, <2>6, <2>7, <2>8, <2>9, <2>10, <2>11, <2>12
           DEF Next, Jobs
<1> QED
    BY <1>1, <1>2, PTL DEF Spec

-----------------------------------------------------------------------------
\* Past its first step, a job's register was valid on some day up to now, and the list of
\* ignored ids is what was active then.
CheckedBefore ==
    /\ audit = "audit" => \E d \in 1 .. day : Valid(Register, d)
    /\ images = "scan" =>
           listed \in 1 .. day /\ Valid(Register, listed) /\ ignored = Active(Register, listed)

\* A register does not change while its workflow runs.
LEMMA CheckedBeforeStep == TypeOK /\ CheckedBefore /\ [Next]_vars => CheckedBefore'
<1> SUFFICES ASSUME TypeOK, CheckedBefore, [Next]_vars
             PROVE  CheckedBefore'
    OBVIOUS
<1>a. day \in 1 .. LastDay /\ LastDay \in Nat
    BY GateAssumption DEF TypeOK
<1>1. CASE DayPasses
    <2>1. 1 .. day \subseteq 1 .. day' /\ UNCHANGED <<workflow, audit, images, ignored, listed>>
        BY <1>a, <1>1 DEF DayPasses
    <2> QED
        BY <2>1 DEF CheckedBefore, Register
<1>2. CASE Publish \/ CloseIssue
    BY <1>2 DEF CheckedBefore, Register, Publish, CloseIssue
<1>3. CASE Change \/ Rescan \/ Release
    BY <1>3 DEF CheckedBefore, Change, Rescan, Release, Start
<1>4. CASE Check
    BY <1>a, <1>4 DEF CheckedBefore, Register, Check
<1>5. CASE Audit
    <2>1. audit' # "audit" /\ UNCHANGED <<day, workflow, images, ignored, listed>>
        BY <1>5 DEF Audit
    <2> QED
        BY <2>1 DEF CheckedBefore, Register
<1>6. CASE WriteTrivyignore
    <2>1. UNCHANGED <<day, workflow, audit>>
        BY <1>6 DEF WriteTrivyignore
    <2>2. images' = "scan" => /\ Valid(Register, day) /\ ignored' = Active(Register, day)
                              /\ listed' = day
        BY <1>6 DEF WriteTrivyignore
    <2>3. Register' = Register
        BY <2>1 DEF Register
    <2> QED
        BY <1>a, <2>1, <2>2, <2>3 DEF CheckedBefore
<1>7. CASE Scan
    BY <1>7 DEF CheckedBefore, Register, Scan
<1>8. CASE Conclude
    BY <1>8 DEF CheckedBefore, Conclude
<1>9. CASE UNCHANGED vars
    BY <1>9 DEF CheckedBefore, Register, vars
<1> QED
    BY <1>1, <1>2, <1>3, <1>4, <1>5, <1>6, <1>7, <1>8, <1>9 DEF Next, Jobs

\* Neither the audit of a report nor the image scan lets a high finding through but under
\* the one entry for it, an entry that obeys the rules.
THEOREM WaiversCorrect == Spec => WaiversHold
<1>1. Init => CheckedBefore
    BY DEF Init, CheckedBefore
<1>2. ASSUME TypeOK, CheckedBefore, [Next]_vars,
             audit = "audit", audit' = "passed", saw' = "report", NEW a \in AuditFindings
      PROVE  Waived(Register, a, day)
    <2>1. Audit
        BY <1>2 DEF Next, Jobs, DayPasses, Publish, CloseIssue, Change, Rescan, Release, Start,
                    Check, WriteTrivyignore, Scan, Conclude, vars
    <2>2. a \in Active(Register, day)
        BY <1>2, <2>1 DEF Audit
    <2>3. PICK d \in 1 .. day : Valid(Register, d)
        BY <1>2 DEF CheckedBefore
    <2>4. Register \in Registers /\ day \in Nat
        BY <1>2, GateAssumption DEF TypeOK, Register, Commits
    <2> QED
        BY <2>2, <2>3, <2>4, ActiveWaives
<1>3. ASSUME TypeOK, CheckedBefore, [Next]_vars,
             images = "scan", images' = "passed", NEW a \in ImageFindings
      PROVE  Waived(Register, a, listed)
    <2>1. Scan
        BY <1>3 DEF Next, Jobs, DayPasses, Publish, CloseIssue, Change, Rescan, Release, Start,
                    Check, Audit, WriteTrivyignore, Conclude, vars, TypeOK
    <2>2. a \in ignored
        BY <1>3, <2>1 DEF Scan
    <2>3. listed \in 1 .. day /\ Valid(Register, listed) /\ ignored = Active(Register, listed)
        BY <1>3 DEF CheckedBefore
    <2>4. Register \in Registers /\ listed \in Nat
        BY <1>3, <2>3, GateAssumption DEF TypeOK, Register, Commits
    <2> QED
        BY <2>2, <2>3, <2>4, ActiveWaives
<1>4. TypeOK /\ CheckedBefore /\ [Next]_vars =>
          /\ audit = "audit" /\ audit' = "passed" /\ saw' = "report" =>
                 \A a \in AuditFindings : Waived(Register, a, day)
          /\ images = "scan" /\ images' = "passed" =>
                 \A a \in ImageFindings : Waived(Register, a, listed)
    BY <1>2, <1>3
<1> QED
    BY <1>1, <1>4, CheckedBeforeStep, GateTypeCorrect, PTL DEF Spec, WaiversHold

-----------------------------------------------------------------------------
(* What becomes wrong after a merge is noticed.  Of FairSpec the proofs use   *)
(* what weak fairness of the jobs and strong fairness of the rescan give,     *)
(* with the guards in place of ENABLED: some job has a step while a workflow  *)
(* runs, and the rescan can start while none does.                            *)

JobsRun == []<>(workflow.event = "none") \/ []<><<Jobs>>_vars
RescanComes == []<>(workflow.event = "none") => []<><<Rescan>>_vars

\* That is what the fairness of the two actions gives them.
LEMMA FairRuns ==
    /\ WF_vars(Jobs) /\ [](workflow.event # "none" => ENABLED <<Jobs>>_vars) => JobsRun
    /\ SF_vars(Rescan) /\ [](workflow.event = "none" => ENABLED <<Rescan>>_vars) => RescanComes
<1>1. workflow.event # "none" <=> ~(workflow.event = "none")
    OBVIOUS
<1> QED
    BY <1>1, PTL DEF JobsRun, RescanComes

\* How many steps a workflow has left, at most.
JobsLeft ==
    (CASE audit = "check" -> 2 [] audit = "audit" -> 1 [] OTHER -> 0)
        + (CASE images = "write" -> 2 [] images = "scan" -> 1 [] OTHER -> 0)
        + (IF workflow.event = "none" THEN 0 ELSE 1)

LEMMA JobsLeftType == TypeOK => JobsLeft \in 0 .. 5 /\ (JobsLeft = 0 <=> workflow.event = "none")
<1> SUFFICES ASSUME TypeOK
             PROVE  JobsLeft \in 0 .. 5 /\ (JobsLeft = 0 <=> workflow.event = "none")
    OBVIOUS
<1> DEFINE a == CASE audit = "check" -> 2 [] audit = "audit" -> 1 [] OTHER -> 0
           i == CASE images = "write" -> 2 [] images = "scan" -> 1 [] OTHER -> 0
           w == IF workflow.event = "none" THEN 0 ELSE 1
<1>1. a \in 0 .. 2 /\ i \in 0 .. 2 /\ w \in 0 .. 1
    OBVIOUS
<1>2. workflow.event = "none" => a = 0 /\ i = 0
    BY DEF TypeOK
<1>3. w = 0 <=> workflow.event = "none"
    OBVIOUS
<1>4. JobsLeft = a + i + w
    BY DEF JobsLeft
<1> HIDE DEF a, i, w
<1> QED
    BY <1>1, <1>2, <1>3, <1>4

\* A step of a job is one step less.
LEMMA JobsLessen ==
    ASSUME TypeOK, Jobs
    PROVE  JobsLeft' < JobsLeft
<1>1. CASE Check
    BY <1>1 DEF Check, JobsLeft
<1>2. CASE Audit
    <2>1. audit = "audit" /\ audit' \in {"passed", "failed"} /\ UNCHANGED <<workflow, images>>
        BY <1>2 DEF Audit
    <2> QED
        BY <2>1 DEF JobsLeft
<1>3. CASE WriteTrivyignore
    BY <1>3 DEF WriteTrivyignore, JobsLeft
<1>4. CASE Scan
    BY <1>4 DEF Scan, JobsLeft
<1>5. CASE Conclude
    BY <1>5 DEF Conclude, JobsLeft
<1> QED
    BY <1>1, <1>2, <1>3, <1>4, <1>5 DEF Jobs

\* No step but of a job changes how far a running workflow is.
LEMMA JobsLeftStep ==
    ASSUME TypeOK, [Next]_vars, workflow.event # "none"
    PROVE  JobsLeft' = JobsLeft \/ JobsLeft' < JobsLeft
<1>1. CASE DayPasses \/ Publish \/ CloseIssue \/ UNCHANGED vars
    BY <1>1 DEF DayPasses, Publish, CloseIssue, vars, JobsLeft
<1>2. ~(Change \/ Rescan \/ Release)
    BY DEF Change, Rescan, Release, Start
<1>3. CASE Jobs
    BY <1>3, JobsLessen
<1> QED
    BY <1>1, <1>2, <1>3 DEF Next

\* From k steps left to fewer, in the end.
GoesDown(k) == JobsLeft = k ~> JobsLeft < k

LEMMA JobsGoDown ==
    ASSUME NEW k \in 1 .. 5
    PROVE  Spec /\ JobsRun => GoesDown(k)
<1>1. TypeOK /\ JobsLeft = k /\ [Next]_vars => (JobsLeft = k)' \/ (JobsLeft < k)'
    BY JobsLeftType, JobsLeftStep
<1>2. TypeOK /\ JobsLeft = k /\ <<Jobs>>_vars => (JobsLeft < k)'
    BY JobsLessen
<1>3. TypeOK /\ JobsLeft = k => ~(workflow.event = "none")
    BY JobsLeftType
<1> QED
    BY <1>1, <1>2, <1>3, GateTypeCorrect, PTL DEF Spec, JobsRun, GoesDown

\* Every workflow ends.
LEMMA WorkflowsEnd == Spec /\ JobsRun => []<>(workflow.event = "none")
<1> DEFINE n == JobsLeft
<1>1. TypeOK => n \in 0 .. 5 /\ (n = 0 <=> workflow.event = "none")
    BY JobsLeftType
<1>2. TypeOK => /\ n = 0 \/ n = 1 \/ n = 2 \/ n = 3 \/ n = 4 \/ n = 5
                /\ n < 1 => n = 0
                /\ n < 2 => n = 0 \/ n = 1
                /\ n < 3 => n = 0 \/ n = 1 \/ n = 2
                /\ n < 4 => n = 0 \/ n = 1 \/ n = 2 \/ n = 3
                /\ n < 5 => n = 0 \/ n = 1 \/ n = 2 \/ n = 3 \/ n = 4
    BY <1>1
<1>3. 1 \in 1 .. 5 /\ 2 \in 1 .. 5 /\ 3 \in 1 .. 5 /\ 4 \in 1 .. 5 /\ 5 \in 1 .. 5
    OBVIOUS
<1>4. Spec /\ JobsRun => GoesDown(1)
    BY <1>3, JobsGoDown
<1>5. Spec /\ JobsRun => GoesDown(2)
    BY <1>3, JobsGoDown
<1>6. Spec /\ JobsRun => GoesDown(3)
    BY <1>3, JobsGoDown
<1>7. Spec /\ JobsRun => GoesDown(4)
    BY <1>3, JobsGoDown
<1>8. Spec /\ JobsRun => GoesDown(5)
    BY <1>3, JobsGoDown
<1> QED
    BY <1>1, <1>2, <1>4, <1>5, <1>6, <1>7, <1>8, GateTypeCorrect, PTL DEF GoesDown

\* The rescan that runs has not passed its first step, and cannot.
ExpiredSeen ==
    workflow.event = "rescan" /\ workflow.commit = main /\ audit \in {"check", "failed"}

SomeExpired == \E i \in DOMAIN main.register : main.register[i].expires <= day

LEMMA ExpiredStep ==
    ASSUME TypeOK, ExpiredSeen, SomeExpired, [Next]_vars
    PROVE  ExpiredSeen' \/ issue'
<1>0. day \in Nat /\ main.register \in Registers /\ Register = main.register
    BY GateAssumption DEF TypeOK, Commits, ExpiredSeen, Register
<1>1. CASE Check
    <2>1. PICK i \in DOMAIN main.register : main.register[i].expires <= day
        BY DEF SomeExpired
    <2>2. main.register[i].expires \in Nat
        BY <1>0, GateAssumption DEF Entries
    <2>3. ~(main.register[i].expires > day)
        BY <1>0, <2>1, <2>2
    <2>4. ~Valid(Register, day)
        BY <1>0, <2>3 DEF Valid
    <2> QED
        BY <1>1, <2>4 DEF Check, ExpiredSeen
<1>2. CASE Conclude
    BY <1>2 DEF Conclude, ExpiredSeen
<1>3. CASE Audit
    BY <1>3 DEF Audit, ExpiredSeen
<1>4. CASE WriteTrivyignore \/ Scan \/ DayPasses \/ Publish \/ CloseIssue \/ UNCHANGED vars
    BY <1>4 DEF WriteTrivyignore, Scan, DayPasses, Publish, CloseIssue, vars, ExpiredSeen
<1>5. CASE Change \/ Rescan \/ Release
    BY <1>5 DEF Change, Rescan, Release, Start, ExpiredSeen
<1> QED
    BY <1>1, <1>2, <1>3, <1>4, <1>5 DEF Next, Jobs

\* A waiver on main that has expired turns a rescan red, or is removed or renewed.
THEOREM ExpiryCorrect == Spec /\ JobsRun /\ RescanComes => ExpiryIsNoticed
<1>1. TypeOK => (SomeExpired <=> ~\A i \in DOMAIN main.register : main.register[i].expires > day)
    <2> SUFFICES ASSUME TypeOK
                 PROVE  SomeExpired <=> ~\A i \in DOMAIN main.register : main.register[i].expires > day
        OBVIOUS
    <2>1. day \in Nat /\ main.register \in Registers
        BY GateAssumption DEF TypeOK, Commits
    <2>2. \A i \in DOMAIN main.register : main.register[i].expires \in Nat
        BY <2>1, GateAssumption DEF Entries
    <2> QED
        BY <2>1, <2>2 DEF SomeExpired
<1>2. TypeOK /\ ExpiredSeen /\ SomeExpired /\ [Next]_vars => ExpiredSeen' \/ issue'
    BY ExpiredStep
<1>3. <<Rescan>>_vars => ExpiredSeen'
    BY DEF Rescan, Start, ExpiredSeen
<1>4. ExpiredSeen => ~(workflow.event = "none")
    BY DEF ExpiredSeen
<1> QED
    BY <1>1, <1>2, <1>3, <1>4, GateTypeCorrect, WorkflowsEnd, PTL
       DEF Spec, RescanComes, ExpiryIsNoticed, SomeExpired

\* The rescan that runs will not get past its scan with advisory a.
AdvisorySeen(a) ==
    /\ workflow.event = "rescan" /\ workflow.commit = main
    /\ images \in {"write", "failed"} \/ (images = "scan" /\ a \notin ignored)

Uncovered(a) == a \in main.carries \ Active(main.register, day)

LEMMA AdvisoryStep ==
    ASSUME TypeOK, NEW a \in High \cap Fixable \cap Shipped, AdvisorySeen(a), a \in published, Uncovered(a),
           [Next]_vars
    PROVE  AdvisorySeen(a)' \/ issue'
<1>0. Register = main.register /\ a \in ImageFindings
    BY DEF AdvisorySeen, Uncovered, Register, Findings, ImageFindings
<1>1. CASE WriteTrivyignore
    BY <1>0, <1>1 DEF WriteTrivyignore, AdvisorySeen, Uncovered
<1>2. CASE Scan
    BY <1>0, <1>2 DEF Scan, AdvisorySeen
<1>3. CASE Conclude
    BY <1>3 DEF Conclude, AdvisorySeen
<1>4. CASE Audit \/ Check
    BY <1>4 DEF Audit, Check, AdvisorySeen
<1>5. CASE DayPasses \/ Publish \/ CloseIssue \/ UNCHANGED vars
    BY <1>5 DEF DayPasses, Publish, CloseIssue, vars, AdvisorySeen
<1>6. CASE Change \/ Rescan \/ Release
    BY <1>6 DEF Change, Rescan, Release, Start, AdvisorySeen
<1> QED
    BY <1>1, <1>2, <1>3, <1>4, <1>5, <1>6 DEF Next, Jobs

LEMMA OneAdvisoryIsNoticed ==
    ASSUME NEW a \in High \cap Fixable \cap Shipped
    PROVE  Spec /\ JobsRun /\ RescanComes =>
             (a \in (published \cap main.carries) \ Active(main.register, day)
                ~> (issue \/ a \notin main.carries \ Active(main.register, day)))
<1>1. TypeOK /\ AdvisorySeen(a) /\ a \in published /\ Uncovered(a) /\ [Next]_vars
        => AdvisorySeen(a)' \/ issue'
    BY AdvisoryStep
<1>2. <<Rescan>>_vars => AdvisorySeen(a)'
    BY DEF Rescan, Start, AdvisorySeen
<1>3. AdvisorySeen(a) => ~(workflow.event = "none")
    BY DEF AdvisorySeen
<1>4. [Next]_vars => (a \in published => (a \in published)')
    BY DEF Next, Jobs, DayPasses, Publish, CloseIssue, Change, Rescan, Release, Start, Check, Audit,
           WriteTrivyignore, Scan, Conclude, vars
<1>5. a \in (published \cap main.carries) \ Active(main.register, day)
        <=> a \in published /\ Uncovered(a)
    BY DEF Uncovered
<1>6. a \notin main.carries \ Active(main.register, day) <=> ~Uncovered(a)
    BY DEF Uncovered
<1> QED
    BY <1>1, <1>2, <1>3, <1>4, <1>5, <1>6, GateTypeCorrect, WorkflowsEnd, PTL
       DEF Spec, RescanComes

\* A high advisory with a fix, in something that is shipped, that no waiver covers opens an
\* issue, or main changes.
THEOREM AdvisoryCorrect == Spec /\ JobsRun /\ RescanComes => AdvisoryIsNoticed
BY OneAdvisoryIsNoticed DEF AdvisoryIsNoticed
=============================================================================
