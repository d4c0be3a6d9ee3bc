----------------------------- MODULE SecurityGate -----------------------------
(***************************************************************************)
(* The security gates: scripts/check-security-exceptions.mjs and            *)
(* scripts/audit-ci.mjs, run by the workflows for every change, before a    *)
(* release and once a week over the register .security/exceptions.yaml.     *)
(*                                                                         *)
(* The register waives advisories until a day.  Advisories are published,   *)
(* and waivers expire, between the steps of a job and after a merge.        *)
(***************************************************************************)
EXTENDS Naturals, Sequences

CONSTANTS
    Advisories,     \* advisory ids
    High,           \* those the registry and the scanner rate high or critical
    Fixable,        \* those with a fixed version: the scanner is told to ignore the others
    Audited,        \* those of packages that pnpm audit looks at: the production dependencies
    Shipped,        \* those of packages that are inside an image, as dependencies of the backend
                    \* and the bot and packages of a base image are, and those of the frontend,
                    \* of which its image has the built dist alone, are not
    Registers,      \* registers that people write: sequences of entries
    MaxHighDays,    \* MAX_HIGH_DAYS
    LastDay,        \* bound: days of a behaviour
    None            \* an entry without an advisory id

NoDate == 0         \* absent, or not a date
Entries == [advisory : Advisories \cup {None}, severity : {"high", "low", "other"},
            created : Nat, expires : Nat, complete : BOOLEAN]

ASSUME GateAssumption ==
    /\ High \subseteq Advisories /\ Fixable \subseteq Advisories /\ None \notin Advisories
    /\ Audited \subseteq Advisories /\ Shipped \subseteq Advisories
    /\ \A r \in Registers : \A i \in DOMAIN r : r[i] \in Entries
    /\ <<>> \in Registers
    /\ MaxHighDays \in Nat /\ LastDay \in Nat \ {0}

VARIABLES
    day,            \* today, counted from 1
    published,      \* advisories the registry and the scanner know of
    main,           \* the commit on main: its register, and the advisories it carries
    workflow,       \* the workflow that runs: its event and its commit
    audit,          \* its job "dependency audit", by the step it is at
    images,         \* its job "build + scan"
    saw,            \* what pnpm audit printed for that job
    ignored,        \* .trivyignore of the images job
    listed,         \* history: the day that was written, or 0
    issue           \* a tracking issue is open

vars == <<day, published, main, workflow, audit, images, saw, ignored, listed, issue>>

Commits == [register : Registers, carries : SUBSET Advisories]
Events == {"none", "change", "rescan", "release"}

Init ==
    /\ day = 1 /\ published = {}
    /\ main = [register |-> <<>>, carries |-> Advisories]
    /\ workflow = [event |-> "none", commit |-> main]
    /\ audit = "ended" /\ images = "ended"
    /\ saw = "nothing" /\ ignored = {} /\ listed = 0
    /\ issue = FALSE

-----------------------------------------------------------------------------
(* check-security-exceptions.mjs, over a register r on a day d.              *)

\* Mutant: expiry is left to the gates that use the waivers.
ValidUntilUsed(r, d) ==
    \A i \in DOMAIN r :
        /\ r[i].advisory # None /\ r[i].complete
        /\ \A j \in 1 .. i - 1 : r[j].advisory # r[i].advisory
        /\ r[i].severity \in {"high", "low"}
        /\ r[i].created # NoDate /\ r[i].expires # NoDate
        /\ r[i].expires > r[i].created
        /\ r[i].severity = "high" => r[i].expires - r[i].created <= MaxHighDays

\* validateExceptions finds no error.
Valid(r, d) ==
    \A i \in DOMAIN r :
        /\ r[i].advisory # None /\ r[i].complete
        /\ \A j \in 1 .. i - 1 : r[j].advisory # r[i].advisory
        /\ r[i].severity \in {"high", "low"}
        /\ r[i].created # NoDate /\ r[i].expires # NoDate
        /\ r[i].expires > d
        /\ r[i].expires > r[i].created
        /\ r[i].severity = "high" => r[i].expires - r[i].created <= MaxHighDays

\* Mutant: every entry counts, as after a successful check.
ActiveUnchecked(r, d) == {r[i].advisory : i \in DOMAIN r} \ {None}

\* loadActiveExceptions: of all entries, whatever errors there are.
Active(r, d) ==
    {r[i].advisory : i \in {k \in DOMAIN r : r[k].expires # NoDate /\ r[k].expires > d}} \ {None}

-----------------------------------------------------------------------------
(* The world.                                                                *)

DayPasses ==
    /\ day < LastDay
    /\ day' = day + 1
    /\ UNCHANGED <<published, main, workflow, audit, images, saw, ignored, listed, issue>>

Publish ==
    /\ \E a \in Advisories \ published : published' = published \cup {a}
    /\ UNCHANGED <<day, main, workflow, audit, images, saw, ignored, listed, issue>>

CloseIssue ==
    /\ issue
    /\ issue' = FALSE
    /\ UNCHANGED <<day, published, main, workflow, audit, images, saw, ignored, listed>>

\* A workflow starts: for a change of the register or of what is built, for main once a
\* week, or for a tag on main, whose gates come before its images are built.
Start(event, commit) ==
    /\ workflow.event = "none"
    /\ workflow' = [event |-> event, commit |-> commit]
    /\ audit' = "check" /\ saw' = "nothing" /\ ignored' = {} /\ listed' = 0
    /\ images' = IF event = "release" THEN "skipped" ELSE "write"
    /\ UNCHANGED <<day, published, main, issue>>

Change == \E r \in Registers, l \in SUBSET main.carries :
              Start("change", [register |-> r, carries |-> l])
Rescan == Start("rescan", main)
Release == Start("release", main)

-----------------------------------------------------------------------------
(* The jobs.                                                                 *)

Register == workflow.commit.register
Findings == published \cap workflow.commit.carries \cap High
AuditFindings == Findings \cap Audited
ImageFindings == Findings \cap Shipped \cap Fixable

\* node scripts/check-security-exceptions.mjs
Check ==
    /\ audit = "check"
    /\ audit' = IF Valid(Register, day) THEN "audit" ELSE "failed"
    /\ UNCHANGED <<day, published, main, workflow, images, saw, ignored, listed, issue>>

\* node scripts/audit-ci.mjs: a report, something that is no JSON, or the JSON of an error
\* (or nothing at all), which has no advisories.
Audit ==
    /\ audit = "audit"
    /\ saw' \in {"report", "garbage", "error"}
    /\ audit' = CASE saw' = "report" -> IF AuditFindings \subseteq Active(Register, day)
                                       THEN "passed" ELSE "failed"
                  [] saw' = "garbage" -> "failed"
                  [] saw' = "error" -> "passed"
    /\ UNCHANGED <<day, published, main, workflow, images, ignored, listed, issue>>

\* node scripts/check-security-exceptions.mjs --write-trivyignore
WriteTrivyignore ==
    /\ images = "write"
    /\ IF Valid(Register, day)
       THEN images' = "scan" /\ ignored' = Active(Register, day) /\ listed' = day
       ELSE images' = "failed" /\ UNCHANGED <<ignored, listed>>
    /\ UNCHANGED <<day, published, main, workflow, audit, saw, issue>>

\* Trivy, over the images that were built: it sees what is in them.
Scan ==
    /\ images = "scan"
    /\ images' = IF ImageFindings \subseteq ignored THEN "passed" ELSE "failed"
    /\ UNCHANGED <<day, published, main, workflow, audit, saw, ignored, listed, issue>>

\* Mutant: the notification needs the audit job alone.
ConcludeOnAudit ==
    /\ workflow.event # "none"
    /\ audit \in {"passed", "failed"} /\ images \in {"passed", "failed", "skipped"}
    /\ LET green == audit = "passed" /\ images \in {"passed", "skipped"} IN
           /\ main' = IF workflow.event = "change" /\ green THEN workflow.commit ELSE main
           /\ issue' = (issue \/ (workflow.event = "rescan" /\ audit = "failed"))
    /\ workflow' = [event |-> "none", commit |-> main']
    /\ audit' = "ended" /\ images' = "ended" /\ saw' = "nothing"
    /\ ignored' = {} /\ listed' = 0
    /\ UNCHANGED <<day, published>>

\* Mutant: a change is merged on the audit job alone, and the image job goes on after it.
ConcludeEarly ==
    /\ workflow.event # "none"
    /\ audit \in {"passed", "failed"}
    /\ main' = IF workflow.event = "change" /\ audit = "passed" THEN workflow.commit ELSE main
    /\ issue' = (issue \/ (workflow.event = "rescan" /\ audit = "failed"))
    /\ workflow' = [event |-> "none", commit |-> main']
    /\ audit' = "ended" /\ saw' = "nothing"
    /\ UNCHANGED <<day, published, images, ignored, listed>>

\* Both jobs have ended: the change is merged, the release goes on, or the weekly rescan
\* opens a tracking issue.
Conclude ==
    /\ workflow.event # "none"
    /\ audit \in {"passed", "failed"} /\ images \in {"passed", "failed", "skipped"}
    /\ LET green == audit = "passed" /\ images \in {"passed", "skipped"} IN
           /\ main' = IF workflow.event = "change" /\ green THEN workflow.commit ELSE main
           /\ issue' = (issue \/ (workflow.event = "rescan" /\ ~green))
    /\ workflow' = [event |-> "none", commit |-> main']
    /\ audit' = "ended" /\ images' = "ended" /\ saw' = "nothing"
    /\ ignored' = {} /\ listed' = 0
    /\ UNCHANGED <<day, published>>

-----------------------------------------------------------------------------
Jobs == Check \/ Audit \/ WriteTrivyignore \/ Scan \/ Conclude

Next ==
    \/ DayPasses \/ Publish \/ CloseIssue
    \/ Change \/ Rescan \/ Release
    \/ Jobs

Spec == Init /\ [][Next]_vars

\* Jobs run to their end, and the schedule comes round however many other workflows start.
FairSpec == Spec /\ WF_vars(Jobs) /\ SF_vars(Rescan)

(***************************************************************************)
(* Properties.                                                             *)
(***************************************************************************)

\* Commits, jobs and workflows keep their types; no job outlives its workflow, only a release
\* goes without an image scan, and a list of ignored ids belongs to the scan that reads it.
TypeOK ==
    /\ day \in 1 .. LastDay /\ published \subseteq Advisories
    /\ main \in Commits
    /\ workflow \in [event : Events, commit : Commits]
    /\ audit \in {"ended", "check", "audit", "passed", "failed"}
    /\ images \in {"ended", "write", "scan", "passed", "failed", "skipped"}
    /\ saw \in {"nothing", "report", "garbage", "error"} /\ ignored \subseteq Advisories
    /\ listed \in 0 .. day
    /\ issue \in BOOLEAN
    /\ workflow.event = "none" <=> audit = "ended"
    /\ audit = "ended" <=> images = "ended"
    /\ workflow.event = "release" <=> images = "skipped"
    /\ images \in {"ended", "write", "skipped"} => ignored = {} /\ listed = 0

\* What the rules, as the script and the register state them, ask of a waiver of advisory a
\* that is used on day d: it is the only entry for a, somebody answers for it, it has a
\* severity and a term of at least a day and, when high, of MaxHighDays at the most, and
\* the term is not over.
Waived(r, a, d) ==
    \E i \in DOMAIN r :
        /\ \A j \in DOMAIN r : r[j].advisory = a <=> j = i
        /\ r[i].complete /\ r[i].severity \in {"high", "low"} /\ r[i].created # NoDate
        /\ r[i].created < r[i].expires /\ d < r[i].expires
        /\ r[i].severity = "high" => r[i].expires <= r[i].created + MaxHighDays

\* Both doors let a high finding through only under a waiver that obeys the rules: the
\* dependency audit, when it had a report, under one that is not over by then, although
\* validity was checked by an earlier step, on an earlier day perhaps; the image scan under
\* one that was not over on the day its list of ignored ids was written.
WaiversHold ==
    [][/\ audit = "audit" /\ audit' = "passed" /\ saw' = "report" =>
              \A a \in AuditFindings : Waived(Register, a, day)
       /\ images = "scan" /\ images' = "passed" =>
              \A a \in ImageFindings : Waived(Register, a, listed)]_vars

\* A waiver on main that has expired turns the weekly rescan red, if it is not removed or
\* renewed before: no finding and no change of the code is needed for that.
ExpiryIsNoticed ==
    (\E i \in DOMAIN main.register : main.register[i].expires <= day)
        ~> (issue \/ \A i \in DOMAIN main.register : main.register[i].expires > day)

\* A high advisory with a fix in something that is shipped, published after the commit that
\* carries it was merged, opens an issue in the end: the image scan sees it even when no
\* audit of the rescans ever gets a report, as long as no waiver covers it.  (Of a package
\* that only the frontend's build uses the audit alone can tell, when it has a report.)
AdvisoryIsNoticed ==
    \A a \in High \cap Fixable \cap Shipped :
        a \in (published \cap main.carries) \ Active(main.register, day)
            ~> (issue \/ a \notin main.carries \ Active(main.register, day))
=============================================================================
