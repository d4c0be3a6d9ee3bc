------------------------------ MODULE SkillStore ------------------------------
(***************************************************************************)
(* The agent skills: scripts/install-skills.mjs, which downloads them into  *)
(* .agents/skills, checks them against skills-lock.json and links them into *)
(* .claude/skills, and scripts/verify-skills.mjs, its offline check.        *)
(*                                                                         *)
(* The lock is read when the installer starts and written when it ends.     *)
(* Between the two, and between runs, files change, and a run may be killed *)
(* at any of its steps.                                                     *)
(***************************************************************************)
EXTENDS Naturals, Sequences

CONSTANTS
    Skills,         \* the names in the list of skills, in its order
    Repos,          \* repositories they are listed with
    Contents,       \* what a SKILL.md may hold; its hash stands for it
    NoSkillMd,      \* a directory without a SKILL.md
    None            \* nothing there

ASSUME SkillAssumption ==
    /\ Skills \in Seq(STRING) /\ Skills # <<>>
    /\ \A i, j \in DOMAIN Skills : Skills[i] = Skills[j] => i = j
    /\ {NoSkillMd, None} \cap Contents = {} /\ None \notin Repos /\ NoSkillMd # None
    /\ "symlink" \notin Contents \cup {NoSkillMd, None}

Names == {Skills[i] : i \in DOMAIN Skills}
Directories == Contents \cup {NoSkillMd, None}
LockEntry == [source : Repos \cup {None}, sha256 : Contents \cup {None}]
NoEntry == [source |-> None, sha256 |-> None]

VARIABLES
    listed,         \* listed[s]: the repository skill s is listed with
    canonical,      \* canonical[s]: .agents/skills/<s>
    claude,         \* claude[s]: .claude/skills/<s>, a link to it or a copy of its own
    lockFile,       \* skills-lock.json
    step,           \* where the installer is
    at,             \* the position of the skill it is at
    lock,           \* its copy of the lock
    status,         \* the exit status of its last download is 0
    failures,       \* skills it will report
    touched         \* history: skills that changed since the installer looked at them

disk == <<canonical, claude, lockFile>>
memory == <<at, lock, status, failures>>
vars == <<listed, disk, step, memory, touched>>

Init ==
    /\ listed \in [Names -> Repos]
    /\ canonical = [s \in Names |-> None]
    /\ claude = [s \in Names |-> None]
    /\ lockFile = [s \in Names |-> NoEntry]
    /\ step = "off" /\ at = 1
    /\ lock = lockFile /\ status = TRUE /\ failures = {}
    /\ touched = {}

-----------------------------------------------------------------------------
(* install-skills.mjs.                                                       *)

Skill == Skills[at]

Start ==
    /\ step \in {"off", "done"}
    /\ lock' = lockFile /\ at' = 1 /\ failures' = {}
    /\ step' = "skill"
    /\ UNCHANGED <<listed, disk, status, touched>>

\* The next skill, or the end of the list.
Advance ==
    /\ at' = at + 1
    /\ step' = IF at = Len(Skills) THEN "persist" ELSE "skill"

\* A skill that is present is not downloaded.
Present ==
    /\ step = "skill" /\ canonical[Skill] # None
    /\ step' = "verify"
    /\ UNCHANGED <<listed, disk, memory, touched>>

\* The skills command leaves a copy in .claude/skills, or what was there; either way it
\* may report a failure.
Download ==
    /\ step = "skill" /\ canonical[Skill] = None
    /\ status' \in BOOLEAN
    /\ claude' \in {claude} \cup
           {[claude EXCEPT ![Skill] = d] : d \in Directories \ {None}}
    /\ step' = "promote"
    /\ UNCHANGED <<listed, canonical, lockFile, at, lock, failures, touched>>

Copied(s) == claude[s] \in Contents \cup {NoSkillMd}

\* Mutant: the exit status alone tells whether the skill is there.
PromoteByStatus ==
    /\ step = "promote"
    /\ IF canonical[Skill] = None /\ Copied(Skill)
       THEN /\ canonical' = [canonical EXCEPT ![Skill] = claude[Skill]]
            /\ claude' = [claude EXCEPT ![Skill] = None]
       ELSE UNCHANGED <<canonical, claude>>
    /\ IF status
       THEN step' = "verify" /\ UNCHANGED <<at, failures>>
       ELSE Advance /\ failures' = failures \cup {Skill}
    /\ UNCHANGED <<listed, lockFile, lock, status, touched>>

\* The copy is moved into the store, and a failed download ends the skill's turn.
Promote ==
    /\ step = "promote"
    /\ IF canonical[Skill] = None /\ Copied(Skill)
       THEN /\ canonical' = [canonical EXCEPT ![Skill] = claude[Skill]]
            /\ claude' = [claude EXCEPT ![Skill] = None]
       ELSE UNCHANGED <<canonical, claude>>
    /\ IF status /\ canonical'[Skill] # None
       THEN step' = "verify" /\ UNCHANGED <<at, failures>>
       ELSE Advance /\ failures' = failures \cup {Skill}
    /\ UNCHANGED <<listed, lockFile, lock, status, touched>>

\* Mutant: a changed skill is taken for an update.
VerifiedAsUpdate(entry, repo, content) ==
    IF content \notin Contents \/ entry.source \notin {None, repo} THEN entry
    ELSE [source |-> repo, sha256 |-> content]

\* Mutant: a first install records the source and returns.
VerifiedSource(entry, repo, content) ==
    IF content \notin Contents \/ entry.source \notin {None, repo} THEN entry
    ELSE [source |-> repo, sha256 |-> entry.sha256]

\* The lock entry after verifyIntegrity: the source and the hash are recorded when the
\* entry has none, the source even if the hash is then refused.
Verified(entry, repo, content) ==
    IF content \notin Contents \/ entry.source \notin {None, repo} THEN entry
    ELSE [source |-> repo, sha256 |-> IF entry.sha256 = None THEN content ELSE entry.sha256]

\* verifyIntegrity returns true.
Trusted(entry, repo, content) ==
    /\ content \in Contents
    /\ entry.source \in {None, repo}
    /\ entry.sha256 \in {None, content}

\* Mutant: a refused skill keeps the link it had.
VerifyKeepsLink ==
    /\ step = "verify"
    /\ lock' = [lock EXCEPT ![Skill] = Verified(@, listed[Skill], canonical[Skill])]
    /\ IF Trusted(lock[Skill], listed[Skill], canonical[Skill])
       THEN /\ claude' = [claude EXCEPT ![Skill] = "symlink"]
            /\ UNCHANGED failures
       ELSE /\ failures' = failures \cup {Skill}
            /\ UNCHANGED claude
    /\ touched' = touched \ {Skill}
    /\ Advance
    /\ UNCHANGED <<listed, canonical, lockFile, status>>

\* The integrity gate, and the link of a skill that passes it.
Verify ==
    /\ step = "verify"
    /\ lock' = [lock EXCEPT ![Skill] = Verified(@, listed[Skill], canonical[Skill])]
    /\ IF Trusted(lock[Skill], listed[Skill], canonical[Skill])
       THEN /\ claude' = [claude EXCEPT ![Skill] = "symlink"]
            /\ UNCHANGED failures
       ELSE /\ claude' = [claude EXCEPT ![Skill] = None]
            /\ failures' = failures \cup {Skill}
    /\ touched' = touched \ {Skill}
    /\ Advance
    /\ UNCHANGED <<listed, canonical, lockFile, status>>

\* The lock is written once, with what was recorded even when a skill has failed.
Persist ==
    /\ step = "persist"
    /\ lockFile' = lock
    /\ step' = "done"
    /\ UNCHANGED <<listed, canonical, claude, memory, touched>>

\* Interrupted, between the removal of a link and its renewal perhaps: what is on disk
\* stays, what was recorded in memory is lost.
Interrupt ==
    /\ step \notin {"off", "done"}
    /\ step' = "off"
    /\ \/ UNCHANGED claude
       \/ step = "verify" /\ claude' = [claude EXCEPT ![Skill] = None]
    /\ UNCHANGED <<listed, canonical, lockFile, memory, touched>>

-----------------------------------------------------------------------------
(* Everybody else.                                                           *)

\* The content of a skill changes, or it is deleted for a fresh pull.
Touch(s) ==
    /\ canonical[s] # None
    /\ \E d \in Directories \ {canonical[s]} : canonical' = [canonical EXCEPT ![s] = d]
    /\ touched' = touched \cup {s}
    /\ UNCHANGED <<listed, claude, lockFile, step, memory>>

\* The list names another repository.
Relist(s) ==
    /\ step \in {"off", "done"}
    /\ \E r \in Repos \ {listed[s]} : listed' = [listed EXCEPT ![s] = r]
    /\ UNCHANGED <<disk, step, memory, touched>>

Install == Start \/ Present \/ Download \/ Promote \/ Verify \/ Persist

Next ==
    \/ Install \/ Interrupt
    \/ \E s \in Names : Touch(s) \/ Relist(s)

Spec == Init /\ [][Next]_vars

(***************************************************************************)
(* Properties.                                                             *)
(***************************************************************************)

\* The directories, the lock and the installer's memory keep their types, and a skill
\* that is being verified is there unless it has just been deleted.
TypeOK ==
    /\ listed \in [Names -> Repos]
    /\ canonical \in [Names -> Directories]
    /\ claude \in [Names -> Directories \cup {"symlink"}]
    /\ lockFile \in [Names -> LockEntry] /\ lock \in [Names -> LockEntry]
    /\ step \in {"off", "skill", "promote", "verify", "persist", "done"}
    /\ at \in 1 .. Len(Skills) + 1 /\ status \in BOOLEAN
    /\ failures \subseteq Names /\ touched \subseteq Names
    /\ step \in {"skill", "promote", "verify"} => at <= Len(Skills)
    /\ step = "verify" => canonical[Skill] # None \/ Skill \in touched

\* A hash, once in the lock file, stays what it is: a skill that changes on disk or
\* upstream does not become its own reference, over any number of runs and interruptions.
HashIsKept ==
    [][\A s \in Names : lockFile[s].sha256 # None =>
           lockFile'[s].sha256 = lockFile[s].sha256]_vars

\* When a run has ended, what agents load is a link to content the lock file names; what
\* failed is not loaded, and no copy of a download is left beside the links.
RunLeavesTrusted ==
    step = "done" => \A s \in Names :
        /\ ~Copied(s)
        /\ claude[s] = "symlink" /\ canonical[s] # None /\ s \notin touched =>
               s \notin failures /\ lockFile[s].sha256 = canonical[s]

\* verify-skills.mjs reports no failure: a directory without a SKILL.md is skipped.
OfflineCheckPasses ==
    \A s \in Names :
        lockFile[s] # NoEntry /\ canonical[s] \in Contents =>
            lockFile[s].sha256 = canonical[s]

\* The offline check agrees with the installer: it passes after a run without failures, as
\* long as nothing changes.
OfflineAgrees ==
    step = "done" /\ failures = {} /\ touched = {} => OfflineCheckPasses
=============================================================================
