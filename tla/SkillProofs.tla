------------------------------ MODULE SkillProofs ------------------------------
(***************************************************************************)
(* Type correctness of SkillStore and its three safety properties, for any  *)
(* list of skills, any contents and any number of runs and interruptions.   *)
(***************************************************************************)
EXTENDS SkillStore, TLAPS

\* The list of skills is a nonempty sequence of different names.
LEMMA SkillList ==
    /\ Len(Skills) \in Nat /\ Len(Skills) > 0
    /\ DOMAIN Skills = 1 .. Len(Skills)
    /\ \A i, j \in 1 .. Len(Skills) : Skills[i] = Skills[j] => i = j
    /\ \A i \in 1 .. Len(Skills) : Skills[i] \in Names
    /\ \A s \in Names : \E i \in 1 .. Len(Skills) : s = Skills[i]
<1>1. /\ Len(Skills) \in Nat /\ Len(Skills) > 0
      /\ DOMAIN Skills = 1 .. Len(Skills)
    BY SkillAssumption
<1> QED
    BY <1>1, SkillAssumption DEF Names

\* What a lock entry becomes is a lock entry.
LEMMA VerifiedType ==
    ASSUME NEW entry \in LockEntry, NEW repo \in Repos, NEW content
    PROVE  Verified(entry, repo, content) \in LockEntry
BY DEF Verified, LockEntry

\* The directories, the lock and the installer's memory keep their types.
THEOREM SkillTypeCorrect == Spec => []TypeOK
<1>1. Init => TypeOK
    <2> SUFFICES ASSUME Init PROVE TypeOK
        OBVIOUS
    <2>1. NoEntry \in LockEntry
        BY DEF NoEntry, LockEntry
    <2>2. lockFile \in [Names -> LockEntry] /\ lock \in [Names -> LockEntry]
        BY <2>1 DEF Init
    <2>3. canonical \in [Names -> Directories] /\ claude \in [Names -> Directories \cup {"symlink"}]
        BY DEF Init, Directories
    <2>4. at \in 1 .. Len(Skills) + 1
        BY SkillList DEF Init
    <2>5. step = "off" /\ status \in BOOLEAN /\ failures = {} /\ touched = {}
        BY DEF Init
    <2>6. listed \in [Names -> Repos]
        BY DEF Init
    <2> QED
        BY <2>2, <2>3, <2>4, <2>5, <2>6 DEF TypeOK
<1>2. TypeOK /\ [Next]_vars => TypeOK'
    <2> SUFFICES ASSUME TypeOK, [Next]_vars
                 PROVE  TypeOK'
        OBVIOUS
    <2> USE DEF TypeOK, disk, memory
    <2>1. CASE Start
        BY <2>1, SkillList DEF Start
    <2>2. CASE Present
        BY <2>2 DEF Present, Skill
    <2>3. CASE Download
        <3>1. claude' \in [Names -> Directories \cup {"symlink"}]
            BY <2>3 DEF Download
        <3>2. status' \in BOOLEAN
            BY <2>3 DEF Download
        <3> QED
            BY <2>3, <3>1, <3>2 DEF Download
    <2>4. CASE Promote
        <3>1. Skill \in Names
            BY <2>4, SkillList DEF Promote, Skill
        <3>2. /\ canonical' \in [Names -> Directories]
              /\ claude' \in [Names -> Directories \cup {"symlink"}]
            <4>1. CASE canonical[Skill] = None /\ Copied(Skill)
                <5>1. claude[Skill] \in Directories
                    BY <4>1, <3>1 DEF Copied, Directories
                <5> QED
                    BY <2>4, <3>1, <4>1, <5>1 DEF Promote, Directories
            <4> QED
                BY <2>4, <4>1 DEF Promote
        <3>3. CASE status /\ canonical'[Skill] # None
            BY <2>4, <3>1, <3>2, <3>3 DEF Promote, Skill
        <3>4. CASE ~(status /\ canonical'[Skill] # None)
            <4>1. /\ at' = at + 1 /\ step' = IF at = Len(Skills) THEN "persist" ELSE "skill"
                  /\ failures' = failures \cup {Skill}
                BY <2>4, <3>4 DEF Promote, Advance
            <4>2. /\ at' \in 1 .. Len(Skills) + 1
                  /\ step' \in {"skill", "persist"} /\ step' = "skill" => at' <= Len(Skills)
                BY <2>4, <4>1, SkillList DEF Promote
            <4> QED
                BY <2>4, <3>1, <3>2, <4>1, <4>2 DEF Promote
        <3> QED
            BY <3>3, <3>4
    <2>5. CASE Verify
        <3>1. Skill \in Names
            BY <2>5, SkillList DEF Verify, Skill
        <3>2. lock' \in [Names -> LockEntry]
            <4>1. Verified(lock[Skill], listed[Skill], canonical[Skill]) \in LockEntry
                BY <3>1, VerifiedType
            <4> QED
                BY <2>5, <3>1, <4>1 DEF Verify
        <3>3. claude' \in [Names -> Directories \cup {"symlink"}]
            BY <2>5, <3>1 DEF Verify, Directories
        <3>4. failures' \subseteq Names /\ touched' \subseteq Names
            BY <2>5, <3>1 DEF Verify
        <3>5. /\ at' \in 1 .. Len(Skills) + 1 /\ step' \in {"skill", "persist"}
              /\ step' = "skill" => at' <= Len(Skills)
            BY <2>5, SkillList DEF Verify, Advance
        <3> QED
            BY <2>5, <3>2, <3>3, <3>4, <3>5 DEF Verify
    <2>6. CASE Persist
        BY <2>6 DEF Persist
    <2>7. CASE Interrupt
        <3>1. claude' \in [Names -> Directories \cup {"symlink"}]
            BY <2>7 DEF Interrupt, Directories
        <3> QED
            BY <2>7, <3>1 DEF Interrupt
    <2>8. ASSUME NEW s \in Names, Touch(s) PROVE TypeOK'
        <3>1. canonical' \in [Names -> Directories]
            BY <2>8 DEF Touch
        <3>2. \A q \in Names : q # s => canonical'[q] = canonical[q]
            BY <2>8 DEF Touch
        <3>3. step = "verify" => Skill \in Names
            BY SkillList DEF Skill
        <3> QED
            BY <2>8, <3>1, <3>2, <3>3 DEF Touch, Skill
    <2>9. ASSUME NEW s \in Names, Relist(s) PROVE TypeOK'
        <3>1. listed' \in [Names -> Repos]
            BY <2>9 DEF Relist
        <3> QED
            BY <2>9, <3>1 DEF Relist
    <2>10. CASE UNCHANGED vars
        BY <2>10 DEF vars, Skill
    <2> QED
        BY <2>1, <2>2, <2>3, <2>4, <2>5, <2>6, <2>7, <2>8, <2>9, <2>10 DEF Next, Install
<1> QED
    BY <1>1, <1>2, PTL DEF Spec

-----------------------------------------------------------------------------
\* The installer's copy of the lock has every hash of the file.
LockExtends ==
    step # "off" => \A s \in Names :
        lockFile[s].sha256 # None => lock[s].sha256 = lockFile[s].sha256

\* A hash that is recorded is not replaced.
LEMMA VerifiedKeeps ==
    ASSUME NEW entry \in LockEntry, NEW repo, NEW content, entry.sha256 # None
    PROVE  Verified(entry, repo, content).sha256 = entry.sha256
BY DEF Verified, LockEntry

\* Only a run changes the installer's copy, and only by Verified.
LEMMA LockExtendsStep == TypeOK /\ LockExtends /\ [Next]_vars => LockExtends'
<1> SUFFICES ASSUME TypeOK, LockExtends, [Next]_vars
             PROVE  LockExtends'
    OBVIOUS
<1> USE DEF LockExtends, disk, memory
<1>1. CASE Start
    BY <1>1 DEF Start
<1>2. CASE Verify
    <2>1. Skill \in Names
        BY <1>2, SkillList DEF TypeOK, Verify, Skill
    <2>2. lock[Skill] \in LockEntry
        BY <2>1 DEF TypeOK
    <2>3. lock[Skill].sha256 # None => lock'[Skill].sha256 = lock[Skill].sha256
        BY <1>2, <2>1, <2>2, VerifiedKeeps DEF TypeOK, Verify
    <2>4. \A s \in Names : s # Skill => lock'[s] = lock[s]
        BY <1>2, <2>1 DEF TypeOK, Verify
    <2> QED
        BY <1>2, <2>3, <2>4 DEF Verify
<1>3. CASE Persist
    BY <1>3 DEF Persist
<1>4. CASE Interrupt
    BY <1>4 DEF Interrupt
<1>5. CASE Present \/ Download \/ Promote
    BY <1>5 DEF Present, Download, Promote
<1>6. CASE \E s \in Names : Touch(s) \/ Relist(s)
    BY <1>6 DEF Touch, Relist
<1>7. CASE UNCHANGED vars
    BY <1>7 DEF vars
<1> QED
    BY <1>1, <1>2, <1>3, <1>4, <1>5, <1>6, <1>7 DEF Next, Install

\* A hash in the lock file stays, over any number of runs.
THEOREM HashCorrect == Spec => HashIsKept
<1>1. Init => LockExtends
    BY DEF Init, LockExtends
<1>2. TypeOK /\ LockExtends /\ [Next]_vars =>
          \A s \in Names : lockFile[s].sha256 # None =>
              lockFile'[s].sha256 = lockFile[s].sha256
    <2> SUFFICES ASSUME TypeOK, LockExtends, [Next]_vars, NEW s \in Names,
                        lockFile[s].sha256 # None
                 PROVE  lockFile'[s].sha256 = lockFile[s].sha256
        OBVIOUS
    <2>1. CASE Persist
        BY <2>1 DEF Persist, LockExtends
    <2>2. CASE lockFile' = lockFile
        BY <2>2
    <2> QED
        BY <2>1, <2>2 DEF Next, Install, Start, Present, Download, Promote, Verify, Interrupt,
                          Touch, Relist, vars, disk
<1> QED
    BY <1>1, <1>2, LockExtendsStep, SkillTypeCorrect, PTL DEF Spec, HashIsKept

-----------------------------------------------------------------------------
\* The skills that the run is done with, by their positions.
Behind == {Skills[i] : i \in 1 .. at - 1}

\* What a skill behind must be; only its own entries are looked at.
Settled(s) ==
    /\ ~Copied(s)
    /\ s \notin failures => claude[s] = "symlink"
    /\ claude[s] = "symlink" /\ canonical[s] # None /\ s \notin touched =>
           s \notin failures /\ lock[s].sha256 = canonical[s]

\* Of those skills, each is refused or linked, none is a copy beside the links, and a link
\* to content that has not changed since is to content the lock names.
TurnsTaken ==
    /\ step \in {"persist", "done"} => at = Len(Skills) + 1
    /\ step = "promote" => canonical[Skill] = None
    /\ step # "off" => failures \subseteq Behind /\ \A s \in Behind : Settled(s)
    /\ step = "done" => lockFile = lock

\* A turn that ends puts its skill behind.
LEMMA BehindGrows ==
    ASSUME TypeOK, at <= Len(Skills), at' = at + 1
    PROVE  Behind' = Behind \cup {Skill} /\ Skill \notin Behind /\ Skill \in Names
<1>1. at \in 1 .. Len(Skills)
    BY SkillList DEF TypeOK
<1>2. 1 .. at' - 1 = 1 .. at - 1 \cup {at}
    BY <1>1, SkillList
<1>3. Skill \notin Behind
    BY <1>1, SkillList DEF Behind, Skill
<1> QED
    BY <1>1, <1>2, <1>3, SkillList DEF Behind, Skill

\* At its end the list is behind.
LEMMA AllBehind == ASSUME at = Len(Skills) + 1 PROVE Behind = Names
BY SkillList DEF Behind, Names

\* Skills behind are names.
LEMMA BehindNames == ASSUME TypeOK PROVE Behind \subseteq Names
BY SkillList DEF TypeOK, Behind

\* The skill of the turn is not behind.
LEMMA SkillAhead ==
    ASSUME TypeOK, at <= Len(Skills) PROVE Skill \notin Behind /\ Skill \in Names
BY SkillList DEF TypeOK, Behind, Skill

\* A skill behind stays settled while its entries do not change.
LEMMA SettledStays ==
    ASSUME NEW s \in Names, Settled(s),
           claude'[s] = claude[s], canonical'[s] = canonical[s], lock'[s] = lock[s],
           s \in failures' <=> s \in failures, s \in touched => s \in touched'
    PROVE  Settled(s)'
BY DEF Settled, Copied

\* A turn looks at its own skill only, and leaves it settled.
LEMMA TurnsTakenStep == TypeOK /\ TurnsTaken /\ [Next]_vars => TurnsTaken'
<1> SUFFICES ASSUME TypeOK, TurnsTaken, [Next]_vars
             PROVE  TurnsTaken'
    OBVIOUS
<1>a. Len(Skills) \in Nat /\ Len(Skills) > 0
    BY SkillList
<1>1. CASE Start
    <2>1. Behind' = {}
        BY <1>1 DEF Start, Behind
    <2> QED
        BY <1>1, <2>1 DEF Start, TurnsTaken
<1>2. CASE Present
    <2>1. Behind' = Behind /\ \A s \in Behind : Settled(s)'
        BY <1>2, BehindNames, SettledStays DEF Present, TurnsTaken, disk, memory, Behind
    <2> QED
        BY <1>2, <2>1 DEF Present, TurnsTaken, memory
<1>3. CASE Download
    <2>1. Skill \notin Behind /\ Skill \in Names
        BY <1>3, SkillAhead DEF Download, TypeOK
    <2>2. \A s \in Names : s # Skill => claude'[s] = claude[s]
        BY <1>3, <2>1 DEF Download, TypeOK
    <2>3. Behind' = Behind /\ \A s \in Behind : Settled(s)'
        BY <1>3, <2>1, <2>2, BehindNames, SettledStays DEF Download, TurnsTaken, Behind
    <2> QED
        BY <1>3, <2>3 DEF Download, TurnsTaken, Skill
<1>4. CASE Promote
    <2>1. Skill \notin Behind /\ Skill \in Names
        BY <1>4, SkillAhead DEF Promote, TypeOK
    <2>2. /\ \A s \in Names : s # Skill => claude'[s] = claude[s] /\ canonical'[s] = canonical[s]
          /\ lock' = lock /\ touched' = touched
        BY <1>4, <2>1 DEF Promote, TypeOK
    <2>3. CASE status /\ canonical'[Skill] # None
        <3>1. step' = "verify" /\ at' = at /\ failures' = failures
            BY <1>4, <2>3 DEF Promote
        <3>2. Behind' = Behind
            BY <3>1 DEF Behind
        <3>3. \A s \in Behind : Settled(s)'
            BY <1>4, <2>1, <2>2, <3>1, BehindNames, SettledStays DEF Promote, TurnsTaken
        <3> QED
            BY <1>4, <3>1, <3>2, <3>3 DEF Promote, TurnsTaken
    <2>4. CASE ~(status /\ canonical'[Skill] # None)
        <3>1. /\ at' = at + 1 /\ step' = IF at = Len(Skills) THEN "persist" ELSE "skill"
              /\ failures' = failures \cup {Skill}
            BY <1>4, <2>4 DEF Promote, Advance
        <3>2. Behind' = Behind \cup {Skill}
            BY <1>4, <3>1, BehindGrows DEF Promote, TypeOK
        <3>3. \A s \in Behind : Settled(s)'
            BY <1>4, <2>1, <2>2, <3>1, BehindNames, SettledStays DEF Promote, TurnsTaken
        <3>4. claude'[Skill] \notin Contents \cup {NoSkillMd}
            BY <1>4, <2>1, SkillAssumption DEF Promote, TurnsTaken, TypeOK, Copied
        <3>5. claude'[Skill] = "symlink" => canonical'[Skill] = None
            BY <1>4, <2>1, SkillAssumption DEF Promote, TurnsTaken, TypeOK, Copied
        <3>6. ASSUME NEW s, s = Skill PROVE Settled(s)'
            BY <3>1, <3>4, <3>5, <3>6 DEF Settled, Copied
        <3>7. failures' \subseteq Behind'
            BY <1>4, <3>1, <3>2 DEF Promote, TurnsTaken
        <3>8. step' = "persist" => at' = Len(Skills) + 1
            BY <3>1
        <3> QED
            BY <3>1, <3>2, <3>3, <3>6, <3>7, <3>8 DEF TurnsTaken
    <2> QED
        BY <2>3, <2>4
<1>5. CASE Verify
    <2>1. Skill \notin Behind /\ Skill \in Names
        BY <1>5, SkillAhead DEF Verify, TypeOK
    <2>2. /\ \A s \in Names : s # Skill =>
                 /\ claude'[s] = claude[s] /\ lock'[s] = lock[s]
                 /\ s \in touched' <=> s \in touched
                 /\ s \in failures' <=> s \in failures
          /\ canonical' = canonical
        BY <1>5, <2>1 DEF Verify, TypeOK
    <2>3. at' = at + 1 /\ step' = IF at = Len(Skills) THEN "persist" ELSE "skill"
        BY <1>5 DEF Verify, Advance
    <2>4. Behind' = Behind \cup {Skill}
        BY <1>5, <2>3, BehindGrows DEF Verify, TypeOK
    <2>5. \A s \in Behind : Settled(s)'
        BY <1>5, <2>1, <2>2, BehindNames, SettledStays DEF Verify, TurnsTaken
    <2>6. ASSUME NEW s, s = Skill PROVE Settled(s)'
        <3>1. CASE Trusted(lock[s], listed[s], canonical[s])
            <4>1. claude'[s] = "symlink" /\ failures' = failures /\ canonical' = canonical
                BY <1>5, <2>1, <2>6, <3>1 DEF Verify, TypeOK
            <4>2. s \notin failures
                BY <1>5, <2>1, <2>6 DEF Verify, TurnsTaken
            <4>3. lock'[s] = Verified(lock[s], listed[s], canonical[s])
                BY <1>5, <2>1, <2>6 DEF Verify, TypeOK
            <4>4. lock'[s].sha256 = canonical[s]
                BY <3>1, <4>3 DEF Trusted, Verified
            <4> QED
                BY <4>1, <4>2, <4>4, SkillAssumption DEF Settled, Copied
        <3>2. CASE ~Trusted(lock[s], listed[s], canonical[s])
            <4>1. claude'[s] = None /\ s \in failures'
                BY <1>5, <2>1, <2>6, <3>2 DEF Verify, TypeOK
            <4> QED
                BY <4>1, SkillAssumption DEF Settled, Copied
        <3> QED
            BY <3>1, <3>2
    <2>7. failures' \subseteq Behind'
        BY <1>5, <2>4 DEF Verify, TurnsTaken
    <2>8. step' = "persist" => at' = Len(Skills) + 1
        BY <2>3
    <2> QED
        BY <2>3, <2>4, <2>5, <2>6, <2>7, <2>8 DEF TurnsTaken
<1>6. CASE Persist
    <2>1. Behind' = Behind /\ \A s \in Behind : Settled(s)'
        BY <1>6, BehindNames, SettledStays DEF Persist, TurnsTaken, memory, Behind
    <2> QED
        BY <1>6, <2>1 DEF Persist, TurnsTaken, memory
<1>7. CASE Interrupt
    BY <1>7 DEF Interrupt, TurnsTaken
<1>8. ASSUME NEW t \in Names, Touch(t) PROVE TurnsTaken'
    <2>1. /\ canonical[t] # None
          /\ \A s \in Names : s # t => canonical'[s] = canonical[s]
          /\ touched' = touched \cup {t}
          /\ UNCHANGED <<claude, lockFile, step, at, lock, failures>>
        BY <1>8 DEF Touch, TypeOK, memory
    <2>2. Behind' = Behind
        BY <2>1 DEF Behind
    <2>3. ASSUME NEW s \in Names, Settled(s) PROVE Settled(s)'
        <3>1. CASE s = t
            BY <2>1, <2>3, <3>1 DEF Settled, Copied
        <3> QED
            BY <2>1, <2>3, <3>1, SettledStays
    <2>4. step = "promote" => Skill \in Names
        BY SkillList DEF TypeOK, Skill
    <2>5. step' = "promote" => (canonical[Skill] = None)'
        BY <2>1, <2>4 DEF TurnsTaken, Skill
    <2> QED
        BY <2>1, <2>2, <2>3, <2>5, BehindNames DEF TurnsTaken
<1>9. ASSUME NEW t \in Names, Relist(t) PROVE TurnsTaken'
    <2>1. Behind' = Behind /\ (step # "off" => \A s \in Behind : Settled(s)')
        BY <1>9, BehindNames, SettledStays DEF Relist, TurnsTaken, disk, memory, Behind
    <2> QED
        BY <1>9, <2>1 DEF Relist, TurnsTaken, disk, memory, Skill
<1>10. CASE UNCHANGED vars
    <2>1. Behind' = Behind /\ (step # "off" => \A s \in Behind : Settled(s)')
        BY <1>10, BehindNames, SettledStays DEF TurnsTaken, vars, disk, memory, Behind
    <2> QED
        BY <1>10, <2>1 DEF TurnsTaken, vars, disk, memory, Skill
<1> QED
    BY <1>1, <1>2, <1>3, <1>4, <1>5, <1>6, <1>7, <1>8, <1>9, <1>10 DEF Next, Install

\* The inductive invariant holds throughout.
LEMMA TurnsTakenAlways == Spec => []TurnsTaken
<1>1. Init => TurnsTaken
    BY DEF Init, TurnsTaken
<1> QED
    BY <1>1, SkillTypeCorrect, TurnsTakenStep, PTL DEF Spec

\* After a run no copy is left beside the links, and what agents load is what the lock
\* names.
THEOREM LinksCorrect == Spec => []RunLeavesTrusted
<1>1. TypeOK /\ TurnsTaken => RunLeavesTrusted
    BY AllBehind DEF TurnsTaken, Settled, RunLeavesTrusted
<1> QED
    BY <1>1, SkillTypeCorrect, TurnsTakenAlways, PTL

\* The offline check passes after a run without failures.
THEOREM OfflineCorrect == Spec => []OfflineAgrees
<1>1. TypeOK /\ TurnsTaken => OfflineAgrees
    BY AllBehind, SkillAssumption DEF TurnsTaken, Settled, OfflineAgrees, OfflineCheckPasses
<1> QED
    BY <1>1, SkillTypeCorrect, TurnsTakenAlways, PTL
=============================================================================
