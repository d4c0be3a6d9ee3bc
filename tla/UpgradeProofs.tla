----------------------------- MODULE UpgradeProofs -----------------------------
(***************************************************************************)
(* What a verdict of the upgrade gate says of two commits, for any sets of  *)
(* migrations, and how far that is from the upgrade it is meant to try.     *)
(***************************************************************************)
EXTENDS MigrationGate, TLAPS

\* What the database is given: the migrations of both commits, those that both have as they
\* were at the previous release.
union == Over(head, previous)

\* A migration that both commits have, and not alike.
Changed == \E name \in DOMAIN head \cap DOMAIN previous : head[name] # previous[name]

\* A migration of the union has SQL that fails.
Broken == \E name \in DOMAIN union : <<name, union[name]>> \in failing

\* A gate that passes has applied the union, so that nothing in it fails; what HEAD has
\* removed is among it, and what HEAD has edited is not, as it is at HEAD.  It fails for SQL
\* of the union, for a HEAD that has no migrations any more, or, if the tool looks at that,
\* for an edited migration: a missing one (line 11) is no reason.
VerdictIsOfTheUnion ==
    /\ step = "passed" => ~Broken /\ applied = union
    /\ step = "failed" => Broken \/ (head = Nothing /\ previous # Nothing) \/ Changed

\* The database that the upgrade starts from has HEAD's migrations already, so that the
\* upgrade applies nothing: what it starts from is the previous release's only when HEAD
\* adds no migration.
UpgradeAppliesNothing ==
    step = "passed" /\ previous # Nothing =>
        baseline = applied /\ (baseline = previous <=> DOMAIN head \subseteq DOMAIN previous)

-----------------------------------------------------------------------------
\* Both commits are functions, from sets of names.
AreFunctions ==
    /\ head = [name \in DOMAIN head |-> head[name]]
    /\ previous = [name \in DOMAIN previous |-> previous[name]]

\* What the commands so far have left in the tree and in the database.
Progress ==
    /\ AreFunctions
    /\ step \in {"previous", "checkout"} => tree = head /\ applied = Nothing
    /\ step \in {"checkout", "apply", "restore", "give up"} => previous # Nothing
    /\ step = "apply" => tree = union /\ applied = Nothing
    /\ step = "restore" => tree = union /\ applied = union
    /\ step = "upgrade" => tree = Over(union, head) /\ (previous # Nothing => ~Broken)
                           /\ applied = IF previous = Nothing THEN Nothing ELSE union
    /\ step \in {"status", "passed"} =>
          tree = Over(union, head) /\ applied = union
             /\ baseline = IF previous = Nothing THEN Nothing ELSE union
    /\ step \in {"restore", "status", "passed"} => ~Broken
    /\ step = "give up" => Broken
    /\ step = "failed" => Broken \/ (head = Nothing /\ previous # Nothing) \/ Changed

\* What a function looks like when another one is written over it.
LEMMA OverFacts ==
    ASSUME NEW f, NEW g
    PROVE  /\ DOMAIN Over(f, g) = DOMAIN f \cup DOMAIN g
           /\ \A name \in DOMAIN g : Over(f, g)[name] = g[name]
           /\ \A name \in DOMAIN f \ DOMAIN g : Over(f, g)[name] = f[name]
BY DEF Over

\* What is written over names that it has all of is there alone.
LEMMA Rewritten ==
    ASSUME NEW f, NEW g, DOMAIN f \subseteq DOMAIN g
    PROVE  Over(f, g) = [name \in DOMAIN g |-> g[name]]
<1>1. DOMAIN f \cup DOMAIN g = DOMAIN g
    OBVIOUS
<1>2. Over(f, g) =
        [name \in DOMAIN g |-> IF name \in DOMAIN g THEN g[name] ELSE f[name]]
    BY <1>1 DEF Over
<1> QED
    BY <1>2

\* Nothing has no names, and nothing is added by it.
LEMMA NothingFacts ==
    ASSUME NEW f, f = [name \in DOMAIN f |-> f[name]]
    PROVE  /\ DOMAIN Nothing = {}
           /\ Over(f, Nothing) = f /\ Over(Nothing, f) = f
           /\ DOMAIN f = {} <=> f = Nothing
<1>1. DOMAIN Nothing = {}
    BY DEF Nothing
<1>2. Over(f, Nothing) = f
    <2>1. Over(f, Nothing) =
            [name \in DOMAIN f \cup {} |-> IF name \in {} THEN Nothing[name] ELSE f[name]]
        BY <1>1 DEF Over
    <2>2. DOMAIN f \cup {} = DOMAIN f
        OBVIOUS
    <2>3. Over(f, Nothing) = [name \in DOMAIN f |-> f[name]]
        BY <2>1, <2>2
    <2> QED
        BY <2>3
<1>4. Over(Nothing, f) = f
    <2>1. Over(Nothing, f) = [name \in DOMAIN f |-> f[name]]
        BY <1>1, Rewritten
    <2> QED
        BY <2>1
<1>3. ASSUME DOMAIN f = {} PROVE f = Nothing
    <2>1. [name \in DOMAIN f |-> f[name]] = [name \in {} |-> name]
        BY <1>3
    <2> QED
        BY <2>1 DEF Nothing
<1> QED
    BY <1>1, <1>2, <1>3, <1>4

\* The three trees that the gate works on have the names of the union.
LEMMA Trees ==
    ASSUME AreFunctions
    PROVE  /\ DOMAIN union = DOMAIN head \cup DOMAIN previous
           /\ DOMAIN Over(union, head) = DOMAIN union
           /\ union = [name \in DOMAIN union |-> union[name]]
           /\ Over(union, Nothing) = union /\ Over(Over(union, head), union) = union
           /\ previous = Nothing => union = head /\ Over(union, head) = head
           /\ (\E name \in DOMAIN union : Over(union, head)[name] # union[name]) => Changed
           /\ union = previous <=> DOMAIN head \subseteq DOMAIN previous
<1>1. /\ DOMAIN union = DOMAIN head \cup DOMAIN previous
      /\ \A name \in DOMAIN previous : union[name] = previous[name]
      /\ \A name \in DOMAIN head \ DOMAIN previous : union[name] = head[name]
    BY OverFacts DEF union
<1>2. union = [name \in DOMAIN union |-> union[name]]
    BY DEF union, Over
<1>3. DOMAIN Over(union, head) = DOMAIN union
    <2>1. DOMAIN Over(union, head) = DOMAIN union \cup DOMAIN head
        BY DEF Over
    <2> QED
        BY <1>1, <2>1
<1>4. Over(union, Nothing) = union
    BY <1>2, NothingFacts
<1>5. Over(Over(union, head), union) = union
    <2>1. Over(Over(union, head), union) =
            [name \in DOMAIN union |-> union[name]]
        BY <1>3, Rewritten
    <2> QED
        BY <1>2, <2>1
<1>6. ASSUME previous = Nothing PROVE union = head /\ Over(union, head) = head
    <2>1. union = head
        BY <1>6, NothingFacts DEF union, AreFunctions
    <2>2. Over(head, head) = head
        BY DEF Over, AreFunctions
    <2> QED
        BY <2>1, <2>2
<1>7. (\E name \in DOMAIN union : Over(union, head)[name] # union[name]) => Changed
    <2> SUFFICES ASSUME NEW name \in DOMAIN union, Over(union, head)[name] # union[name]
                 PROVE  Changed
        OBVIOUS
    <2>1. name \in DOMAIN head /\ Over(union, head)[name] = head[name]
        BY DEF Over
    <2>2. name \in DOMAIN previous /\ union[name] = previous[name]
        BY <1>1, <2>1
    <2> QED
        BY <2>1, <2>2 DEF Changed
<1>8. union = previous <=> DOMAIN head \subseteq DOMAIN previous
    <2>1. ASSUME DOMAIN head \subseteq DOMAIN previous PROVE union = previous
        <3>1. DOMAIN union = DOMAIN previous
            BY <1>1, <2>1
        <3>2. [name \in DOMAIN union |-> union[name]] = [name \in DOMAIN previous |-> previous[name]]
            BY <1>1, <3>1
        <3> QED
            BY <1>2, <3>2 DEF AreFunctions
    <2> QED
        BY <1>1, <2>1
<1> QED
    BY <1>1, <1>2, <1>3, <1>4, <1>5, <1>6, <1>7, <1>8

\* Every command leaves what the next one needs.
LEMMA ProgressInvariance == Spec => []Progress
<1>1. Init => Progress
    <2> SUFFICES ASSUME Init PROVE Progress
        OBVIOUS
    <2>1. AreFunctions
        BY DEF Init, Commits, AreFunctions
    <2> QED
        BY <2>1 DEF Init, Progress
<1>2. Progress /\ [Next]_vars => Progress'
    <2> SUFFICES ASSUME Progress, [Next]_vars PROVE Progress'
        OBVIOUS
    <2>a. UNCHANGED commits
        BY DEF Next, Resolve, Checkout, ApplyBaseline, Restore, Upgrade, Status, vars
    <2>b. union' = union /\ Changed' = Changed /\ AreFunctions' /\ Broken' = Broken
        BY <2>a DEF commits, union, Changed, AreFunctions, Broken, Progress
    <2>c. Over(union, head)' = Over(union, head) /\ previous' = previous /\ head' = head
        BY <2>a, <2>b DEF commits
    <2>d. AreFunctions
        BY DEF Progress
    <2>1. CASE Resolve
        <3>1. CASE previous = Nothing
            <4>1. tree = Over(union, head)
                BY <2>1, <2>d, <3>1, Trees DEF Resolve, Progress
            <4> QED
                BY <2>1, <2>b, <2>c, <3>1, <4>1 DEF Resolve, Progress
        <3>2. CASE previous # Nothing
            BY <2>1, <2>b, <2>c, <3>2 DEF Resolve, Progress
        <3> QED
            BY <3>1, <3>2
    <2>2. CASE Checkout
        <3>1. tree' = union
            BY <2>2 DEF Checkout, Progress, union
        <3> QED
            BY <2>2, <2>b, <2>c, <3>1 DEF Checkout, Progress
    <2>3. CASE ApplyBaseline
        <3>1. tree = union /\ applied = Nothing /\ previous # Nothing
            BY <2>3 DEF ApplyBaseline, Progress
        <3>2. Deploys <=> ~Broken
            BY <2>d, <3>1, NothingFacts DEF Deploys, Broken, AreFunctions
        <3>3. Over(tree, applied) = union
            BY <2>d, <3>1, Trees
        <3> QED
            BY <2>3, <2>b, <2>c, <3>1, <3>2, <3>3 DEF ApplyBaseline, Progress
    <2>4. CASE Restore
        <3>1. step = "restore" => tree' = Over(union, head)
            BY <2>4 DEF Restore, Progress
        <3> QED
            BY <2>4, <2>b, <2>c, <3>1 DEF Restore, Progress
    <2>5. CASE Upgrade
        <3>1. /\ tree = Over(union, head) /\ (previous # Nothing => ~Broken)
              /\ applied = IF previous = Nothing THEN Nothing ELSE union
            BY <2>5 DEF Upgrade, Progress
        <3>2. CASE previous = Nothing
            <4>1. tree = union /\ applied = Nothing /\ union = head
                BY <2>d, <3>1, <3>2, Trees
            <4>2. Over(tree, applied) = union
                BY <2>d, <4>1, Trees
            <4>3. (Deploys <=> ~Broken) /\ ~Edited
                BY <2>d, <4>1, NothingFacts DEF Deploys, Edited, Broken, AreFunctions
            <4> QED
                BY <2>5, <2>b, <2>c, <3>1, <3>2, <4>1, <4>2, <4>3 DEF Upgrade, Progress
        <3>3. CASE previous # Nothing
            <4>1. Over(tree, applied) = union
                BY <2>d, <3>1, <3>3, Trees
            <4>2. Deploys /\ (Edited => Changed)
                BY <2>d, <3>1, <3>3, Trees DEF Deploys, Edited
            <4> QED
                BY <2>5, <2>b, <2>c, <3>1, <3>3, <4>1, <4>2 DEF Upgrade, Progress
        <3> QED
            BY <3>2, <3>3
    <2>6. CASE Status
        <3>1. tree = Over(union, head) /\ applied = union
            BY <2>6 DEF Status, Progress
        <3>2. DOMAIN applied = DOMAIN tree /\ (Edited => Changed)
            BY <2>d, <3>1, Trees DEF Edited
        <3> QED
            BY <2>6, <2>b, <2>c, <3>1, <3>2 DEF Status, Progress
    <2>7. CASE UNCHANGED vars
        BY <2>7, <2>b, <2>c DEF vars, Progress
    <2> QED
        BY <2>1, <2>2, <2>3, <2>4, <2>5, <2>6, <2>7 DEF Next
<1> QED
    BY <1>1, <1>2, PTL DEF Spec

\* The verdict is that of applying both commits' migrations to an empty database.
THEOREM VerdictCorrect == Spec => []VerdictIsOfTheUnion
<1>1. Progress => VerdictIsOfTheUnion
    BY DEF Progress, VerdictIsOfTheUnion
<1> QED
    BY <1>1, ProgressInvariance, PTL

\* For no pair of commits does a gate that passes try an upgrade with something to apply.
THEOREM UpgradeUntested == Spec => []UpgradeAppliesNothing
<1>1. Progress => UpgradeAppliesNothing
    <2> SUFFICES ASSUME Progress, step = "passed", previous # Nothing
                 PROVE  baseline = applied
                        /\ (baseline = previous <=> DOMAIN head \subseteq DOMAIN previous)
        BY DEF UpgradeAppliesNothing
    <2>1. baseline = union /\ applied = union /\ AreFunctions
        BY DEF Progress
    <2> QED
        BY <2>1, Trees
<1> QED
    BY <1>1, ProgressInvariance, PTL
=============================================================================
