----------------------------- MODULE MigrationGate -----------------------------
(***************************************************************************)
(* The upgrade gate of CI, scripts/migration-upgrade-gate.mjs: it applies   *)
(* the migrations of the previous release to an empty database, then those  *)
(* of HEAD on top, and asks whether the two are in sync.                    *)
(*                                                                         *)
(* A commit, the working tree and the database are functions from the names *)
(* of migrations that they have to what is in them.                         *)
(***************************************************************************)
CONSTANTS
    Migrations,     \* names of migrations, over all commits
    Contents        \* what may be in a migration

VARIABLES
    previous,       \* the migrations at the previous release, Nothing when there is none
    head,           \* the migrations at HEAD
    failing,        \* the SQL that fails: pairs of a name and a content
    tree,           \* the migrations in the working tree
    applied,        \* those the database has, as they were applied
    baseline,       \* those it had when HEAD's were put on top
    step            \* the command that is next, or the outcome

commits == <<previous, head, failing>>
vars == <<commits, tree, applied, baseline, step>>

Commits == UNION {[names -> Contents] : names \in SUBSET Migrations}
Nothing == [name \in {} |-> name]

\* g written over f, which keeps what g does not have.
Over(f, g) ==
    [name \in DOMAIN f \cup DOMAIN g |-> IF name \in DOMAIN g THEN g[name] ELSE f[name]]

Init ==
    /\ previous \in Commits /\ head \in Commits
    /\ failing \in SUBSET (Migrations \X Contents)
    /\ tree = head /\ applied = Nothing /\ baseline = Nothing
    /\ step = "previous"

\* previousRef and hasMigrationsAt: without a baseline the gate is a fresh apply.
Resolve ==
    /\ step = "previous"
    /\ step' = IF previous = Nothing THEN "upgrade" ELSE "checkout"
    /\ UNCHANGED <<commits, tree, applied, baseline>>

\* git checkout <prev> -- <migrations>, which writes the files of that commit and leaves
\* alone the files it does not have.
Checkout ==
    /\ step = "checkout"
    /\ tree' = Over(tree, previous)
    /\ step' = "apply"
    /\ UNCHANGED <<commits, applied, baseline>>

\* db:migrate applies what is in the tree and has no namesake in the database, unless the
\* SQL of one of them fails.
Deploys == \A name \in DOMAIN tree \ DOMAIN applied : <<name, tree[name]>> \notin failing

\* A migration that was changed after it had been applied.
Edited == \E name \in DOMAIN tree \cap DOMAIN applied : tree[name] # applied[name]

ApplyBaseline ==
    /\ step = "apply"
    /\ IF Deploys
       THEN applied' = Over(tree, applied) /\ step' = "restore"
       ELSE UNCHANGED applied /\ step' = "give up"
    /\ UNCHANGED <<commits, tree, baseline>>

\* finally: git checkout HEAD -- <migrations>, after an error too.  It is an error itself
\* when HEAD has no migrations.
Restore ==
    /\ step \in {"restore", "give up"}
    /\ tree' = Over(tree, head)
    /\ step' = IF step = "restore" /\ head # Nothing THEN "upgrade" ELSE "failed"
    /\ UNCHANGED <<commits, applied, baseline>>

\* What the tool makes of a migration that was edited is its own business: it may go on.
Upgrade ==
    /\ step = "upgrade"
    /\ baseline' = applied
    /\ \/ Deploys /\ applied' = Over(tree, applied) /\ step' = "status"
       \/ (~Deploys \/ Edited) /\ UNCHANGED applied /\ step' = "failed"
    /\ UNCHANGED <<commits, tree>>

\* zen migrate status
Status ==
    /\ step = "status"
    /\ \/ DOMAIN applied = DOMAIN tree /\ step' = "passed"
       \/ (DOMAIN applied # DOMAIN tree \/ Edited) /\ step' = "failed"
    /\ UNCHANGED <<commits, tree, applied, baseline>>

Next == Resolve \/ Checkout \/ ApplyBaseline \/ Restore \/ Upgrade \/ Status

Spec == Init /\ [][Next]_vars

\* "check out ONLY that ref's migrations dir" (migration-upgrade-gate.mjs:6): a gate that
\* passes has put HEAD's migrations on a database that had those of the previous release.
UpgradeIsTested ==
    step = "passed" /\ DOMAIN previous \subseteq DOMAIN head => baseline = previous
=============================================================================
