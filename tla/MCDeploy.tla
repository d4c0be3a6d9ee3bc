------------------------------- MODULE MCDeploy -------------------------------
(* Small instances of Deploy for TLC: see the .cfg files.                      *)
EXTENDS Deploy

CONSTANTS v1, v2, v3    \* two releases in a row, and one nobody signed

MCMigrations == [r \in {v1, v2, v3} |-> IF r = v1 THEN 1 ELSE 2]
=============================================================================
