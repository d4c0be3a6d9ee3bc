----------------------------- MODULE MCMigrationGate -----------------------------
(* A small instance of MigrationGate for TLC: see the .cfg file.               *)
EXTENDS MigrationGate
=============================================================================
