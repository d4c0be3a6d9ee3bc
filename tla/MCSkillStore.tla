----------------------------- MODULE MCSkillStore -----------------------------
(* A small instance of SkillStore for TLC: see the .cfg file.                  *)
EXTENDS SkillStore, TLC

CONSTANTS honest, changed, upstream, fork

MCSkills == <<"clean-ddd", "otel">>
Symmetry == Permutations({honest, changed}) \cup Permutations({upstream, fork})
=============================================================================
