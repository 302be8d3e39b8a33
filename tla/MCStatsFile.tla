----------------------------- MODULE MCStatsFile -----------------------------
(* Model-checking instance of StatsFile. *)
EXTENDS StatsFile, TLC

\* Saved values are alike, the default-constructed one is not.
Symmetry == Permutations(Stats \ {Fresh})
=============================================================================
