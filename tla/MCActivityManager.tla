--------------------------- MODULE MCActivityManager --------------------------
(* Model-checking instances of ActivityManager. *)
EXTENDS ActivityManager, TLC

Symmetry == Permutations(Act)
=============================================================================
