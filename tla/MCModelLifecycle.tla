--------------------------- MODULE MCModelLifecycle ---------------------------
(* Small instances of ModelLifecycle for TLC. *)
EXTENDS ModelLifecycle, TLC

Symmetry == Permutations(Models) \cup Permutations(Providers)
=============================================================================
