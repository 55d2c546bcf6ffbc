---------------------------- MODULE MCVirtualKeys ----------------------------
(* Small instances of VirtualKeys for TLC. *)
EXTENDS VirtualKeys, TLC

Symmetry == Permutations(Users) \cup Permutations(Keys) \cup Permutations(Handlers)
=============================================================================
