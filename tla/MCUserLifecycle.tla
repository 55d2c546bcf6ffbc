--------------------------- MODULE MCUserLifecycle ---------------------------
(* Small instances of UserLifecycle for TLC. *)
EXTENDS UserLifecycle, TLC

Symmetry ==
    Permutations(Users) \cup Permutations(Emails) \cup Permutations(Keys)
=============================================================================
