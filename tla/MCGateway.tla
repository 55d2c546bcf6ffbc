------------------------------ MODULE MCGateway ------------------------------
(* Small instances of Gateway for TLC. *)
EXTENDS Gateway, TLC

\* Every provider is registered for the same adapter, one after the other.
OneAdapter == [p \in Providers |-> "adapter"]

Symmetry ==
    Permutations(Models) \cup Permutations(Providers) \cup Permutations(Users)
=============================================================================
