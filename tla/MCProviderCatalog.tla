-------------------------- MODULE MCProviderCatalog --------------------------
(* Small instances of ProviderCatalog for TLC. *)
EXTENDS ProviderCatalog, TLC

Symmetry ==
    Permutations(Providers) \cup Permutations(Models)
    \cup Permutations(Slugs) \cup Permutations(Apps) \cup Permutations(Handlers)
=============================================================================
