\* One caller goes away and its transaction arrives late.
CONSTANTS
    Users = {u1, u2}
    Models = {1}
    Keys = {k1}
    Handlers = {h1}
    None = None
    Bootstrapped = TRUE
    MaxRevision = 2
    MaxWrites = 1
    Strays = {g1}
SPECIFICATION Spec
SYMMETRY Symmetry
INVARIANTS
    IndexesExact
    HoldersLive
PROPERTIES
    ImplementsKeyRegistry
    SubjectsAdvance
