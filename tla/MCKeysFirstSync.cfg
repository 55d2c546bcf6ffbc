\* The first call about a user or model arrives late in the store.
CONSTANTS
    Users = {u1}
    Models = {1}
    Keys = {k1}
    Handlers = {h1}
    None = None
    Bootstrapped = FALSE
    MaxRevision = 2
    MaxWrites = 0
    Strays = {g1}
SPECIFICATION Spec
PROPERTY SubjectsAdvance
