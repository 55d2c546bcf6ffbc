SPECIFICATION Spec
CONSTANTS
    None = None
    Providers = {p1, p2}
    Models = {m1}
    Slugs = {s1}
    Apps = {a1, a2}
    Aliases = {n1}
    Handlers = {h1, h2}
    Bootstrapped = TRUE
    MaxWrites = 1
    Strays = {g1}
SYMMETRY Symmetry
INVARIANTS
    UniqueNames
CHECK_DEADLOCK FALSE
