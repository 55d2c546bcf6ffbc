SPECIFICATION Spec
CONSTANTS
    None = None
    Providers = {p1, p2}
    Models = {m1}
    Slugs = {s1, s2}
    Apps = {a1, a2}
    Aliases = {n1}
    Handlers = {h1, h2}
    Bootstrapped = FALSE
    MaxWrites = 1
    Strays = {}
SYMMETRY Symmetry
INVARIANTS
    IndexesExact
    LookupsExact
PROPERTIES
    ImplementsCatalog
CHECK_DEADLOCK FALSE
