SPECIFICATION Spec
CONSTANTS
    None = None
    Models = {m1, m2}
    Providers = {p1, p2}
    Aliases = {a1}
    Keys = {k1}
    MaxRevision = 2
    MaxRepairs = 0
    MaxFaults = 2
SYMMETRY Symmetry
INVARIANTS
    TypeOK
    NeverMorePermissive
    AliasAuthorizedOnce
    ReferencesExist
CHECK_DEADLOCK FALSE
