\* One model, one key and its two users that change while a request is under
\* way.
CONSTANTS
    Models = {m1}
    Providers = {p1}
    Aliases = {a1}
    Keys = {k1}
    Users = {u1, u2}
    None = None
    MaxRevision = 2
    MaxRepairs = 0
    MaxFaults = 1
    AdapterAppID <- OneAdapter
    MaxTime = 1
SPECIFICATION Spec
SYMMETRY Symmetry
INVARIANTS
    TypeOK
    RevokedIsRefused
    DisabledIsNotRouted
