SPECIFICATION Spec
CONSTANTS
    None = None
    Users = {u1, u2}
    Emails = {e1, e2}
    Keys = {k1}
    MaxRevision = 2
    MaxRepairs = 0
    MaxFaults = 2
SYMMETRY Symmetry
INVARIANTS
    TypeOK
    NeverMorePermissive
    OwnersExist
    CompletedIsProjected
    LookupsExact
    AheadOnlyToRestrict
