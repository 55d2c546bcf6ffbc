\* An alias moves to another model while a request is under way.
CONSTANTS
    Models = {m1, m2}
    Providers = {p1}
    Aliases = {a1}
    Keys = {k1}
    Users = {u1}
    None = None
    MaxRevision = 1
    MaxRepairs = 0
    MaxFaults = 0
    AdapterAppID <- OneAdapter
    MaxTime = 0
SPECIFICATION Spec
INVARIANT RoutedIsListed
