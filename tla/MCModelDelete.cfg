SPECIFICATION DeleteRetrySpec
CONSTANTS
    None = None
    Models = {m1}
    Providers = {p1}
    Aliases = {a1}
    Keys = {}
    MaxRevision = 2
    MaxRepairs = 0
    MaxFaults = 1
PROPERTIES
    DeleteRetryCompletes
CHECK_DEADLOCK FALSE
