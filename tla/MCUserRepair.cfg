SPECIFICATION RepairSpec
CONSTANTS
    None = None
    Users = {u1}
    Emails = {e1}
    Keys = {k1}
    MaxRevision = 3
    MaxRepairs = 4
    MaxFaults = 2
PROPERTIES
    PutRepairs
    FenceDrains
