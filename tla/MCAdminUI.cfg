CONSTANTS
    Kinds = {"user", "provider", "model", "key"}
    Requests = {r1, r2}
    Inputs <- MCInputs
    SessionTTL = 2
    TokenTTL = 1
    ChallengeTTL = 1
    MaxSessions = 1
    MaxPending = 1
    Bounds <- MCBounds
SPECIFICATION Spec
SYMMETRY Symmetry
INVARIANTS
    TypeOK
    OneKeyPerForm
    OutcomeIsTold
PROPERTIES
    NoBlindOverwrite
    ExpiryKept
    SessionBound
    RefusedOnlyWhenFull
CHECK_DEADLOCK FALSE
