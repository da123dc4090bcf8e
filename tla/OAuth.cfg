CONSTANTS
    MaxStored = 2
    MaxPending = 1
    AccessTtl = 1
    RefreshTtl = 3
    Grace = 2
    CodeTtl = 1
    ReqTtl = 1
    Faults <- SaveMayFail
    MaxTime = 2
    MaxIssues = 3
    MaxAsks = 1
    MaxAgain = 1
    MaxCodes = 1
    MaxBearers = 2
    MaxClients = 1
    MaxUpsets = 2
SPECIFICATION Spec
CHECK_DEADLOCK FALSE
INVARIANTS
    RevokedStaysRevoked
    RestartKeepsSessions
    RotationWindow
PROPERTIES
    ClientKept
