CONSTANTS
    Modes <- AllModes
    MaxStarts = 4
    RestartMax = 2
    MaxApprovals = 2
    PromptDisk = TRUE
SPECIFICATION FairSpec
CHECK_DEADLOCK FALSE
INVARIANTS
    NoOrphan
    RevokedIsContained
    OneGrantPerSession
PROPERTIES
    RevocationStartsNothing
    StartsFinish
