CONSTANTS
    Modes <- PersonalOnly
    MaxStarts = 1
    RestartMax = 2
    MaxApprovals = 1
    PromptDisk = TRUE
SPECIFICATION Spec
CHECK_DEADLOCK FALSE
INVARIANT ShutDownAtExpiry
