CONSTANTS
    a = a
    b = b
    Sessions <- TwoSessions
    Default = 1
    Max = 2
    Step = 1
    MaxTabs = 2
    MaxUpsets = 0
    Requests <- MaxOnly
    PromptListener = TRUE
SPECIFICATION FairSpec
CHECK_DEADLOCK FALSE
PROPERTY OpenSettles
