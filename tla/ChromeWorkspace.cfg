CONSTANTS
    a = a
    b = b
    Sessions <- TwoSessions
    Default = 1
    Max = 3
    Step = 2
    MaxTabs = 2
    MaxUpsets = 1
    Requests <- TwoTabs
    PromptListener = TRUE
SPECIFICATION Spec
SYMMETRY Symmetric
CHECK_DEADLOCK FALSE
INVARIANTS
    OwnTabAndPage
    PoolAgrees
PROPERTIES
    ShrinksOnlyOnMisread
