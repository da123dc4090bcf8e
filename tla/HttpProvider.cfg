CONSTANTS
    c1 = c1
    c2 = c2
    Boot = Boot
    Calls <- TwoCalls
    MaxFaults = 2
SPECIFICATION FairSpec
CHECK_DEADLOCK FALSE
INVARIANTS
    CallsAreServed
PROPERTIES
    Reconnects
    CallsSettle
