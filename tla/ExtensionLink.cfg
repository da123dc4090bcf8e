CONSTANTS
    h1 = h1
    h2 = h2
    h3 = h3
    r1 = r1
    r2 = r2
    None = None
    Hosts <- ThreeHosts
    Requests <- TwoRequests
    MaxFaults = 2
SPECIFICATION FairSpec
CHECK_DEADLOCK FALSE
INVARIANTS
    ShutdownAnswersAll
    RunsInBoundProfile
PROPERTIES
    Reconnects
