CONSTANTS
    n1 = n1
    n2 = n2
    own = own
    Count = 2
    Http <- First
    Names <- AllNames
    Reserved <- OwnNames
    MaxFaults = 2
SPECIFICATION FairSpec
CHECK_DEADLOCK FALSE
INVARIANTS
    NamesRouteToOwner
    ClientIsTold
PROPERTIES
    NoUsurper
    StartupEnds
