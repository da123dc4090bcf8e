CONSTANTS
    c1 = c1
    j1 = j1
    s1 = s1
    Commands <- OneCommand
    Jobs <- OneJob
    Sessions <- OneSession
    Eventful <- OneSession
    MaxSessions = 1
    Transient = TRUE
SPECIFICATION FairSpec
CHECK_DEADLOCK FALSE
INVARIANTS
    SurvivorsAreKnown
PROPERTIES
    RevocationReachesSessions
    PtySessionsImplemented
