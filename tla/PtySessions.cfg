CONSTANTS
    s1 = s1
    s2 = s2
    Sessions <- TwoSessions
    MaxSessions = 1
    Eventful <- OneSession
SPECIFICATION FairPtySpec
CHECK_DEADLOCK FALSE
INVARIANTS
    SlotCap
    SlotsAccounted
    NoOrphan
PROPERTIES
    StartsSettle
    SessionsEnd
