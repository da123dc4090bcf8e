CONSTANTS
    r1 = r1
    r2 = r2
    g1 = g1
    g2 = g2
    w1 = w1
    w2 = w2
    w3 = w3
    w4 = w4
    Op <- AllCalls
    Scenarios <- AllScenarios
    MaxCanon = 3
    Capacity = 5
    MaxBytes = 4
    MaxHoldback = 3
SPECIFICATION TerminalSpec
CHECK_DEADLOCK FALSE
INVARIANTS
    AnswersAreOwn
    NoSilentDiscard
    TranscriptIsWhole
