SPECIFICATION FairSpec
CONSTANTS
  a = a
  b = b
  l = l
  Calls <- MCCalls
  LocalCalls <- MCLocalCalls
  Ungated <- MCUngated
  ClientIdOf <- MCClientIdOf
  LocalInit = LocalInit
  NoCall = NoCall
  NoProc = NoProc
  MaxSpawns = 2
  MaxNotes = 1
  PromptReap = TRUE
CHECK_DEADLOCK FALSE
INVARIANTS RightAnswer HandshakeSurvivesRestart OneUsableBridge
PROPERTIES FailsWithOwnChild RequestsSettle ImplementsCorrelatedCalls
