SPECIFICATION SessionSpec
CONSTANTS
  MainVoiceHistoryKey = main
  Keys <- MCKeys
  Windows = {1, 3}
  MaxTime = 4
  MaxTurns = 3
  Faults = {"save", "summary", "crash", "reset"}
INVARIANTS
  EveryTurnInOneSession
  SummarisedOnce
  NoGapInSession
PROPERTIES
  OnlyCrashOrResetForgets
  SummariesInOrder
CHECK_DEADLOCK FALSE
