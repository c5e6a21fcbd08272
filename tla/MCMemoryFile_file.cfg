SPECIFICATION MemorySpec
CONSTANTS
  MainVoiceHistoryKey = main
  Keys <- MCKeys
  Dirs = {d1, d2}
  OldDirs = {d1}
  Windows = {1}
  MaxTime = 2
  MaxTurns = 1
  MaxEdits = 1
  Faults = {"summary", "crash", "reset"}
  FileFaults = {"disk", "log"}
INVARIANTS
  MemoryTypeOK
PROPERTIES
  LostTextIsInLog
  EndedIsSummarised
CHECK_DEADLOCK FALSE
