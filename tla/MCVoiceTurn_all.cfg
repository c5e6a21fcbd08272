SPECIFICATION VoiceFairSpec
CONSTANTS
  Sessions = {s1}
  s1 = s1
  Callers <- MCCallers
  LinkFaults <- MCLinkFaults
  MaxCalls = 7
  MaxTurns = 2
  MaxDeltas = 2
INVARIANTS
  VoiceTypeOK
  AnswerOfItsCall
  ReadLoopMoves
  SaidInOrder
  StoredWasHeard
PROPERTIES
  TurnEnds
CHECK_DEADLOCK FALSE
