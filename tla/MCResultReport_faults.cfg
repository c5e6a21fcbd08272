SPECIFICATION ReportSpec
CONSTANTS
  t1 = t1
  t2 = t2
  t3 = t3
  t4 = t4
  u1 = u1
  u2 = u2
  Tasks <- MCTwoTasks
  WithArtifact <- MCTwoTasks
  Turns <- MCTurns
  Limit = 1
  Faults = {"speak", "save", "crash", "reset"}
INVARIANTS
  OneVoice
  NoLostWakeUp
  ClearedWasHeard
  ArtifactsBeforeReport
PROPERTIES
  NeverToldTwice
  DeliveredOnce
SYMMETRY MCSymmetry
