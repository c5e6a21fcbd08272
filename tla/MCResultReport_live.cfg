SPECIFICATION ReportFairSpec
CONSTANTS
  t1 = t1
  t2 = t2
  t3 = t3
  t4 = t4
  u1 = u1
  u2 = u2
  Tasks <- MCThreeTasks
  WithArtifact <- MCOneArtifact
  Turns <- MCTurns
  Limit = 3
  Faults = {"resolve"}
PROPERTIES
  PendingIsReported
