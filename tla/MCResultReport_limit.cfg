SPECIFICATION ReportFairSpec
CONSTANTS
  t1 = t1
  t2 = t2
  t3 = t3
  t4 = t4
  u1 = u1
  u2 = u2
  Tasks <- MCFourTasks
  WithArtifact = {}
  Turns <- MCTurns
  Limit = 3
  Faults = {}
PROPERTY
  PendingIsReported
