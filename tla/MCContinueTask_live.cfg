SPECIFICATION ContinueFairSpec
CONSTANTS
  t1 = t1
  t2 = t2
  t3 = t3
  a1 = a1
  TaskIDs <- MCTwoTasks
  ArtifactIDs <- MCNoArtifacts
  Owner <- MCNoOwner
  Faults = {"interrupt"}
  EarlyContinuation = FALSE
  Users = {"cancel", "report"}
PROPERTIES
  NeverStuck
CHECK_DEADLOCK FALSE
