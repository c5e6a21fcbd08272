SPECIFICATION ContinueSpec
CONSTANTS
  t1 = t1
  t2 = t2
  t3 = t3
  a1 = a1
  TaskIDs <- MCThreeTasks
  ArtifactIDs <- MCNoArtifacts
  Owner <- MCNoOwner
  Faults = {"interrupt"}
  EarlyContinuation = FALSE
  Users = {"cancel"}
INVARIANTS
  SourceStopsFirst
  StoppedIsTakenOver
  SessionIsKept
CHECK_DEADLOCK FALSE
SYMMETRY MCSymmetry
CONSTRAINT MCOneRoot
