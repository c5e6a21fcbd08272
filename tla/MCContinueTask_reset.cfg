SPECIFICATION ContinueSpec
CONSTANTS
  t1 = t1
  t2 = t2
  t3 = t3
  a1 = a1
  TaskIDs <- MCTwoTasks
  ArtifactIDs <- MCOneArtifact
  Owner <- MCOwner
  Faults = {"interrupt", "reset"}
  EarlyContinuation = TRUE
  Users = {"cancel", "report"}
INVARIANTS
  ContinueTypeOK
  ArtifactsHaveFiles
  PendingIsAnnounced
PROPERTIES
  LaunchesOnlyRunning
  ResetBlocksStaleUpdates
