SPECIFICATION Spec
CONSTANTS
  t1 = t1
  t2 = t2
  a1 = a1
  TaskIDs <- MCTaskIDs
  ArtifactIDs <- MCArtifactIDs
  Owner <- MCOwner
  Faults = {"save", "disk", "crash", "reset", "interrupt"}
INVARIANTS
  DatabaseLagsMemory
  ToldIsDurable
  CancelTableExact
PROPERTIES
  OutcomeIsFinal
  ImplementsLifecycle
