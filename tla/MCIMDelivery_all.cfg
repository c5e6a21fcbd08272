SPECIFICATION Spec
CONSTANTS
  r1 = r1
  r2 = r2
  w1 = w1
  u1 = u1
  u2 = u2
  Requests <- MCRequests
  Logins <- MCLogins
  Users <- MCUsers
  Owner <- MCOwner
  MaxAccounts = 2
  MaxTargets = 2
  QueueCap = 1
  Faults = {"save", "crash", "reset"}
SYMMETRY MCSymmetry
CONSTRAINT MCTwoAtOnce
INVARIANTS
  IMTypeOK
  TablesAreSound
  NeverCrossesAccounts
  MirrorHasTarget
PROPERTIES
  MirrorNeverMoves
