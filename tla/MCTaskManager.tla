---------------------------- MODULE MCTaskManager ----------------------------
(* Values of the constants of TaskManager for TLC: two tasks, of which one  *)
(* may produce an artifact; the cfg of the run chooses the faults.          *)
EXTENDS TaskManager

CONSTANTS t1, t2, a1

MCTaskIDs     == {t1, t2}
MCArtifactIDs == {a1}
MCOwner       == [a \in MCArtifactIDs |-> t1]

=============================================================================
