--------------------------- MODULE MCContinueTask ---------------------------
(* Values of the constants of ContinueTask for TLC: a root task and its      *)
(* continuations, with and without an artifact.                              *)
EXTENDS ContinueTask, TLC

CONSTANTS t1, t2, t3, a1

MCTwoTasks    == {t1, t2}
MCThreeTasks  == {t1, t2, t3}
MCOneArtifact == {a1}
MCNoArtifacts == {}
MCOwner       == [a \in MCOneArtifact |-> t1]
MCNoOwner     == [a \in MCNoArtifacts |-> t1]

\* Tasks differ in nothing but their name when no artifact has an owner.
MCSymmetry == Permutations(MCThreeTasks)

\* One chain at a time: the other tasks continue the root, or each other.
MCOneRoot ==
  Cardinality({t \in TaskIDs : pc[t] # "none" /\ source[t] = NoSource}) <= 1

=============================================================================
