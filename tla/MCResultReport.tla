--------------------------- MODULE MCResultReport ---------------------------
(* Values of the constants of ResultReport for TLC.                          *)
EXTENDS ResultReport, TLC

CONSTANTS t1, t2, t3, t4, u1, u2

MCTwoTasks   == {t1, t2}
MCThreeTasks == {t1, t2, t3}
MCFourTasks  == {t1, t2, t3, t4}
MCOneArtifact == {t1}
MCTurns      == {u1, u2}

\* Goroutines have no identity.
MCSymmetry == Permutations(MCTurns)

=============================================================================
