--------------------------- MODULE MCHostedOAuth ---------------------------
(* Two requests at a time, served by two replicas.                          *)
EXTENDS HostedOAuth, TLC

CONSTANTS p1, p2, t1, t2

TwoReplicas == {p1, p2}
TwoTasks == {t1, t2}
Symmetry == Permutations(TwoTasks)
=============================================================================
