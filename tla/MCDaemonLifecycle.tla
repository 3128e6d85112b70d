------------------------- MODULE MCDaemonLifecycle -------------------------
(* DaemonLifecycle with two pids and two starts: enough for two starts, or *)
(* a start and a cleanup, to meet.                                         *)
EXTENDS DaemonLifecycle, TLC

CONSTANTS p1, p2

MCSymmetry == Permutations(Pids)
=============================================================================
