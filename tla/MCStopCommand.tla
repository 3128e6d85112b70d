---------------------------- MODULE MCStopCommand ----------------------------
(* StopCommand with three pids, enough starts for a crash, a failed start  *)
(* and a restart under a pid that is still in the PID file, and one stop   *)
(* command.  SIGTERM comes from elsewhere too, so that a second command    *)
(* would add only its own reading of the two files.                        *)
EXTENDS StopCommand, TLC

CONSTANTS p1, p2, p3, u1

MCSymmetry == Permutations(Pids)
=============================================================================
