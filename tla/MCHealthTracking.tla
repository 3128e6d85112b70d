-------------------------- MODULE MCHealthTracking --------------------------
(* HealthTracking with the code's threshold and sample of three events and *)
(* a window and cooldown of a few ticks, the cooldown longer than the      *)
(* window as in the default configuration (900 s and 300 s).               *)
EXTENDS HealthTracking
=============================================================================
