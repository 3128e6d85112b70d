---------------------------- MODULE MCAcceptLoop ----------------------------
(* AcceptLoop with two clients, so that both could be given old settings,  *)
(* and enough edits and SIGHUPs for one to arrive while another is being   *)
(* handled.                                                                *)
EXTENDS AcceptLoop, TLC

CONSTANTS c1, c2
=============================================================================
