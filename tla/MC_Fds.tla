------------------------------- MODULE MC_Fds -------------------------------
(* Instances of Fds for TLC.                                               *)
EXTENDS Fds
=============================================================================
