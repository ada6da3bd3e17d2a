-------------------------- MODULE MC_Application --------------------------
(* The days that are compared: the first four years and the turn of a      *)
(* century that is no leap year.                                           *)
EXTENDS Application

MCDays == (0 .. 1500) \cup (36500 .. 36960)

=============================================================================
