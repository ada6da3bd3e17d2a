---------------------------- MODULE MC_AppTimer ----------------------------
(* Timers for AppTimer: the clock, which the main thread starts, and one    *)
(* that both the main thread and interrupt handlers start and stop.         *)
EXTENDS AppTimer, TLC

CONSTANTS clock, conn

MCTimers == {clock, conn}

MCInterval == (clock :> 5) @@ (conn :> 6)

=============================================================================
