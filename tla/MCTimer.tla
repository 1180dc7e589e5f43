------------------------------ MODULE MCTimer -------------------------------
(* Two timers on the smallest wheel with all its levels: two slots each,   *)
(* so that the time wraps after 32 ticks.                                  *)
EXTENDS SkynetTimer
=============================================================================
