--------------------------- MODULE MCWakeScheduler ---------------------------
(* The instances of WakeScheduler that TLC checks.                          *)
EXTENDS WakeScheduler
=============================================================================
