------------------------------ MODULE MCVoice ------------------------------
(* The instances of Voice that TLC checks.                                   *)
EXTENDS Voice
=============================================================================
