---------------------------- MODULE MCLifecycle ----------------------------
(* The instances of Lifecycle that TLC checks.                               *)
EXTENDS Lifecycle, TLC

CONSTANTS p1, p2

Symmetry == Permutations(Processes)
=============================================================================
