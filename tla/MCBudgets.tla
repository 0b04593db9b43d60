----------------------------- MODULE MCBudgets -----------------------------
(* The instance of Budgets that TLC checks: interchangeable cycles.           *)
EXTENDS Budgets, TLC

CONSTANTS c1, c2, c3

Symmetry == Permutations(Cycles)
=============================================================================
