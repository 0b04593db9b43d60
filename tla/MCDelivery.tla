----------------------------- MODULE MCDelivery -----------------------------
(* The instances of Delivery that TLC checks.                               *)
EXTENDS Delivery, TLC

Symmetry == Permutations(Mandatory) \cup Permutations(Proactive) \cup Permutations(Clients)
=============================================================================
