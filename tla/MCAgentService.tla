--------------------------- MODULE MCAgentService ---------------------------
(* The instances of AgentService that TLC checks.                          *)
EXTENDS AgentService, TLC

Symmetry == Permutations(Messages)
=============================================================================
