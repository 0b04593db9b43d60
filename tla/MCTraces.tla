------------------------------ MODULE MCTraces ------------------------------
(* The instances of Traces that TLC checks: three topics or memories in a     *)
(* row, each near to the next, two of them near enough to be duplicates, an    *)
(* intent, which has no vector, and a memory whose vector is zero.            *)
EXTENDS Traces

CONSTANTS x, y, z, i, b

Model5 == [c \in {x, y, z, i, b} |-> IF c = i THEN 0 ELSE 1]
Same4  == {{x, y}}
Near4  == {{x, y}, {y, z}}
=============================================================================
