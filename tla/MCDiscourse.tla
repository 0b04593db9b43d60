---------------------------- MODULE MCDiscourse ----------------------------
(* The instances of Discourse that TLC checks: two turns of one thread, and  *)
(* one of another.                                                          *)
EXTENDS Discourse

CONSTANTS t1, t2, t3

Threads2 == [t \in {t1, t2} |-> "a"]
Threads3 == [t \in {t1, t2, t3} |-> IF t = t3 THEN "b" ELSE "a"]
=============================================================================
