----------------------------- MODULE MCTopics -----------------------------
(* The instance of Topics that TLC checks: topics that are paraphrases of     *)
(* each other, two of them, of m1 and m3, of opposite polarity; the memory of *)
(* each of these two is near to the topic of the other.                      *)
EXTENDS Topics, TLC

CONSTANTS m1, m2, m3

Near3 == {{Topic(m1), Topic(m2)}, {Topic(m2), Topic(m3)}, {Topic(m1), Topic(m3)},
          {Memory(m1), Topic(m3)}, {Memory(m3), Topic(m1)}}
Clash3 == {{m1, m3}}

(* The instance does not tell m1 and m3 apart.                               *)
Alike == Permutations({m1, m3})
=============================================================================
