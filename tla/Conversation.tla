---------------------------- MODULE Conversation ----------------------------
(***************************************************************************)
(* What a client may rely on, whatever happens to the process: the service  *)
(* acknowledges a message, later takes it as one turn of the conversation,  *)
(* and then answers it once, or, if it owed an answer, gives up visibly.    *)
(* No queue, work item, retry, crash or restart appears here: AgentService, *)
(* which has them all, implements this specification, so none of them shows *)
(* except as time passing.                                                 *)
(***************************************************************************)
EXTENDS Naturals

CONSTANT Messages   \* event_ids a client may send

VARIABLES
  acknowledged,   \* messages a client holds an ACK for
  heard,          \* heard[m]: human turns of the conversation that m made
  owed,           \* messages that must be answered and have not been
  answers,        \* answers[m]: outbound rows that answer m
  abandoned       \* messages whose answer was given up, on record

talk == <<acknowledged, heard, owed, answers, abandoned>>

Init ==
  /\ acknowledged = {}
  /\ heard = [m \in Messages |-> 0]
  /\ owed = {}
  /\ answers = [m \in Messages |-> 0]
  /\ abandoned = {}

Acknowledge(m) ==
  /\ m \notin acknowledged
  /\ acknowledged' = acknowledged \cup {m}
  /\ UNCHANGED <<heard, owed, answers, abandoned>>

(* The message becomes a turn; the service may bind itself to an answer.     *)
Hear(m) ==
  /\ m \in acknowledged /\ heard[m] = 0
  /\ heard' = [heard EXCEPT ![m] = 1]
  /\ owed' \in {owed, owed \cup {m}}
  /\ UNCHANGED <<acknowledged, answers, abandoned>>

(* An answer the service owes, or one it volunteers.                         *)
Answer(m) ==
  /\ heard[m] = 1 /\ answers[m] = 0 /\ m \notin abandoned
  /\ answers' = [answers EXCEPT ![m] = 1]
  /\ owed' = owed \ {m}
  /\ UNCHANGED <<acknowledged, heard, abandoned>>

GiveUp(m) ==
  /\ m \in owed
  /\ owed' = owed \ {m}
  /\ abandoned' = abandoned \cup {m}
  /\ UNCHANGED <<acknowledged, heard, answers>>

Next == \E m \in Messages : Acknowledge(m) \/ Hear(m) \/ Answer(m) \/ GiveUp(m)

Spec == Init /\ [][Next]_talk
=============================================================================
