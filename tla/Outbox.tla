-------------------------------- MODULE Outbox --------------------------------
(***************************************************************************)
(* What may become of a message the agent decided to say, as the one it is   *)
(* for sees it: it is due, it is heard, it becomes part of the transcript     *)
(* once, and while it is on the air nothing withdraws it.  No queue, lock,    *)
(* pass, burst window or delivery result appears here: Delivery, which has    *)
(* them all, implements this specification.                                  *)
(***************************************************************************)
EXTENDS Naturals

CONSTANTS Mandatory, Proactive   \* messages the agent owes, and those it volunteers

VARIABLES
  fate,        \* "unsaid", "due", "superseded" by a newer one, "said", or "dropped"
  aired,       \* messages broadcast to a client since the service last started
  heard,       \* messages a client ever took
  transcript   \* transcript[m]: agent turns of the conversation that are m

speech == <<fate, aired, heard, transcript>>

Messages == Mandatory \cup Proactive
Alive(m) == fate[m] \in {"due", "superseded"}

Init ==
  /\ fate = [m \in Messages |-> "unsaid"]
  /\ aired = {} /\ heard = {}
  /\ transcript = [m \in Messages |-> 0]

(* A message that is volunteered supersedes the ones that still wait.         *)
Say(m) ==
  /\ fate[m] = "unsaid"
  /\ fate' = [n \in Messages |->
                IF n = m THEN "due"
                ELSE IF {m, n} \subseteq Proactive /\ fate[n] = "due" THEN "superseded"
                ELSE fate[n]]
  /\ UNCHANGED <<aired, heard, transcript>>

(* A client takes the message; it goes on the air at most once, unless the     *)
(* broadcast breaks after that.                                             *)
Air(m) ==
  /\ Alive(m) /\ m \notin aired
  /\ heard' = heard \cup {m}
  /\ aired' \in {aired, aired \cup {m}}
  /\ UNCHANGED <<fate, transcript>>

(* What was on the air becomes part of the conversation.                      *)
Confirm(m) ==
  /\ Alive(m) /\ m \in aired
  /\ fate' = [fate EXCEPT ![m] = "said"]
  /\ transcript' = [transcript EXCEPT ![m] = @ + 1]
  /\ UNCHANGED <<aired, heard>>

(* Its time is over, a gate refuses it, or the transport fails: only what was  *)
(* volunteered, and only before it is on the air.                            *)
Withhold(m) ==
  /\ m \in Proactive /\ Alive(m) /\ m \notin aired
  /\ fate' = [fate EXCEPT ![m] = "dropped"]
  /\ UNCHANGED <<aired, heard, transcript>>

(* A superseded message that nobody was there to hear waits again.            *)
Revive(m) ==
  /\ fate[m] = "superseded" /\ m \notin aired
  /\ fate' = [fate EXCEPT ![m] = "due"]
  /\ UNCHANGED <<aired, heard, transcript>>

(* The service ends, or starts again and drops what waited too long.  Of what  *)
(* was on the air it does not know any more that it was.                      *)
Forget(stale) ==
  /\ \A m \in stale : fate[m] = "due"
  /\ fate' = [m \in Messages |-> IF m \in stale THEN "dropped" ELSE fate[m]]
  /\ aired' = {}
  /\ UNCHANGED <<heard, transcript>>

Next ==
  \/ \E m \in Messages : Say(m) \/ Air(m) \/ Confirm(m) \/ Withhold(m) \/ Revive(m)
  \/ \E stale \in SUBSET Proactive : Forget(stale)

Spec == Init /\ [][Next]_speech
=============================================================================
