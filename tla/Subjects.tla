------------------------------- MODULE Subjects -------------------------------
(***************************************************************************)
(* What the agent may do with what it has learned, as far as it promises     *)
(* anything: memories are gathered into subjects, subjects found to be one    *)
(* are united, and nothing that hangs on a subject is lost on the way: the    *)
(* threads that were left open about it, and that it was just spoken of.  No  *)
(* vector, job, row, evidence count or topic id appears here: Topics, which   *)
(* has them all, implements this specification.                              *)
(***************************************************************************)
CONSTANTS Memories, Intents

VARIABLES
  subjects,  \* the subjects, each the set of memories it was learned from
  thread,    \* thread[i]: the status of a thread, and its subject: {} if it has none
  quiet      \* subjects spoken of a short while ago

known == <<subjects, thread, quiet>>

Known == UNION subjects

Init ==
  /\ subjects = {} /\ quiet = {}
  /\ thread = [i \in Intents |-> [status |-> "none", about |-> {}]]

(* Some subjects become one, and what was said of them is said of it.         *)
Become(old, new) ==
  /\ subjects' = (subjects \ old) \cup {new}
  /\ thread' = [i \in Intents |-> IF thread[i].about \in old
                                    THEN [thread[i] EXCEPT !.about = new] ELSE thread[i]]
  /\ quiet' = (quiet \ old) \cup (IF quiet \cap old = {} THEN {} ELSE {new})

(* A memory is understood, once: a subject of its own, or more of another.     *)
Learn(m) ==
  /\ m \notin Known
  /\ Become({}, {m}) \/ \E s \in subjects : Become({s}, s \cup {m})

(* Two subjects turn out to be the same; a subject never splits or vanishes.   *)
Unite(s, t) == s # t /\ Become({s, t}, s \cup t)

(* A thread is left open, about a subject or none, and is closed.             *)
Begin(i, s) ==
  /\ thread[i].status = "none"
  /\ thread' = [thread EXCEPT ![i] = [status |-> "pending", about |-> s]]
  /\ UNCHANGED <<subjects, quiet>>
Resolve(i) ==
  /\ thread[i].status # "none"
  /\ thread' = [thread EXCEPT ![i].status = "resolved"]
  /\ UNCHANGED <<subjects, quiet>>

(* The agent speaks of a subject, and for a while no more.                    *)
Speak(s) == quiet' = quiet \cup {s} /\ UNCHANGED <<subjects, thread>>
Pass(s)  == quiet' = quiet \ {s} /\ UNCHANGED <<subjects, thread>>

Next ==
  \/ \E s \in subjects : Pass(s) \/ Speak(s)
  \/ \E i \in Intents : Resolve(i) \/ \E s \in subjects \cup {{}} : Begin(i, s)
  \/ \E m \in Memories : Learn(m)
  \/ \E s, t \in subjects : Unite(s, t)

Spec == Init /\ [][Next]_known
=============================================================================
