------------------------------ MODULE Discourse ------------------------------
(***************************************************************************)
(* The discourse focus: which subject the conversation is about, which one   *)
(* the human closed, and what a proactive message may therefore be about.    *)
(*                                                                         *)
(*   human turn --> provisional focus --> model call --> focus transition    *)
(*                        |                                    |            *)
(*                        +--------> focus, closed <-----------+            *)
(*                                       |                                  *)
(*   wake --> proactive cycle --> pre-outbox gates --> delivery gates        *)
(*                                                                         *)
(* Every action is one transaction of the reducer, or one step of the pump   *)
(* between two suspensions.  A subject is the provisional memory a turn      *)
(* leaves (named by the turn).  Two memories are related when they are of    *)
(* one thread: CONTINUE or BRIDGE, which no gate tells apart; otherwise the  *)
(* relation is ORPHAN, or UNJUDGED while one of them has no embedding.       *)
(*                                                                         *)
(* The gates that do not look at the conversation (budget, cooldown, quiet   *)
(* hours) may refuse at any time; WakeScheduler and Delivery have them.      *)
(* One proactive cycle and one proactive row at a time.                      *)
(***************************************************************************)
EXTENDS Integers

CONSTANTS
  Turns,         \* human messages
  Thread,        \* the thread the text of each turn belongs to
  First,         \* the turn that opened the conversation, or "none" (never used)
  ActiveWithin,  \* conversation.active_within_seconds, in ticks
  IdleWithin,    \* conversation.idle_within_seconds
  MaxTime,       \* bound: ticks in a behaviour
  MaxFailures    \* bound: reductions of a human message that raise

ASSUME WindowsAssumption ==
  ActiveWithin \in Nat /\ IdleWithin \in Nat /\ ActiveWithin <= IdleWithin
ASSUME BoundsAssumption == MaxTime \in Nat \ {0} /\ MaxFailures \in Nat
ASSUME ThreadAssumption == DOMAIN Thread = Turns
ASSUME NoneAssumption == "none" \notin Turns
ASSUME FirstAssumption == First \in Turns \cup {"none"}

VARIABLES
  now,          \* the wall clock
  (* durable *)
  said,         \* said[t]: timestamp of the accepted event, 0 before
  reduced,      \* turns whose event is reduced
  lastHuman,    \* conversation.last_human_message_at, 0 for None
  focus,        \* conversation.focus_memory_id
  closed,       \* conversation.closed_focus_memory_id
  memories,     \* turns that left a provisional memory
  embedded,     \* memories with a stored vector
  work,         \* work[t]: the model call of turn t, with its snapshot
  thought,      \* the proactive cycle at its model call
  row,          \* the latest proactive outbox row, what it is about while PENDING
  (* process memory *)
  waiting,      \* events the reducer loop will get
  replay,       \* plan.replay_events not yet processed
  (* history *)
  author,       \* the turn whose reduction or result last wrote the focus
  resolved,     \* the subject the human closed, while nothing reopened the floor
  lapsed,       \* the focus a lull retired, until something names a subject again
  failures

conversation == <<lastHuman, focus, closed>>
turnState    == <<said, reduced, memories, work>>
proactive    == <<thought, row>>
history      == <<author, resolved, lapsed>>
loop         == <<waiting, replay, failures>>
vars == <<now, said, reduced, lastHuman, focus, closed, memories, embedded,
          work, thought, row, waiting, replay, author, resolved,
          lapsed, failures>>

None    == "none"
Memory  == Turns \cup {None}
(* task: a subject class, response required.  checkin: a presence ping,       *)
(* response required.  social: a subject class, optional.  remark: neither.   *)
(* ack: low substance, silence.                                             *)
Class   == {"task", "checkin", "social", "remark", "ack"}
NoWork  == [status |-> "none", cycle |-> "none", prior |-> None, priorClosed |-> None]
NoRow   == [status |-> "none", about |-> None, at |-> 0]
Idle    == [about |-> None, at |-> 0]

Accepted == {t \in Turns : said[t] > 0}
Newest(S) == CHOOSE t \in S : \A u \in S : said[u] <= said[t]
Oldest(S) == {t \in S : \A u \in S : said[t] <= said[u]}

-----------------------------------------------------------------------------
(* Mode and relation.                                                       *)

(* infer_mode: a gap may be negative, for an event replayed late.            *)
ModeAfter(last, at) ==
  IF last = 0 THEN "DORMANT"
  ELSE IF at - last <= ActiveWithin THEN "ACTIVE"
  ELSE IF at - last <= IdleWithin THEN "IDLE" ELSE "DORMANT"
Mode(at) == ModeAfter(lastHuman, at)

(* assess_against: UNJUDGED unless both vectors are stored.                  *)
Relation(subject, c) ==
  IF {subject, c} \subseteq embedded
    THEN IF Thread[subject] = Thread[c] THEN "RELATED" ELSE "ORPHAN"
    ELSE "UNJUDGED"

OpenFocusOnly(c, at) ==   \* faulty variant: a closed subject is forgotten by the gate
  Mode(at) = "IDLE" /\ focus # None /\ Relation(focus, c) = "ORPHAN"
(* is_discourse_orphan                                                      *)
OffTheFloor(c, at) ==
  /\ Mode(at) = "IDLE"
  /\ IF focus # None
       THEN Relation(focus, c) = "ORPHAN"
       ELSE closed # None /\ Relation(closed, c) = "RELATED"

(* evaluate_proactive, as far as it reads the conversation                   *)
GateOpen(at) == Mode(at) # "ACTIVE"

(* advancement_suppresses                                                   *)
Muted(relation, at) ==
  \/ relation = "REPEAT"
  \/ relation = "ORPHAN" /\ focus # None /\ Mode(at) = "IDLE"

-----------------------------------------------------------------------------
(* Human turns.                                                             *)

(* ingest_human_message: no two events bear one timestamp.                   *)
Say(t) ==
  /\ replay = {} /\ said[t] = 0 /\ \A u \in Turns : said[u] # now
  /\ said' = [said EXCEPT ![t] = now]
  /\ waiting' = waiting \cup {t}
  /\ UNCHANGED <<now, conversation, reduced, memories, embedded, work,
                 proactive, replay, failures, history>>

FocusSetting(class) == class \in {"task", "social"}

(* _next_focus, for a turn of this class that left a memory or not           *)
NextFocus(t, class, remembered) ==
  IF FocusSetting(class) /\ remembered THEN t
  ELSE IF Mode(said[t]) = "DORMANT" THEN None ELSE focus

(* _next_closed_focus                                                       *)
NextClosed(t, newFocus) ==
  IF newFocus # None \/ Mode(said[t]) = "DORMANT" THEN None ELSE closed

(* The path of the turn: _mandatory_path, _optional_path, or silence.        *)
Cycles(class) ==
  IF class \in {"task", "checkin"} THEN {"mandatory"}
  ELSE IF class = "ack" THEN {"none"} ELSE {"reactive", "none"}

(* A turn that establishes a subject reopens the floor, a lull retires what   *)
(* was on it.                                                               *)
StillResolved(newFocus, t) ==
  IF newFocus # None \/ Mode(said[t]) = "DORMANT" THEN None ELSE resolved
Lapses(newFocus) ==
  IF newFocus # None THEN None ELSE IF focus # None THEN focus ELSE lapsed

(* handle_human_message.  A memory is made of any text that is not trivial.  *)
ReduceHuman(t) ==
  /\ reduced' = reduced \cup {t}
  /\ \E class \in Class, remembered \in BOOLEAN : \E cycle \in Cycles(class) :
       /\ memories' = IF remembered THEN memories \cup {t} ELSE memories
       /\ focus' = NextFocus(t, class, remembered)
       /\ closed' = NextClosed(t, focus')
       /\ resolved' = StillResolved(focus', t)
       /\ lapsed' = Lapses(focus')
       /\ work' = IF cycle = "none" THEN work
                  ELSE [work EXCEPT ![t] = [status |-> "PENDING", cycle |-> cycle,
                                            prior |-> focus, priorClosed |-> closed]]
  /\ lastHuman' = said[t]
  /\ author' = t
  /\ UNCHANGED <<now, said, embedded, proactive>>

(* The reducer loop takes the oldest event it has.                           *)
ReduceNext ==
  /\ replay = {}
  /\ \E t \in Oldest(waiting) : ReduceHuman(t) /\ waiting' = waiting \ {t}
  /\ UNCHANGED <<replay, failures>>

(* The reduction raises: it is rolled back, and the event is replayed at the *)
(* next start.                                                              *)
ReduceRaises ==
  /\ replay = {} /\ failures < MaxFailures
  /\ failures' = failures + 1
  /\ \E t \in Oldest(waiting) : waiting' = waiting \ {t}
  /\ UNCHANGED <<now, turnState, conversation, embedded, proactive, replay, history>>

(* The process ends and starts again: every accepted, unreduced event is     *)
(* replayed, and cycles that were running are dispatched again.             *)
Restart ==
  /\ replay' = Accepted \ reduced
  /\ waiting' = {}
  /\ UNCHANGED <<now, turnState, conversation, embedded, proactive, failures, history>>

ReplayNext ==
  /\ \E t \in Oldest(replay) : ReduceHuman(t) /\ replay' = replay \ {t}
  /\ UNCHANGED <<waiting, failures>>

(* An EmbeddingResult is reduced.                                            *)
Embed(m) ==
  /\ replay = {} /\ m \in memories \ embedded
  /\ embedded' = embedded \cup {m}
  /\ UNCHANGED <<now, turnState, conversation, proactive, loop, history>>

-----------------------------------------------------------------------------
(* Results of the human turns' model calls.                                 *)

WriteAnyway(t) == FALSE   \* faulty variant: no currency check
(* _focus_write_is_stale; also is_superseded's newer_human_event             *)
Stale(t) == lastHuman > said[t]

(* is_superseded, for the reactive cycle of a memory still there             *)
Superseded(t) == Stale(t)

ClosedAgain(t) == work[t].prior   \* faulty variant: a second CLEAR forgets the subject
(* What CLEAR records as closed                                              *)
ClosedSubject(t) == IF work[t].prior # None THEN work[t].prior ELSE work[t].priorClosed

(* memory.get_memory(id) is not None                                         *)
Known(id) == id \in memories

(* resolve_focus_transition, and the closed subject that goes with it        *)
After(t, move, named) ==
  LET w == work[t]
  IN  IF move = "CLEAR"
        THEN [focus |-> None, closed |-> ClosedSubject(t)]
      ELSE IF move = "REPLACE" /\ Known(named)
        THEN [focus |-> named, closed |-> None]
      ELSE [focus |-> w.prior, closed |-> IF w.prior # None THEN None ELSE w.priorClosed]

(* _apply_focus_transition                                                  *)
ApplyTransition(t, move, named) ==
  IF move = None \/ Stale(t)
    THEN UNCHANGED <<focus, closed, history>>
    ELSE LET a == After(t, move, named)
         IN  /\ focus' = a.focus
             /\ closed' = a.closed
             /\ author' = t
             /\ resolved' = IF move = "CLEAR" /\ work[t].prior # None THEN work[t].prior
                            ELSE IF a.focus # None THEN None ELSE resolved
             /\ lapsed' = IF move = "REPLACE" /\ a.focus = named THEN None ELSE lapsed

(* A result that speaks, or not, that proposes a transition, or none; or one *)
(* that failed.  _finish_mandatory, _finish_reactive.                        *)
Finish(t) ==
  /\ replay = {} /\ work[t].status = "PENDING"
  /\ work' = [work EXCEPT ![t] = NoWork]
  /\ \E action \in {"speak", "silent", "failed"},
        move \in {None, "KEEP", "REPLACE", "CLEAR"}, named \in Memory :
       LET delivers == action = "speak" /\ (work[t].cycle = "mandatory" \/ ~Superseded(t))
           moves    == delivers \/ (action = "silent" /\ work[t].cycle = "reactive")
       IN  /\ move # "REPLACE" => named = None
           /\ IF moves THEN ApplyTransition(t, move, named)
              ELSE UNCHANGED <<focus, closed, history>>
  /\ UNCHANGED <<now, said, reduced, lastHuman, memories, embedded,
                 proactive, loop>>

-----------------------------------------------------------------------------
(* Proactive messages about a memory.                                        *)

(* handle_stochastic_wake with an eligible candidate                          *)
Wake(c) ==
  /\ replay = {} /\ thought = Idle /\ c \in memories
  /\ row.status = "PENDING" => row.about # c     \* _suppressed: in flight
  /\ GateOpen(now) /\ ~OffTheFloor(c, now)
  /\ thought' = [about |-> c, at |-> now]
  /\ UNCHANGED <<now, turnState, conversation, embedded, row, loop, history>>

(* _finish_proactive: revalidation against the current state, then the row.  *)
FinishThought ==
  /\ replay = {} /\ thought # Idle
  /\ thought' = Idle
  /\ \E relation \in {"ADVANCE", "ORPHAN", "REPEAT"}, speaks \in BOOLEAN :
       row' = IF /\ speaks
                 /\ lastHuman <= thought.at
                 /\ GateOpen(now) /\ ~OffTheFloor(thought.about, now)
                 /\ ~Muted(relation, now)
                THEN [status |-> "PENDING", about |-> thought.about, at |-> now]
                ELSE row
  /\ UNCHANGED <<now, turnState, conversation, embedded, loop, history>>

DecidedAtCreation(c, at) == TRUE   \* faulty variant: no re-check at delivery
(* The checks of _pump_one_proactive before transport                        *)
MayDeliver(c, at) == GateOpen(at) /\ ~OffTheFloor(c, at)

(* _pump_one_proactive: the pass read its `at' when it began, maybe before it *)
(* suspended in an earlier broadcast.  A gate may refuse the row.            *)
Pump ==
  /\ row.status = "PENDING"
  /\ \E at \in row.at..now, refused \in BOOLEAN :
       row' = [NoRow EXCEPT !.status =
                 IF MayDeliver(row.about, at) /\ ~refused THEN "SENT" ELSE "EXPIRED"]
  /\ UNCHANGED <<now, turnState, conversation, embedded, thought, loop, history>>

Tick ==
  /\ now < MaxTime
  /\ now' = now + 1
  /\ UNCHANGED <<turnState, conversation, embedded, proactive, loop, history>>

-----------------------------------------------------------------------------
(* A new agent, or one that was just asked a question, answered it, and has   *)
(* the question as its focus.                                               *)
Init ==
  /\ now = 1
  /\ said = [t \in Turns |-> IF t = First THEN 1 ELSE 0]
  /\ reduced = {First} \ {None} /\ memories = reduced /\ embedded = reduced
  /\ lastHuman = (IF First = None THEN 0 ELSE 1)
  /\ focus = First /\ closed = None
  /\ work = [t \in Turns |-> NoWork]
  /\ thought = Idle /\ row = NoRow
  /\ waiting = {} /\ replay = {}
  /\ author = First /\ resolved = None /\ lapsed = None /\ failures = 0

Next ==
  \/ \E t \in Turns : Say(t) \/ Embed(t) \/ Finish(t) \/ Wake(t)
  \/ ReduceNext \/ ReduceRaises \/ Restart \/ ReplayNext
  \/ FinishThought \/ Pump \/ Tick

Spec == Init /\ [][Next]_vars

-----------------------------------------------------------------------------
(* Properties.                                                              *)

TypeOK ==
  /\ now \in 1..MaxTime
  /\ said \in [Turns -> 0..MaxTime]
  /\ reduced \subseteq Turns /\ lastHuman \in 0..MaxTime
  /\ focus \in memories \cup {None} /\ closed \in memories \cup {None}
  /\ memories \subseteq Turns /\ embedded \subseteq memories
  /\ work \in [Turns -> [status : {"none", "PENDING"}, cycle : {"none", "mandatory", "reactive"},
                         prior : Memory, priorClosed : Memory]]
  /\ thought \in [about : Memory, at : 0..MaxTime]
  /\ row \in [status : {"none", "PENDING", "SENT", "EXPIRED"}, about : Memory, at : 0..MaxTime]
  /\ waiting \subseteq Turns /\ replay \subseteq Turns
  /\ author \in Memory /\ resolved \in Memory /\ lapsed \in Memory
  /\ failures \in 0..MaxFailures

(* Focus currency (invariant 42b, _focus_write_is_stale): whatever turns and   *)
(* results interleave, the focus is what the newest reduced turn or its own   *)
(* result made it.  It rests on last_human_message_at being that turn's time, *)
(* which a late replay of a message whose reduction raised undoes.            *)
LatestTurnOwnsFocus ==
  reduced # {} =>
    /\ failures = 0 => lastHuman = said[Newest(reduced)]
    /\ lastHuman = said[Newest(reduced)] => author = Newest(reduced)

(* A subject the human closed is remembered until something reopens the floor *)
(* or a lull ends the window, however CLEAR, KEEP and acknowledgements        *)
(* follow each other (no reduction raising, so in the order they were said);  *)
(* and a live focus never stands beside a closed one.                        *)
CloseIsRemembered ==
  /\ focus # None => closed = None
  /\ (failures = 0 /\ resolved # None) => focus = None /\ closed = resolved

Transported == row.status = "PENDING" /\ row'.status = "SENT"

(* No unsolicited message while the human talks: at transport, every turn     *)
(* reduced so far is older than the active window, though the decision, the   *)
(* row and even the pump's pass may date from before the turn.               *)
QuietAfterHuman ==
  [][(Transported /\ failures = 0) => \A t \in reduced : now - said[t] > ActiveWithin]_vars

(* A resolved thread is not reopened (34.11): while the conversation is IDLE   *)
(* no message about the thread the human closed is transported, also one      *)
(* decided before it was closed.                                            *)
ResolvedStaysQuiet ==
  [][(Transported /\ failures = 0 /\ resolved # None /\ Mode(now) = "IDLE")
       => Relation(resolved, row.about) # "RELATED"]_vars

(* DESIGN 34.4: "a subject survives a lapse into DORMANT only if a new          *)
(* substantive memory re-establishes one".  Violated: the check-in that        *)
(* retires the subject makes a model call, whose KEEP restores it.            *)
LapsedStaysGone == lapsed # None => focus # lapsed
=============================================================================
