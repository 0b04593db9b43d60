--------------------------- MODULE DiscourseProofs ---------------------------
(***************************************************************************)
(* TLAPS proofs about Discourse, for any turns, threads, windows and bounds:  *)
(* type correctness, who owns the focus, that a close is remembered, and what  *)
(* a proactive message may not be delivered about, or during.                *)
(***************************************************************************)
EXTENDS Discourse, TLAPS

Held == memories \cup {None}   \* what a focus may be
Work == [status : {"none", "PENDING"}, cycle : {"none", "mandatory", "reactive"},
         prior : Memory, priorClosed : Memory]

(* A snapshot holds memories that exist; a turn with work is reduced; what     *)
(* waits is accepted and not reduced; the loop starts when the replay is done. *)
SnapshotInv == \A t \in Turns : work[t].prior \in Held /\ work[t].priorClosed \in Held
PendingInv  == \A t \in Turns : work[t].status = "PENDING" => t \in reduced
QueueInv    == /\ reduced \subseteq Accepted /\ waiting \cup replay \subseteq Accepted \ reduced
               /\ replay = {} \/ waiting = {}
Types == TypeOK /\ SnapshotInv /\ PendingInv /\ QueueInv

-----------------------------------------------------------------------------
(* Types.                                                                   *)

LEMMA InitTypes == Init => Types
<1> SUFFICES ASSUME Init PROVE Types
  OBVIOUS
<1>1. reduced \subseteq Turns /\ memories \subseteq Turns /\ embedded \subseteq memories
      /\ focus \in Held /\ closed \in Held /\ author \in Memory
  BY FirstAssumption, NoneAssumption DEF Init, Held, None, Memory
<1>2. said \in [Turns -> 0..MaxTime] /\ now \in 1..MaxTime /\ lastHuman \in 0..MaxTime
      /\ failures \in 0..MaxFailures
  BY BoundsAssumption DEF Init
<1>3. work \in [Turns -> Work] /\ SnapshotInv /\ PendingInv
  BY DEF Init, Work, NoWork, Memory, SnapshotInv, PendingInv, Held
<1>4. /\ thought \in [about : Memory, at : 0..MaxTime]
      /\ row \in [status : {"none", "PENDING", "SENT", "EXPIRED"}, about : Memory, at : 0..MaxTime]
  BY BoundsAssumption DEF Init, Idle, NoRow, Memory
<1>5. reduced \subseteq Accepted /\ waiting = {} /\ replay = {}
  <2>1. reduced = {First} \ {None}
    BY DEF Init
  <2>2. \A t \in reduced : t \in Turns /\ said[t] = 1
    BY <2>1, FirstAssumption, NoneAssumption DEF Init, None
  <2>3. waiting = {} /\ replay = {}
    BY DEF Init
  <2> QED
    BY <2>2, <2>3 DEF Accepted
<1>6. resolved \in Memory /\ lapsed \in Memory
  BY DEF Init, Memory
<1> QED
  BY <1>1, <1>2, <1>3, <1>4, <1>5, <1>6 DEF Types, TypeOK, Held, Work, QueueInv

(* What handle_human_message leaves, wherever its event came from.            *)
LEMMA HumanTypes ==
  ASSUME Types, NEW t \in Accepted \ reduced, ReduceHuman(t)
  PROVE  /\ reduced' = reduced \cup {t} /\ memories' \subseteq Turns /\ memories \subseteq memories'
         /\ focus' \in Held' /\ closed' \in Held' /\ resolved' \in Memory /\ lapsed' \in Memory
         /\ work' \in [Turns -> Work] /\ SnapshotInv' /\ PendingInv'
         /\ lastHuman' = said[t] /\ author' = t
         /\ UNCHANGED <<now, said, embedded, thought, row>>
<1>0. t \in Turns
  BY DEF Accepted
<1>1. reduced' = reduced \cup {t} /\ lastHuman' = said[t] /\ author' = t
      /\ UNCHANGED <<now, said, embedded, thought, row>>
  BY DEF ReduceHuman, proactive
<1>2. PICK class \in Class, remembered \in BOOLEAN : \E cycle \in Cycles(class) :
        /\ memories' = IF remembered THEN memories \cup {t} ELSE memories
        /\ focus' = NextFocus(t, class, remembered)
        /\ closed' = NextClosed(t, focus')
        /\ resolved' = StillResolved(focus', t)
        /\ lapsed' = Lapses(focus')
        /\ work' = IF cycle = "none" THEN work
                   ELSE [work EXCEPT ![t] = [status |-> "PENDING", cycle |-> cycle,
                                             prior |-> focus, priorClosed |-> closed]]
  BY DEF ReduceHuman
<1>3. /\ memories \subseteq Turns /\ focus \in Held /\ closed \in Held
      /\ resolved \in Memory /\ lapsed \in Memory /\ work \in [Turns -> Work]
      /\ SnapshotInv /\ PendingInv
  BY DEF Types, TypeOK, Held, Work
<1>4. memories' \subseteq Turns /\ memories \subseteq memories' /\ (remembered => t \in memories')
  BY <1>0, <1>2, <1>3
<1>5. focus' \in Held'
  BY <1>2, <1>3, <1>4 DEF NextFocus, Held
<1>6. closed' \in Held' /\ resolved' \in Memory /\ lapsed' \in Memory
  BY <1>2, <1>3, <1>4 DEF NextClosed, StillResolved, Lapses, Held, Memory
<1>7. work' \in [Turns -> Work]
  <2>1. focus \in Memory /\ closed \in Memory
    BY <1>3 DEF Held, Memory
  <2>2. \A cycle \in Cycles(class) : cycle \in {"none", "mandatory", "reactive"}
    BY DEF Cycles
  <2>3. \A cycle \in Cycles(class) : [status |-> "PENDING", cycle |-> cycle,
                                      prior |-> focus, priorClosed |-> closed] \in Work
    BY <2>1, <2>2 DEF Work
  <2> QED
    BY <1>2, <1>3, <2>3
<1>8. SnapshotInv'
  BY <1>0, <1>2, <1>3, <1>4 DEF SnapshotInv, Held
<1>9. PendingInv'
  BY <1>0, <1>1, <1>2, <1>3 DEF PendingInv
<1> QED
  BY <1>1, <1>4, <1>5, <1>6, <1>7, <1>8, <1>9

(* What a result writes to the focus.                                        *)
LEMMA TransitionTypes ==
  ASSUME Types, NEW t \in Turns, NEW move, NEW named, ApplyTransition(t, move, named)
  PROVE  focus' \in Held /\ closed' \in Held /\ author' \in Memory /\ resolved' \in Memory
         /\ lapsed' \in Memory
<1>1. /\ focus \in Held /\ closed \in Held /\ author \in Memory /\ resolved \in Memory
      /\ lapsed \in Memory /\ work[t].prior \in Held /\ work[t].priorClosed \in Held
      /\ Held \subseteq Memory
  BY DEF Types, TypeOK, SnapshotInv, Held, Memory
<1>2. CASE UNCHANGED <<focus, closed, history>>
  BY <1>1, <1>2 DEF history
<1>3. CASE ~(move = None \/ Stale(t))
  <2>1. After(t, move, named).focus \in Held /\ After(t, move, named).closed \in Held
    BY <1>1 DEF After, ClosedSubject, Known, Held
  <2>2. /\ focus' = After(t, move, named).focus /\ closed' = After(t, move, named).closed
        /\ author' = t
        /\ resolved' \in {work[t].prior, None, resolved} /\ lapsed' \in {None, lapsed}
    BY <1>3 DEF ApplyTransition
  <2> QED
    BY <1>1, <2>1, <2>2 DEF Memory
<1> QED
  BY <1>2, <1>3 DEF ApplyTransition

LEMMA StepTypes == Types /\ [Next]_vars => Types'
<1> SUFFICES ASSUME Types, [Next]_vars PROVE Types'
  OBVIOUS
<1>0. TypeOK /\ SnapshotInv /\ PendingInv /\ QueueInv
  BY DEF Types
<1>1. ASSUME NEW t \in Turns, Say(t) PROVE Types'
  <2>1. said' \in [Turns -> 0..MaxTime] /\ Accepted' = Accepted \cup {t} /\ t \notin Accepted
    BY <1>0, <1>1, BoundsAssumption DEF Say, TypeOK, Accepted
  <2>2. t \notin reduced /\ reduced' = reduced /\ waiting' = waiting \cup {t}
        /\ replay' = replay /\ replay = {}
    BY <1>0, <1>1, <2>1 DEF Say, QueueInv
  <2>3. QueueInv'
    BY <1>0, <2>1, <2>2 DEF QueueInv
  <2> QED
    BY <1>0, <1>1, <2>1, <2>3
       DEF Types, TypeOK, Say, SnapshotInv, PendingInv, Held, conversation, proactive, history
<1>2. ASSUME NEW t \in Accepted \ reduced, ReduceHuman(t), failures' = failures,
             waiting' \cup replay' \subseteq (waiting \cup replay) \ {t},
             replay' = {} \/ waiting' = {}
      PROVE  Types'
  <2>1. t \in Turns /\ said[t] \in 0..MaxTime
    BY <1>0 DEF Accepted, TypeOK
  <2>2. /\ reduced' = reduced \cup {t} /\ memories' \subseteq Turns /\ memories \subseteq memories'
        /\ focus' \in Held' /\ closed' \in Held' /\ resolved' \in Memory /\ lapsed' \in Memory
        /\ work' \in [Turns -> Work] /\ SnapshotInv' /\ PendingInv'
        /\ lastHuman' = said[t] /\ author' = t
        /\ UNCHANGED <<now, said, embedded, thought, row>>
    BY <1>2, HumanTypes
  <2>3. QueueInv'
    BY <1>0, <1>2, <2>1, <2>2 DEF QueueInv, Accepted
  <2>4. TypeOK'
    BY <1>0, <1>2, <2>1, <2>2 DEF TypeOK, Held, Work, Memory
  <2> QED
    BY <2>2, <2>3, <2>4 DEF Types
<1>3. CASE ReduceNext
  BY <1>0, <1>2, <1>3 DEF ReduceNext, Oldest, QueueInv
<1>4. CASE ReplayNext
  <2>1. PICK t \in Oldest(replay) : ReduceHuman(t) /\ replay' = replay \ {t}
    BY <1>4 DEF ReplayNext
  <2>2. t \in replay /\ waiting' = waiting /\ failures' = failures
    BY <1>4, <2>1 DEF ReplayNext, Oldest
  <2>3. t \in Accepted \ reduced
    BY <1>0, <2>2 DEF QueueInv
  <2>4. waiting = {}
    BY <1>0, <2>2 DEF QueueInv
  <2> QED
    BY <1>2, <2>1, <2>2, <2>3, <2>4
<1>5. CASE ReduceRaises
  <2>1. waiting' \subseteq waiting /\ failures' \in 0..MaxFailures
    BY <1>0, <1>5, BoundsAssumption DEF ReduceRaises, TypeOK
  <2> QED
    BY <1>0, <1>5, <2>1
       DEF Types, TypeOK, ReduceRaises, SnapshotInv, PendingInv, QueueInv, Accepted, Held,
           turnState, conversation, proactive, history
<1>6. CASE Restart
  BY <1>0, <1>6
     DEF Types, TypeOK, Restart, SnapshotInv, PendingInv, QueueInv, Accepted, Held,
         turnState, conversation, proactive, history
<1>7. ASSUME NEW m \in Turns, Embed(m) PROVE Types'
  BY <1>0, <1>7
     DEF Types, TypeOK, Embed, SnapshotInv, PendingInv, QueueInv, Accepted, Held,
         turnState, conversation, proactive, loop, history
<1>8. ASSUME NEW t \in Turns, Finish(t) PROVE Types'
  <2>1. /\ work' = [work EXCEPT ![t] = NoWork]
        /\ UNCHANGED <<now, said, reduced, lastHuman, memories, embedded, proactive, loop>>
    BY <1>8 DEF Finish
  <2>2. focus' \in Held /\ closed' \in Held /\ author' \in Memory /\ resolved' \in Memory
        /\ lapsed' \in Memory
    <3>1. CASE UNCHANGED <<focus, closed, history>>
      BY <1>0, <3>1 DEF TypeOK, Held, history
    <3>2. CASE \E move, named : ApplyTransition(t, move, named)
      BY <3>2, TransitionTypes
    <3> QED
      BY <1>8, <3>1, <3>2 DEF Finish
  <2>3. work' \in [Turns -> Work] /\ SnapshotInv' /\ PendingInv'
    BY <1>0, <2>1 DEF TypeOK, SnapshotInv, PendingInv, NoWork, Work, Memory, Held
  <2>4. TypeOK'
    BY <1>0, <2>1, <2>2, <2>3 DEF TypeOK, Work, Held, proactive, loop
  <2> QED
    BY <1>0, <2>1, <2>3, <2>4 DEF Types, QueueInv, Accepted, loop
<1>9. ASSUME TypeOK',
             UNCHANGED <<said, reduced, memories, embedded, work, waiting, replay>>
      PROVE  Types'
  BY <1>0, <1>9 DEF Types, SnapshotInv, PendingInv, QueueInv, Accepted, Held
<1>10. ASSUME NEW c \in Turns, Wake(c) PROVE Types'
  <2>1. thought' \in [about : Memory, at : 0..MaxTime]
    BY <1>0, <1>10 DEF Wake, TypeOK, Memory
  <2> QED
    BY <1>0, <1>9, <1>10, <2>1 DEF TypeOK, Wake, turnState, conversation, loop, history
<1>11. CASE FinishThought
  <2>1. thought' = Idle /\ row' \in [status : {"none", "PENDING", "SENT", "EXPIRED"},
                                     about : Memory, at : 0..MaxTime]
    BY <1>0, <1>11 DEF FinishThought, TypeOK
  <2>2. Idle \in [about : Memory, at : 0..MaxTime]
    BY BoundsAssumption DEF Idle, Memory
  <2> QED
    BY <1>0, <1>9, <1>11, <2>1, <2>2
       DEF TypeOK, FinishThought, turnState, conversation, loop, history
<1>12. CASE Pump
  <2>1. row' \in [status : {"none", "PENDING", "SENT", "EXPIRED"}, about : Memory, at : 0..MaxTime]
    BY <1>12, BoundsAssumption DEF Pump, NoRow, Memory
  <2> QED
    BY <1>0, <1>9, <1>12, <2>1 DEF TypeOK, Pump, turnState, conversation, loop, history
<1>13. CASE Tick
  <2>1. now' \in 1..MaxTime
    BY <1>0, <1>13, BoundsAssumption DEF Tick, TypeOK
  <2> QED
    BY <1>0, <1>9, <1>13, <2>1 DEF TypeOK, Tick, turnState, conversation, proactive, loop, history
<1>14. CASE UNCHANGED vars
  BY <1>0, <1>9, <1>14 DEF TypeOK, vars, conversation
<1> QED
  BY <1>1, <1>3, <1>4, <1>5, <1>6, <1>7, <1>8, <1>10, <1>11, <1>12, <1>13, <1>14 DEF Next

LEMMA TypesHold == Spec => []Types
BY InitTypes, StepTypes, PTL DEF Spec

(* Every reachable state is well typed: the focus and the closed subject are   *)
(* always memories that exist.                                              *)
THEOREM TypeCorrect == Spec => []TypeOK
<1>1. Types => TypeOK
  BY DEF Types
<1> QED
  BY <1>1, TypesHold, PTL

-----------------------------------------------------------------------------
(* The focus and the closed subject.                                         *)

(* Timestamps order the turns.  While no reduction has raised, turns are      *)
(* reduced in that order, and lastHuman is the newest one's.                  *)
Order  == /\ \A t, u \in Accepted : said[t] = said[u] => t = u
          /\ \A t \in Turns : said[t] <= now
Newer  == failures = 0 => \A r \in reduced, u \in Accepted \ reduced : said[r] < said[u]
Queued == failures = 0 => Accepted \ reduced \subseteq waiting \cup replay
IsNewest(r) == r \in reduced /\ \A u \in reduced : said[u] <= said[r]
LastInv ==
  reduced # {} =>
    /\ \E r \in reduced : IsNewest(r) /\ (failures = 0 => lastHuman = said[r])
    /\ author \in reduced /\ lastHuman <= said[author]
(* The one result that may still write carries the closed subject.            *)
CarriesClose(t) == work[t].prior = None /\ work[t].priorClosed = resolved
CarryInv ==
  (failures = 0 /\ resolved # None)
    => \A t \in Turns : (work[t].status = "PENDING" /\ ~Stale(t)) => CarriesClose(t)
FocusInv == Order /\ Newer /\ Queued /\ LastInv /\ CloseIsRemembered /\ CarryInv

LEMMA InitFocus == Init => FocusInv
<1> SUFFICES ASSUME Init PROVE FocusInv
  OBVIOUS
<1>1. reduced = {First} \ {None} /\ waiting = {} /\ replay = {} /\ author = First
      /\ closed = None /\ resolved = None /\ now = 1
  BY DEF Init
<1>2. \A t \in Turns : said[t] = IF t = First THEN 1 ELSE 0
  BY DEF Init
<1>3. Accepted = reduced
  <2>1. \A t \in Accepted : t = First /\ t \in Turns
    <3>1. \A t \in Turns : t # First => said[t] = 0
      BY <1>2
    <3>2. \A t \in Accepted : t \in Turns /\ said[t] # 0
      BY DEF Accepted
    <3> QED
      BY <3>1, <3>2
  <2>2. \A t \in reduced : t \in Turns /\ said[t] = 1
    BY <1>1, <1>2, FirstAssumption DEF None
  <2>3. reduced \subseteq Accepted
    BY <2>2 DEF Accepted
  <2> QED
    BY <1>1, <2>1, <2>3, NoneAssumption DEF None
<1>4. Order
  BY <1>1, <1>2, <1>3 DEF Order
<1>5. LastInv
  <2> SUFFICES ASSUME reduced # {} PROVE LastInv
    BY DEF LastInv
  <2>1. First \in Turns /\ First # None /\ reduced = {First} /\ said[First] = 1
    BY <1>1, <1>2, FirstAssumption DEF None
  <2>2. lastHuman = 1
    BY <2>1 DEF Init
  <2>3. IsNewest(First)
    BY <2>1 DEF IsNewest
  <2> QED
    BY <1>1, <2>1, <2>2, <2>3 DEF LastInv
<1> QED
  BY <1>1, <1>3, <1>4, <1>5 DEF FocusInv, Newer, Queued, CloseIsRemembered, CarryInv

(* What a turn's reduction keeps, in whatever order it comes if one raised.    *)
LEMMA HumanFocus ==
  ASSUME Types, FocusInv, NEW t \in Accepted \ reduced, ReduceHuman(t), failures' = failures,
         failures = 0 => \A u \in Accepted \ reduced : said[t] <= said[u],
         (waiting \cup replay) \ {t} \subseteq waiting' \cup replay'
  PROVE  FocusInv'
<1>0. /\ t \in Turns /\ t \in Accepted /\ t \notin reduced
      /\ said \in [Turns -> 0..MaxTime] /\ reduced \subseteq Accepted /\ failures \in 0..MaxFailures
      /\ MaxTime \in Nat /\ MaxFailures \in Nat /\ None \notin Turns
      /\ PendingInv
  BY BoundsAssumption, NoneAssumption DEF Types, TypeOK, QueueInv, Accepted, None
<1>1. \A u \in Accepted : said[u] \in Nat /\ u \in Turns
  BY <1>0 DEF Accepted
<1>2. /\ reduced' = reduced \cup {t} /\ lastHuman' = said[t] /\ author' = t
      /\ said' = said /\ now' = now /\ Accepted' = Accepted
  BY DEF ReduceHuman, Accepted
<1>3. Order'
  BY <1>2 DEF FocusInv, Order
<1>4. failures = 0 => \A r \in reduced : said[r] < said[t]
  BY DEF FocusInv, Newer
<1>5. Newer'
  <2> SUFFICES ASSUME failures = 0, NEW r \in reduced \cup {t}, NEW u \in Accepted \ (reduced \cup {t})
      PROVE  said[r] < said[u]
    BY <1>2 DEF Newer
  <2>1. CASE r \in reduced
    BY <2>1 DEF FocusInv, Newer
  <2>2. CASE r = t
    <3>1. said[t] <= said[u] /\ said[t] # said[u]
      BY <1>0 DEF FocusInv, Order
    <3> QED
      BY <1>0, <1>1, <2>2, <3>1
  <2> QED
    BY <2>1, <2>2
<1>6. Queued'
  BY <1>2 DEF FocusInv, Queued
<1>7. LastInv'
  <2>1. \E r \in reduced \cup {t} : /\ \A u \in reduced \cup {t} : said[u] <= said[r]
                                    /\ failures = 0 => said[t] = said[r]
    <3>1. CASE \A u \in reduced : said[u] <= said[t]
      BY <1>0, <1>1, <3>1
    <3>2. CASE ~ \A u \in reduced : said[u] <= said[t]
      <4>1. PICK v \in reduced : ~(said[v] <= said[t])
        BY <3>2
      <4>2. PICK r \in reduced : \A u \in reduced : said[u] <= said[r]
        BY <4>1 DEF FocusInv, LastInv, IsNewest
      <4>3. said[v] \in Nat /\ said[t] \in Nat /\ said[r] \in Nat /\ said[v] <= said[r]
        BY <1>0, <1>1, <4>1, <4>2
      <4>4. failures # 0
        BY <1>4, <4>1, <4>3
      <4> QED
        BY <4>1, <4>2, <4>3, <4>4
    <3> QED
      BY <3>1, <3>2
  <2> QED
    BY <1>0, <1>1, <1>2, <2>1 DEF LastInv, IsNewest
<1>8. PICK class \in Class, remembered \in BOOLEAN : \E cycle \in Cycles(class) :
        /\ focus' = NextFocus(t, class, remembered)
        /\ closed' = NextClosed(t, focus')
        /\ resolved' = StillResolved(focus', t)
        /\ work' = IF cycle = "none" THEN work
                   ELSE [work EXCEPT ![t] = [status |-> "PENDING", cycle |-> cycle,
                                             prior |-> focus, priorClosed |-> closed]]
  BY DEF ReduceHuman
<1>9. CloseIsRemembered'
  <2>1. focus' # None => closed' = None
    BY <1>8 DEF NextClosed
  <2>2. ASSUME failures = 0, resolved' # None PROVE focus' = None /\ closed' = resolved'
    BY <1>8, <2>2 DEF NextClosed, StillResolved, FocusInv, CloseIsRemembered
  <2> QED
    BY <2>1, <2>2 DEF CloseIsRemembered
<1>10. CarryInv'
  <2> SUFFICES ASSUME failures = 0, resolved' # None, NEW u \in Turns,
                      work'[u].status = "PENDING", ~(lastHuman' > said'[u])
      PROVE  work'[u].prior = None /\ work'[u].priorClosed = resolved'
    BY DEF CarryInv, CarriesClose, Stale
  <2>1. resolved' = resolved /\ focus = None /\ closed = resolved
    BY <1>8 DEF StillResolved, NextFocus, FocusInv, CloseIsRemembered
  <2>2. work[u].status = "PENDING" => u \in reduced
    BY <1>0 DEF PendingInv
  <2>3. CASE u # t
    <3>1. work'[u] = work[u]
      BY <1>8, <2>3
    <3>2. said[u] < said[t] /\ said[u] \in Nat /\ said[t] \in Nat
      BY <1>0, <1>1, <1>4, <2>2, <3>1
    <3> QED
      BY <1>2, <3>2
  <2>4. CASE u = t
    <3>1. work \in [Turns -> Work]
      BY DEF Types, TypeOK, Work
    <3>2. work' # work
      BY <1>0, <2>2, <2>4
    <3> QED
      BY <1>0, <1>8, <2>1, <2>4, <3>1, <3>2
  <2> QED
    BY <2>3, <2>4
<1> QED
  BY <1>3, <1>5, <1>6, <1>7, <1>9, <1>10 DEF FocusInv

(* Two results that are both current would be of one turn.                    *)
LEMMA OneCurrent ==
  ASSUME Types, FocusInv, failures = 0, NEW t \in reduced, NEW u \in reduced, ~Stale(t), ~Stale(u)
  PROVE  t = u
<1>1. PICK r \in reduced : (\A v \in reduced : said[v] <= said[r]) /\ lastHuman = said[r]
  BY DEF FocusInv, LastInv, IsNewest
<1>2. \A v \in reduced : said[v] \in Nat /\ v \in Accepted
  BY BoundsAssumption DEF Types, TypeOK, QueueInv, Accepted
<1>3. said[t] = said[r] /\ said[u] = said[r]
  BY <1>1, <1>2 DEF Stale
<1> QED
  BY <1>2, <1>3 DEF FocusInv, Order

(* What the result of a turn's model call keeps.                              *)
LEMMA FinishFocus ==
  ASSUME Types, FocusInv, NEW t \in Turns, Finish(t)
  PROVE  FocusInv'
<1>1. /\ work[t].status = "PENDING" /\ work' = [work EXCEPT ![t] = NoWork]
      /\ UNCHANGED <<now, said, reduced, lastHuman, memories, waiting, replay, failures>>
  BY DEF Finish, loop
<1>2. /\ work \in [Turns -> Work] /\ said \in [Turns -> 0..MaxTime] /\ reduced \subseteq Turns
      /\ memories \subseteq Turns /\ lastHuman \in 0..MaxTime /\ None \notin Turns
      /\ MaxTime \in Nat /\ t \in reduced /\ PendingInv
  BY <1>1, BoundsAssumption, NoneAssumption DEF Types, TypeOK, Work, PendingInv, None
<1>3. Order' /\ Newer' /\ Queued'
  BY <1>1 DEF FocusInv, Order, Newer, Queued, Accepted
<1>4. \A u \in Turns : work'[u].status = "PENDING" => u # t /\ work'[u] = work[u] /\ u \in reduced
  BY <1>1, <1>2 DEF NoWork, PendingInv
<1>5. CASE UNCHANGED <<focus, closed, history>>
  <2>1. LastInv' /\ CloseIsRemembered'
    BY <1>1, <1>5 DEF FocusInv, LastInv, IsNewest, CloseIsRemembered, history
  <2>2. CarryInv'
    BY <1>1, <1>4, <1>5 DEF FocusInv, CarryInv, CarriesClose, Stale, history
  <2> QED
    BY <1>3, <2>1, <2>2 DEF FocusInv
<1>6. ASSUME NEW move, NEW named, ApplyTransition(t, move, named), ~(move = None \/ Stale(t))
      PROVE  FocusInv'
  <2>1. /\ focus' = After(t, move, named).focus /\ closed' = After(t, move, named).closed
        /\ author' = t
        /\ resolved' = IF move = "CLEAR" /\ work[t].prior # None THEN work[t].prior
                       ELSE IF After(t, move, named).focus # None THEN None ELSE resolved
    BY <1>6 DEF ApplyTransition
  <2>2. lastHuman <= said[t] /\ ~Stale(t)
    BY <1>2, <1>6 DEF Stale
  <2>3. LastInv'
    BY <1>1, <1>2, <2>1, <2>2 DEF FocusInv, LastInv, IsNewest
  <2>4. After(t, move, named).focus # None => After(t, move, named).closed = None
    BY <1>2 DEF After
  <2>5. ASSUME failures = 0, resolved # None PROVE CarriesClose(t)
    BY <1>1, <2>2, <2>5 DEF FocusInv, CarryInv
  <2>6. ASSUME failures = 0, resolved' # None
        PROVE  focus' = None /\ closed' = resolved'
    <3>1. CASE move = "CLEAR" /\ work[t].prior # None
      BY <2>1, <3>1 DEF After, ClosedSubject
    <3>2. CASE ~(move = "CLEAR" /\ work[t].prior # None)
      <4>1. After(t, move, named).focus = None /\ resolved' = resolved /\ resolved # None
        BY <2>1, <2>6, <3>2
      <4>2. work[t].prior = None /\ work[t].priorClosed = resolved
        BY <2>5, <2>6, <4>1 DEF CarriesClose
      <4>3. ~(move = "REPLACE" /\ Known(named)) \/ move = "CLEAR"
        BY <1>2, <4>1 DEF After, Known
      <4>4. After(t, move, named).closed = resolved
        BY <4>2, <4>3 DEF After, ClosedSubject
      <4> QED
        BY <2>1, <4>1, <4>4
    <3> QED
      BY <3>1, <3>2
  <2>7. CloseIsRemembered'
    BY <1>1, <2>1, <2>4, <2>6 DEF CloseIsRemembered
  <2>8. CarryInv'
    <3>1. ASSUME failures = 0, NEW u \in Turns, work'[u].status = "PENDING", ~Stale(u)
          PROVE  FALSE
      BY <1>2, <1>4, <2>2, <3>1, OneCurrent
    <3> QED
      BY <1>1, <3>1 DEF CarryInv, Stale
  <2> QED
    BY <1>3, <2>3, <2>7, <2>8 DEF FocusInv
<1>7. UNCHANGED <<focus, closed, history>> \/ \E move, named : ApplyTransition(t, move, named)
  BY DEF Finish
<1>8. ASSUME NEW move, NEW named, ApplyTransition(t, move, named), move = None \/ Stale(t)
      PROVE  UNCHANGED <<focus, closed, history>>
  BY <1>8 DEF ApplyTransition
<1> QED
  BY <1>5, <1>6, <1>7, <1>8

LEMMA StepFocus == Types /\ FocusInv /\ [Next]_vars => FocusInv'
<1> SUFFICES ASSUME Types, FocusInv, [Next]_vars PROVE FocusInv'
  OBVIOUS
<1>0. /\ Order /\ Newer /\ Queued /\ LastInv /\ CloseIsRemembered /\ CarryInv
      /\ QueueInv /\ PendingInv /\ reduced \subseteq Accepted
      /\ said \in [Turns -> 0..MaxTime] /\ now \in 1..MaxTime /\ failures \in 0..MaxFailures
      /\ MaxTime \in Nat /\ MaxFailures \in Nat
  BY BoundsAssumption DEF FocusInv, Types, TypeOK, QueueInv
<1>1. ASSUME NEW t \in Turns, Say(t) PROVE FocusInv'
  <2>1. /\ said' = [said EXCEPT ![t] = now] /\ said[t] = 0 /\ \A u \in Turns : said[u] # now
        /\ waiting' = waiting \cup {t}
        /\ UNCHANGED <<now, lastHuman, focus, closed, reduced, work, replay, failures,
                       author, resolved>>
    BY <1>1 DEF Say, conversation, history
  <2>2. Accepted' = Accepted \cup {t} /\ t \notin Accepted /\ t \notin reduced
    BY <1>0, <2>1 DEF Accepted
  <2>3. \A u \in Accepted : said'[u] = said[u] /\ said[u] < now /\ said[u] \in Nat /\ u \in Turns
    BY <1>0, <2>1, <2>2 DEF Order, Accepted
  <2>4. said'[t] = now
    BY <1>0, <2>1
  <2>5. Order'
    <3>1. \A u \in Turns : said'[u] <= now
      BY <1>0, <2>1 DEF Order
    <3>2. \A u, v \in Accepted \cup {t} : said'[u] = said'[v] => u = v
      BY <1>0, <2>3, <2>4 DEF Order
    <3> QED
      BY <2>1, <2>2, <3>1, <3>2 DEF Order
  <2>6. Newer'
    BY <1>0, <2>1, <2>2, <2>3, <2>4 DEF Newer
  <2>7. Queued'
    BY <1>0, <2>1, <2>2 DEF Queued
  <2>8. LastInv'
    BY <1>0, <2>1, <2>3 DEF LastInv, IsNewest
  <2>9. CloseIsRemembered' /\ CarryInv'
    <3>1. \A u \in Turns : work[u].status = "PENDING" => said'[u] = said[u]
      BY <1>0, <2>3 DEF PendingInv
    <3> QED
      BY <1>0, <2>1, <3>1 DEF CloseIsRemembered, CarryInv, CarriesClose, Stale
  <2> QED
    BY <2>5, <2>6, <2>7, <2>8, <2>9 DEF FocusInv
<1>2. ASSUME UNCHANGED <<said, reduced, lastHuman, focus, closed, work, author, resolved>>,
             now <= now', failures' = 0 => failures = 0,
             failures' = 0 => waiting \cup replay \subseteq waiting' \cup replay'
                              \/ Accepted \ reduced \subseteq replay',
             now' \in Nat
      PROVE  FocusInv'
  <2>1. Order'
    <3>1. \A u \in Turns : said[u] <= now'
      BY <1>0, <1>2 DEF Order
    <3> QED
      BY <1>0, <1>2, <3>1 DEF Order, Accepted
  <2>2. Newer' /\ Queued'
    BY <1>0, <1>2 DEF Newer, Queued, Accepted
  <2>3. LastInv' /\ CloseIsRemembered' /\ CarryInv'
    BY <1>0, <1>2 DEF LastInv, IsNewest, CloseIsRemembered, CarryInv, CarriesClose, Stale
  <2> QED
    BY <2>1, <2>2, <2>3 DEF FocusInv
<1>3. CASE ReduceNext
  <2>1. PICK t \in Oldest(waiting) : ReduceHuman(t) /\ waiting' = waiting \ {t}
    BY <1>3 DEF ReduceNext
  <2>2. t \in waiting /\ replay = {} /\ replay' = replay /\ failures' = failures
        /\ \A u \in waiting : said[t] <= said[u]
    BY <1>3, <2>1 DEF ReduceNext, Oldest
  <2>3. t \in Accepted \ reduced
    BY <1>0, <2>2 DEF QueueInv
  <2>4. failures = 0 => \A u \in Accepted \ reduced : said[t] <= said[u]
    BY <1>0, <2>2 DEF Queued
  <2>5. (waiting \cup replay) \ {t} \subseteq waiting' \cup replay'
    BY <2>1, <2>2
  <2> QED
    BY <2>1, <2>2, <2>3, <2>4, <2>5, HumanFocus
<1>4. CASE ReplayNext
  <2>1. PICK t \in Oldest(replay) : ReduceHuman(t) /\ replay' = replay \ {t}
    BY <1>4 DEF ReplayNext
  <2>2. t \in replay /\ waiting' = waiting /\ failures' = failures
        /\ \A u \in replay : said[t] <= said[u]
    BY <1>4, <2>1 DEF ReplayNext, Oldest
  <2>3. t \in Accepted \ reduced /\ waiting = {}
    BY <1>0, <2>2 DEF QueueInv
  <2>4. failures = 0 => \A u \in Accepted \ reduced : said[t] <= said[u]
    BY <1>0, <2>2, <2>3 DEF Queued
  <2>5. (waiting \cup replay) \ {t} \subseteq waiting' \cup replay'
    BY <2>1, <2>2
  <2> QED
    BY <2>1, <2>2, <2>3, <2>4, <2>5, HumanFocus
<1>5. CASE ReduceRaises
  BY <1>0, <1>2, <1>5 DEF ReduceRaises, turnState, conversation, history
<1>6. CASE Restart
  BY <1>0, <1>2, <1>6 DEF Restart, turnState, conversation, history
<1>7. ASSUME NEW m \in Turns, Embed(m) PROVE FocusInv'
  BY <1>0, <1>2, <1>7 DEF Embed, turnState, conversation, loop, history
<1>8. ASSUME NEW t \in Turns, Finish(t) PROVE FocusInv'
  BY <1>8, FinishFocus
<1>9. ASSUME NEW c \in Turns, Wake(c) PROVE FocusInv'
  BY <1>0, <1>2, <1>9 DEF Wake, turnState, conversation, loop, history
<1>10. CASE FinishThought
  BY <1>0, <1>2, <1>10 DEF FinishThought, turnState, conversation, loop, history
<1>11. CASE Pump
  BY <1>0, <1>2, <1>11 DEF Pump, turnState, conversation, loop, history
<1>12. CASE Tick
  BY <1>0, <1>2, <1>12 DEF Tick, turnState, conversation, loop, history
<1>13. CASE UNCHANGED vars
  BY <1>0, <1>2, <1>13 DEF vars, conversation
<1> QED
  BY <1>1, <1>3, <1>4, <1>5, <1>6, <1>7, <1>8, <1>9, <1>10, <1>11, <1>12, <1>13 DEF Next

LEMMA FocusHolds == Spec => [](Types /\ FocusInv)
BY InitTypes, InitFocus, StepTypes, StepFocus, PTL DEF Spec

(* Focus currency for any number of turns, results and restarts: the focus is *)
(* what the newest reduced turn or its own result made it.                    *)
THEOREM LatestTurnOwnsFocusHolds == Spec => []LatestTurnOwnsFocus
<1>1. Types /\ FocusInv => LatestTurnOwnsFocus
  <2> SUFFICES ASSUME Types, FocusInv, reduced # {}
      PROVE  /\ failures = 0 => lastHuman = said[Newest(reduced)]
             /\ lastHuman = said[Newest(reduced)] => author = Newest(reduced)
    BY DEF LatestTurnOwnsFocus
  <2>1. PICK r \in reduced : (\A u \in reduced : said[u] <= said[r])
                             /\ (failures = 0 => lastHuman = said[r])
    BY DEF FocusInv, LastInv, IsNewest
  <2>2. \A u \in reduced : said[u] \in Nat /\ u \in Accepted
    BY BoundsAssumption DEF Types, TypeOK, QueueInv, Accepted
  <2>3. Newest(reduced) \in reduced /\ \A u \in reduced : said[u] <= said[Newest(reduced)]
    BY <2>1 DEF Newest
  <2>4. said[Newest(reduced)] = said[r]
    BY <2>1, <2>2, <2>3
  <2>5. author \in reduced /\ lastHuman <= said[author] /\ lastHuman \in Nat
    BY BoundsAssumption DEF FocusInv, LastInv, Types, TypeOK
  <2>6. ASSUME lastHuman = said[Newest(reduced)] PROVE author = Newest(reduced)
    <3>1. said[author] = said[Newest(reduced)]
      BY <2>2, <2>3, <2>5, <2>6
    <3> QED
      BY <2>2, <2>3, <2>5, <3>1 DEF FocusInv, Order
  <2> QED
    BY <2>1, <2>4, <2>6
<1> QED
  BY <1>1, FocusHolds, PTL

(* What the human closed stays recorded until something reopens the floor.    *)
THEOREM CloseIsRememberedHolds == Spec => []CloseIsRemembered
<1>1. FocusInv => CloseIsRemembered
  BY DEF FocusInv
<1> QED
  BY <1>1, FocusHolds, PTL
-----------------------------------------------------------------------------
(* What is transported.                                                     *)

(* Only the pump transports, at a time not after now, past the delivery gates. *)
LEMMA PumpTransports ==
  ASSUME Types, [Next]_vars, Transported
  PROVE  \E at \in row.at..now : /\ at \in Nat /\ at <= now
                                 /\ GateOpen(at) /\ ~OffTheFloor(row.about, at)
<1>0. row.at \in Nat /\ now \in Nat /\ row.status # "SENT"
  BY BoundsAssumption DEF Types, TypeOK, Transported
<1>1. Pump
  <2>1. row' # row /\ row'.status = "SENT"
    BY <1>0 DEF Transported
  <2>2. ~FinishThought
    BY <2>1 DEF FinishThought
  <2> QED
    BY <2>1, <2>2
       DEF Next, vars, proactive, Say, Embed, Finish, Wake, ReduceNext, ReduceHuman,
           ReduceRaises, Restart, ReplayNext, Tick
<1>2. PICK at \in row.at..now, refused \in BOOLEAN :
        row' = [NoRow EXCEPT !.status =
                  IF MayDeliver(row.about, at) /\ ~refused THEN "SENT" ELSE "EXPIRED"]
  BY <1>1 DEF Pump
<1>3. MayDeliver(row.about, at)
  BY <1>2 DEF Transported, NoRow
<1> QED
  BY <1>0, <1>2, <1>3 DEF MayDeliver

(* A pass that read an older time judges the conversation no quieter than it   *)
(* is: outside the active window at `at' is outside it now, and idle now is    *)
(* idle at `at'.                                                             *)
LEMMA ModeLater ==
  ASSUME NEW last \in Nat, NEW at \in Nat, NEW later \in Nat, at <= later,
         ModeAfter(last, at) # "ACTIVE", last # 0
  PROVE  /\ later - last > ActiveWithin
         /\ ModeAfter(last, later) = "IDLE" => ModeAfter(last, at) = "IDLE"
BY WindowsAssumption DEF ModeAfter

(* Whatever was decided before: a proactive message leaves only when every    *)
(* turn reduced so far is older than the active window.                       *)
THEOREM QuietAfterHumanHolds == Spec => QuietAfterHuman
<1>1. ASSUME Types, FocusInv, [Next]_vars, Transported, failures = 0, NEW t \in reduced
      PROVE  now - said[t] > ActiveWithin
  <2>1. PICK at \in row.at..now : /\ at \in Nat /\ at <= now
                                  /\ GateOpen(at) /\ ~OffTheFloor(row.about, at)
    BY <1>1, PumpTransports
  <2>2. /\ now \in Nat /\ lastHuman \in Nat
        /\ \A u \in reduced : said[u] \in Nat /\ said[u] > 0
    BY <1>1, BoundsAssumption DEF Types, TypeOK, QueueInv, Accepted
  <2>3. PICK r \in reduced : (\A u \in reduced : said[u] <= said[r]) /\ lastHuman = said[r]
    BY <1>1 DEF FocusInv, LastInv, IsNewest
  <2>4. lastHuman > 0 /\ said[t] <= lastHuman
    BY <1>1, <2>2, <2>3
  <2>5. now - lastHuman > ActiveWithin
    <3>1. ModeAfter(lastHuman, at) # "ACTIVE" /\ lastHuman # 0
      BY <2>1, <2>2, <2>4 DEF GateOpen, Mode
    <3> QED
      BY <2>1, <2>2, <3>1, ModeLater
  <2> QED
    BY <1>1, <2>2, <2>4, <2>5, WindowsAssumption
<1>2. Types /\ FocusInv /\ [Next]_vars =>
        [(Transported /\ failures = 0) => \A t \in reduced : now - said[t] > ActiveWithin]_vars
  BY <1>1
<1> QED
  BY <1>2, FocusHolds, PTL DEF Spec, QuietAfterHuman

(* No message about the thread the human closed leaves while the conversation  *)
(* is IDLE, also one decided before the close.                               *)
THEOREM ResolvedStaysQuietHolds == Spec => ResolvedStaysQuiet
<1>1. ASSUME Types, FocusInv, [Next]_vars, Transported, failures = 0, resolved # None,
             Mode(now) = "IDLE"
      PROVE  Relation(resolved, row.about) # "RELATED"
  <2>1. PICK at \in row.at..now : /\ at \in Nat /\ at <= now
                                  /\ GateOpen(at) /\ ~OffTheFloor(row.about, at)
    BY <1>1, PumpTransports
  <2>2. now \in Nat /\ lastHuman \in Nat
    BY <1>1, BoundsAssumption DEF Types, TypeOK
  <2>3. lastHuman # 0
    BY <1>1 DEF Mode, ModeAfter
  <2>4. Mode(at) = "IDLE"
    BY <1>1, <2>1, <2>2, <2>3, ModeLater DEF GateOpen, Mode
  <2>5. focus = None /\ closed = resolved
    BY <1>1 DEF FocusInv, CloseIsRemembered
  <2> QED
    BY <1>1, <2>1, <2>4, <2>5 DEF OffTheFloor
<1>2. Types /\ FocusInv /\ [Next]_vars =>
        [(Transported /\ failures = 0 /\ resolved # None /\ Mode(now) = "IDLE")
           => Relation(resolved, row.about) # "RELATED"]_vars
  BY <1>1
<1> QED
  BY <1>2, FocusHolds, PTL DEF Spec, ResolvedStaysQuiet
=============================================================================
