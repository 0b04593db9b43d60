--------------------------- MODULE DeliveryProofs ---------------------------
(***************************************************************************)
(* TLAPS proofs about Delivery, for any rows, clients and failures: type       *)
(* correctness; that turns, statuses and broadcasts agree; that fates are      *)
(* sealed; from the lock and the burst window, what is in flight; and that     *)
(* every step of Delivery is a step of Outbox or none.                        *)
(***************************************************************************)
EXTENDS Delivery, TLAPS

PassType == [task : Tasks \cup {"none"}, stage : {"none", "mandatory", "proactive"},
             todo : SUBSET Outbound, later : SUBSET Proactive, late : SUBSET Proactive,
             open : {"yes", "no"}, sending : SUBSET Outbound, snap : SUBSET Clients]

(* The state of each part, typed.                                            *)
RowsOK    == /\ status \in [Outbound -> Status] /\ born \in Seq(Outbound)
             /\ turns \in [Outbound -> Nat]
             /\ cooldown \in {"clear", "active"} /\ aged \subseteq Proactive
ProcessOK == /\ phase \in {"down", "up", "stopping"} /\ cpu \in Tasks \cup {"none", "stop"}
             /\ pc \in [Tasks -> Pc] /\ subs \subseteq Clients
QueueOK   == queue \in Seq(Event) /\ inflight \subseteq Outbound
PumpOK    == waiters \in Seq(Tasks) /\ pass \in PassType /\ window \in {"elapsed", "running"}
HistoryOK == /\ sent \in [Outbound -> Nat] /\ reached \subseteq Outbound
             /\ offered \in Nat /\ failures \in 0..MaxFailures

LEMMA Parts == TypeOK <=> RowsOK /\ ProcessOK /\ QueueOK /\ PumpOK /\ HistoryOK
BY DEF TypeOK, RowsOK, ProcessOK, QueueOK, PumpOK, HistoryOK, PassType

LEMMA PartsNext == (RowsOK /\ ProcessOK /\ QueueOK /\ PumpOK /\ HistoryOK)' => TypeOK'
BY DEF TypeOK, RowsOK, ProcessOK, QueueOK, PumpOK, HistoryOK, PassType

-----------------------------------------------------------------------------
(* Sequences and records.                                                    *)

LEMMA TailOf ==
  ASSUME NEW S, NEW q \in Seq(S), q # <<>>
  PROVE  /\ Tail(q) \in Seq(S) /\ Len(Tail(q)) = Len(q) - 1 /\ Len(q) \in Nat \ {0}
         /\ Head(q) \in S /\ Head(q) = q[1]
         /\ \A i \in 1..Len(Tail(q)) : Tail(q)[i] = q[i + 1] /\ i + 1 \in 1..Len(q)
OBVIOUS

LEMMA AppendOf ==
  ASSUME NEW S, NEW q \in Seq(S), NEW e \in S
  PROVE  /\ Append(q, e) \in Seq(S) /\ Len(Append(q, e)) = Len(q) + 1 /\ Len(q) \in Nat
         /\ \A i \in 1..Len(q) + 1 : Append(q, e)[i] = IF i <= Len(q) THEN q[i] ELSE e
OBVIOUS

LEMMA RemoveOf ==
  ASSUME NEW S, NEW q \in Seq(S), NEW i \in 1..Len(q)
  PROVE  /\ RemoveAt(q, i) \in Seq(S) /\ Len(RemoveAt(q, i)) = Len(q) - 1
         /\ \A j \in 1..Len(RemoveAt(q, i)) :
               RemoveAt(q, i)[j] = IF j < i THEN q[j] ELSE q[j + 1]
<1>1. /\ SubSeq(q, 1, i - 1) \in Seq(S) /\ Len(SubSeq(q, 1, i - 1)) = i - 1
      /\ \A j \in 1..i - 1 : SubSeq(q, 1, i - 1)[j] = q[j]
  OBVIOUS
<1>2. /\ SubSeq(q, i + 1, Len(q)) \in Seq(S) /\ Len(SubSeq(q, i + 1, Len(q))) = Len(q) - i
      /\ \A j \in 1..Len(q) - i : SubSeq(q, i + 1, Len(q))[j] = q[i + j]
  OBVIOUS
<1> DEFINE a == SubSeq(q, 1, i - 1)
           b == SubSeq(q, i + 1, Len(q))
<1>3. RemoveAt(q, i) = a \o b
  BY DEF RemoveAt
<1> HIDE DEF a, b
<1>4. a \in Seq(S) /\ b \in Seq(S) /\ Len(a) = i - 1 /\ Len(b) = Len(q) - i /\ Len(q) \in Nat
  BY <1>1, <1>2 DEF a, b
<1>5. /\ a \o b \in Seq(S) /\ Len(a \o b) = Len(q) - 1
      /\ \A j \in 1..Len(q) - 1 : (a \o b)[j] = IF j <= i - 1 THEN a[j] ELSE b[j - (i - 1)]
  BY <1>4
<1>6. ASSUME NEW j \in 1..Len(q) - 1 PROVE (a \o b)[j] = IF j < i THEN q[j] ELSE q[j + 1]
  <2>1. CASE j < i
    BY <1>1, <1>5, <2>1 DEF a
  <2>2. CASE ~(j < i)
    <3>1. j - (i - 1) \in 1..Len(q) - i
      BY <1>4, <2>2
    <3>2. b[j - (i - 1)] = q[i + (j - (i - 1))]
      BY <1>2, <3>1 DEF b
    <3>3. i + (j - (i - 1)) = j + 1
      OBVIOUS
    <3>4. (a \o b)[j] = b[j - (i - 1)]
      BY <1>5, <2>2
    <3> QED
      BY <2>2, <3>2, <3>3, <3>4
  <2> QED
    BY <2>1, <2>2
<1> QED
  BY <1>3, <1>5, <1>6

LEMMA EventOf ==
  /\ \A m \in Outbound, o \in Outcome : Result(m, o) \in Event
  /\ \A m \in Outbound : Speak(m) \in Event
BY DEF Result, Speak, Event

LEMMA EventFields ==
  \A e \in Event : /\ e.type \in {"speak", "result"} /\ e.msg \in Outbound
                   /\ e.outcome \in Outcome \cup {"none"}
BY DEF Event

LEMMA Blank == NoPass \in PassType
BY DEF NoPass, PassType

LEMMA PassWith ==
  ASSUME pass \in PassType, NEW todo \in SUBSET Outbound, NEW later \in SUBSET Proactive,
         NEW stage \in {"mandatory", "proactive"}, NEW open \in {"yes", "no"},
         NEW sending \in SUBSET Outbound, NEW snap \in SUBSET Clients
  PROVE  /\ [pass EXCEPT !.todo = todo] \in PassType
         /\ [pass EXCEPT !.todo = todo, !.open = open] \in PassType
         /\ [pass EXCEPT !.sending = sending, !.snap = snap] \in PassType
         /\ [pass EXCEPT !.stage = stage, !.todo = todo, !.later = later, !.open = open] \in PassType
         /\ [pass EXCEPT !.todo = todo, !.sending = sending, !.snap = snap, !.open = open] \in PassType
BY DEF PassType

-----------------------------------------------------------------------------
(* Types.                                                                    *)

LEMMA InitTypes == Init => TypeOK
<1> SUFFICES ASSUME Init PROVE TypeOK
  OBVIOUS
<1>1. RowsOK
  BY DEF Init, RowsOK, Status
<1>2. ProcessOK
  BY DEF Init, ProcessOK, Tasks, Pc
<1>3. QueueOK /\ PumpOK
  BY Blank DEF Init, QueueOK, PumpOK
<1>4. HistoryOK
  BY FailuresAssumption DEF Init, HistoryOK
<1> QED
  BY <1>1, <1>2, <1>3, <1>4, Parts

(* What the reductions do to the rows.                                       *)
LEMMA CreateTypes ==
  ASSUME RowsOK, NEW m \in Outbound, CreateOutbound(m)
  PROVE  RowsOK'
<1>1. \A n \in Outbound : Supersede(n, m) \in Status
  BY DEF RowsOK, Supersede, Status
<1>2. status' \in [Outbound -> Status]
  BY <1>1 DEF CreateOutbound, Status
<1>3. born' \in Seq(Outbound)
  BY DEF CreateOutbound, RowsOK
<1> QED
  BY <1>2, <1>3 DEF CreateOutbound, RowsOK

LEMMA RecordTypes ==
  ASSUME RowsOK, NEW m \in Outbound, NEW o, RecordResult(m, o)
  PROVE  RowsOK'
<1>1. CASE UNCHANGED rows
  BY <1>1 DEF rows, RowsOK
<1>2. CASE /\ status' = [status EXCEPT ![m] = Settled(m, o)]
           /\ turns' = IF MakesTurn(m, o) THEN [turns EXCEPT ![m] = @ + 1] ELSE turns
           /\ cooldown' = IF o = "delivered" /\ m \in Proactive THEN "active" ELSE cooldown
           /\ UNCHANGED <<born, aged>>
  <2>1. Settled(m, o) \in Status
    BY DEF Settled, Status
  <2>2. status' \in [Outbound -> Status]
    BY <1>2, <2>1 DEF RowsOK
  <2>3. turns' \in [Outbound -> Nat]
    BY <1>2 DEF RowsOK
  <2> QED
    BY <1>2, <2>2, <2>3 DEF RowsOK
<1> QED
  BY <1>1, <1>2 DEF RecordResult

(* What the pump does to queue and pass.                                     *)
LEMMA StartPassTypes ==
  ASSUME TypeOK, NEW t \in Tasks, StartPass(t)
  PROVE  pass' \in PassType
<1>1. aged \subseteq Proactive
  BY DEF TypeOK
<1> QED
  BY <1>1 DEF StartPass, NoPass, PassType, Outbound

LEMMA ReportTypes ==
  ASSUME QueueOK, NEW m \in Outbound, NEW o \in Outcome, Report(m, o)
  PROVE  QueueOK'
<1>1. Append(queue, Result(m, o)) \in Seq(Event)
  BY EventOf DEF QueueOK
<1> QED
  BY <1>1 DEF Report, QueueOK

LEMMA AttemptTypes ==
  ASSUME QueueOK, PumpOK, subs \subseteq Clients, NEW m \in Outbound, Attempt(m), UNCHANGED waiters
  PROVE  QueueOK' /\ PumpOK'
<1>0. pass.todo \subseteq Outbound /\ pass.open \in {"yes", "no"}
  BY DEF PumpOK, PassType
<1>1. CASE /\ Report(m, "no_client")
           /\ pass' = [pass EXCEPT !.todo = @ \ {m}, !.open = IF m \in Proactive THEN "no" ELSE @]
           /\ window' = IF m \in Proactive THEN "running" ELSE window
  <2>1. QueueOK'
    BY <1>1, ReportTypes DEF Outcome
  <2>2. \A todo \in SUBSET Outbound, open \in {"yes", "no"} :
          [pass EXCEPT !.todo = todo, !.open = open] \in PassType
    BY DEF PumpOK, PassType
  <2>3. pass' = [pass EXCEPT !.todo = pass.todo \ {m},
                             !.open = IF m \in Proactive THEN "no" ELSE pass.open]
    BY <1>1
  <2>4. pass' \in PassType
    BY <1>0, <2>2, <2>3
  <2>5. window' \in {"elapsed", "running"}
    BY <1>1 DEF PumpOK
  <2> QED
    BY <2>1, <2>4, <2>5 DEF PumpOK
<1>2. CASE /\ inflight' = inflight \cup {m}
           /\ pass' = [pass EXCEPT !.sending = {m}, !.snap = subs]
           /\ UNCHANGED <<queue, window>>
  <2>1. pass' \in PassType
    BY <1>2 DEF PumpOK, PassType
  <2> QED
    BY <1>2, <2>1 DEF QueueOK, PumpOK
<1> QED
  BY <1>1, <1>2 DEF Attempt

LEMMA ItemsTyped == TypeOK => Items \subseteq Outbound
<1>1. TypeOK => pass.todo \subseteq Outbound
  BY Parts DEF PumpOK, PassType
<1> QED
  BY <1>1 DEF Items

LEMMA ReleaseTypes ==
  ASSUME ProcessOK, PumpOK, NEW t \in Tasks, NEW next \in Pc, Release(t, next), UNCHANGED window
  PROVE  PumpOK' /\ pc' \in [Tasks -> Pc]
<1>1. pass' \in PassType
  BY Blank DEF Release
<1>2. CASE waiters = <<>> /\ pc' = [pc EXCEPT ![t] = next] /\ UNCHANGED waiters
  BY <1>1, <1>2 DEF ProcessOK, PumpOK
<1>3. CASE /\ waiters # <<>> /\ pc' = [pc EXCEPT ![t] = next, ![Head(waiters)] = "granted"]
           /\ waiters' = Tail(waiters)
  <2>1. Tail(waiters) \in Seq(Tasks) /\ Head(waiters) \in Tasks
    BY <1>3 DEF PumpOK
  <2>2. pc' \in [Tasks -> Pc]
    BY <1>3, <2>1 DEF ProcessOK, Pc
  <2> QED
    BY <1>1, <1>3, <2>1, <2>2 DEF PumpOK
<1> QED
  BY <1>2, <1>3 DEF Release

LEMMA FreshTypes ==
  ASSUME TypeOK, NEW p \in {"down", "up", "stopping"}, FreshMemory(p), RowsOK',
         UNCHANGED <<reached, failures>>
  PROVE  TypeOK'
<1>0. HistoryOK
  BY Parts
<1>1. ProcessOK'
  BY DEF FreshMemory, ProcessOK, Tasks, Pc
<1>2. QueueOK' /\ PumpOK'
  BY Blank DEF FreshMemory, QueueOK, PumpOK
<1>3. HistoryOK'
  BY <1>0 DEF FreshMemory, HistoryOK
<1> QED
  BY <1>1, <1>2, <1>3, PartsNext

LEMMA Frames ==
  /\ RowsOK /\ UNCHANGED rows => RowsOK'
  /\ ProcessOK /\ UNCHANGED <<phase, cpu, pc, subs>> => ProcessOK'
  /\ QueueOK /\ UNCHANGED <<queue, inflight>> => QueueOK'
  /\ PumpOK /\ UNCHANGED <<waiters, pass, window>> => PumpOK'
  /\ HistoryOK /\ UNCHANGED history => HistoryOK'
BY DEF RowsOK, ProcessOK, QueueOK, PumpOK, HistoryOK, rows, history

LEMMA EnvironmentTypes == TypeOK /\ Environment => TypeOK'
<1> SUFFICES ASSUME TypeOK, Environment PROVE TypeOK'
  OBVIOUS
<1>0. RowsOK /\ ProcessOK /\ QueueOK /\ PumpOK /\ HistoryOK
  BY Parts
<1>1. ASSUME NEW m \in Outbound, Decide(m) PROVE TypeOK'
  <2>1. QueueOK'
    BY <1>0, <1>1, EventOf DEF Decide, QueueOK, pumping
  <2>2. RowsOK' /\ ProcessOK' /\ PumpOK' /\ HistoryOK'
    BY <1>0, <1>1, Frames DEF Decide, pumping
  <2> QED
    BY <2>1, <2>2, PartsNext
<1>2. ASSUME NEW m \in Outbound, Age(m) PROVE TypeOK'
  <2>1. RowsOK'
    BY <1>0, <1>2 DEF Age, RowsOK
  <2>2. ProcessOK' /\ QueueOK' /\ PumpOK' /\ HistoryOK'
    BY <1>0, <1>2, Frames DEF Age, pumping
  <2> QED
    BY <2>1, <2>2, PartsNext
<1>3. CASE CooldownEnds
  <2>1. RowsOK'
    BY <1>0, <1>3 DEF CooldownEnds, RowsOK
  <2>2. ProcessOK' /\ QueueOK' /\ PumpOK' /\ HistoryOK'
    BY <1>0, <1>3, Frames DEF CooldownEnds, pumping
  <2> QED
    BY <2>1, <2>2, PartsNext
<1>4. CASE WindowEnds
  <2>1. PumpOK' /\ HistoryOK'
    BY <1>0, <1>4 DEF WindowEnds, PumpOK, HistoryOK
  <2>2. RowsOK' /\ ProcessOK' /\ QueueOK'
    BY <1>0, <1>4, Frames DEF WindowEnds
  <2> QED
    BY <2>1, <2>2, PartsNext
<1>5. ASSUME NEW c \in Clients, Subscribe(c) \/ Disconnect(c) PROVE TypeOK'
  <2>1. ProcessOK'
    <3>1. subs' \subseteq Clients /\ pc' \in [Tasks -> Pc]
      BY <1>0, <1>5 DEF Subscribe, Disconnect, ProcessOK, Pc
    <3> QED
      BY <1>0, <1>5, <3>1 DEF Subscribe, Disconnect, ProcessOK
  <2>2. RowsOK' /\ QueueOK' /\ PumpOK' /\ HistoryOK'
    BY <1>0, <1>5, Frames DEF Subscribe, Disconnect, pumping
  <2> QED
    BY <2>1, <2>2, PartsNext
<1>6. ASSUME NEW t \in Tasks, SendSuspends(t) PROVE TypeOK'
  <2>1. ProcessOK'
    BY <1>0, <1>6 DEF SendSuspends, ProcessOK
  <2>2. RowsOK' /\ QueueOK' /\ PumpOK' /\ HistoryOK'
    BY <1>0, <1>6, Frames DEF SendSuspends, pumping
  <2> QED
    BY <2>1, <2>2, PartsNext
<1> QED
  BY <1>1, <1>2, <1>3, <1>4, <1>5, <1>6 DEF Environment

LEMMA HeadEvent ==
  TypeOK /\ queue # <<>> =>
    Tail(queue) \in Seq(Event) /\ Head(queue) \in Event /\ Head(queue).msg \in Outbound
<1> SUFFICES ASSUME TypeOK, queue # <<>>
             PROVE  Tail(queue) \in Seq(Event) /\ Head(queue) \in Event /\ Head(queue).msg \in Outbound
  OBVIOUS
<1>1. queue \in Seq(Event)
  BY DEF TypeOK
<1>2. Tail(queue) \in Seq(Event) /\ Head(queue) \in Event
  BY <1>1, TailOf
<1> QED
  BY <1>2, EventFields

LEMMA ReductionTypes == TypeOK /\ (Reduction \/ ReduceRaises) => TypeOK'
<1> SUFFICES ASSUME TypeOK, Reduction \/ ReduceRaises PROVE TypeOK'
  OBVIOUS
<1>0. RowsOK /\ ProcessOK /\ QueueOK /\ PumpOK /\ HistoryOK
  BY Parts
<1>1. /\ queue # <<>> /\ queue' = Tail(queue) /\ UNCHANGED <<waiters, pass, window>>
      /\ UNCHANGED <<phase, subs>>
  BY DEF Reduction, ReduceSpeak, ReduceResult, ReduceRaises, LoopTurn, pumping
<1>2. QueueOK'
  <2>1. inflight' \subseteq Outbound
    BY <1>0 DEF Reduction, ReduceSpeak, ReduceResult, ReduceRaises, pumping, Discard, QueueOK
  <2> QED
    BY <1>1, <2>1, HeadEvent DEF QueueOK
<1>3. PumpOK'
  BY <1>0, <1>1, Frames
<1>4. ProcessOK'
  <2>1. NextEvent \in {"none", Loop}
    BY DEF NextEvent
  <2>2. cpu' \in Tasks \cup {"none", "stop"} /\ pc' \in [Tasks -> Pc]
    BY <1>0, <2>1 DEF Reduction, ReduceSpeak, ReduceResult, ReduceRaises, ProcessOK, Pc, Tasks
  <2> QED
    BY <1>0, <1>1, <2>2 DEF ProcessOK
<1>5. HistoryOK'
  BY <1>0, FailuresAssumption
     DEF Reduction, ReduceSpeak, ReduceResult, ReduceRaises, HistoryOK, history
<1>6. RowsOK'
  <2>1. CASE ReduceSpeak
    BY <1>0, <1>1, <2>1, HeadEvent, CreateTypes, Frames DEF ReduceSpeak
  <2>2. CASE ReduceResult
    BY <1>0, <1>1, <2>2, HeadEvent, RecordTypes DEF ReduceResult
  <2>3. CASE ReduceRaises
    BY <1>0, <2>3, Frames DEF ReduceRaises
  <2> QED
    BY <2>1, <2>2, <2>3 DEF Reduction
<1> QED
  BY <1>2, <1>3, <1>4, <1>5, <1>6, PartsNext

LEMMA PumpTypes == ASSUME TypeOK, NEW t \in Tasks, Pump(t) PROVE TypeOK'
<1>0. RowsOK /\ ProcessOK /\ QueueOK /\ PumpOK /\ HistoryOK
  BY Parts
<1>1. RowsOK'
  BY <1>0, Frames DEF Pump, CallPump, EnterPass, AttemptMandatory, BeginProactive, DropProactive,
                     OfferProactive, SendReturns, EndPass
<1>2. CASE CallPump(t)
  <2>1. QueueOK' /\ HistoryOK'
    BY <1>0, <1>2, Frames DEF CallPump
  <2>2. PumpOK'
    <3>1. Append(waiters, t) \in Seq(Tasks)
      BY <1>0 DEF PumpOK
    <3>2. UNCHANGED window
      BY <1>2 DEF CallPump
    <3>3. CASE StartPass(t) /\ UNCHANGED waiters
      BY <1>0, <3>2, <3>3, StartPassTypes DEF PumpOK
    <3>4. CASE waiters' = Append(waiters, t) /\ UNCHANGED pass
      BY <1>0, <3>1, <3>2, <3>4 DEF PumpOK
    <3> QED
      BY <1>2, <3>3, <3>4 DEF CallPump
  <2>3. ProcessOK'
    BY <1>0, <1>2 DEF CallPump, ProcessOK, Pc
  <2> QED
    BY <1>1, <2>1, <2>2, <2>3, PartsNext
<1>3. CASE EnterPass(t)
  <2>1. QueueOK' /\ HistoryOK'
    BY <1>0, <1>3, Frames DEF EnterPass
  <2>2. PumpOK'
    BY <1>0, <1>3, StartPassTypes DEF EnterPass, PumpOK
  <2>3. ProcessOK'
    BY <1>0, <1>3 DEF EnterPass, ProcessOK, Pc
  <2> QED
    BY <1>1, <2>1, <2>2, <2>3, PartsNext
<1>4. CASE AttemptMandatory(t)
  <2>1. HistoryOK' /\ ProcessOK'
    BY <1>0, <1>4, Frames DEF AttemptMandatory
  <2>2. QueueOK' /\ PumpOK'
    BY <1>0, <1>4, AttemptTypes, ItemsTyped DEF AttemptMandatory, ProcessOK
  <2> QED
    BY <1>1, <2>1, <2>2, PartsNext
<1>5. CASE BeginProactive(t)
  <2>1. HistoryOK' /\ ProcessOK' /\ QueueOK'
    BY <1>0, <1>5, Frames DEF BeginProactive
  <2>2. pass' \in PassType
    BY <1>0, <1>5 DEF BeginProactive, PumpOK, PassType, Outbound
  <2>3. PumpOK'
    BY <1>0, <1>5, <2>2 DEF BeginProactive, PumpOK
  <2> QED
    BY <1>1, <2>1, <2>3, PartsNext
<1>6. CASE DropProactive(t)
  <2>1. PICK m \in Items : /\ Report(m, IF m \in pass.late THEN "expired" ELSE "revalidation")
                           /\ pass' = [pass EXCEPT !.todo = @ \ {m}]
    BY <1>6 DEF DropProactive
  <2>2. HistoryOK' /\ ProcessOK'
    BY <1>0, <1>6, Frames DEF DropProactive
  <2>3. QueueOK'
    BY <1>0, <2>1, ReportTypes, ItemsTyped DEF Outcome
  <2>4. pass' \in PassType
    BY <1>0, <2>1 DEF PumpOK, PassType
  <2>5. PumpOK'
    BY <1>0, <1>6, <2>4 DEF DropProactive, PumpOK
  <2> QED
    BY <1>1, <2>2, <2>3, <2>5, PartsNext
<1>7. CASE OfferProactive(t)
  <2>1. PICK m \in Items :
          IF WindowOpen
            THEN Attempt(m) /\ offered' = offered + 1
            ELSE /\ pass' = [pass EXCEPT !.todo = @ \ {m}]
                 /\ UNCHANGED <<inflight, queue, window, offered>>
    BY <1>7 DEF OfferProactive
  <2>2. ProcessOK'
    BY <1>0, <1>7, Frames DEF OfferProactive
  <2>3. CASE Attempt(m) /\ offered' = offered + 1
    <3>1. QueueOK' /\ PumpOK'
      BY <1>0, <1>7, <2>3, AttemptTypes, ItemsTyped DEF OfferProactive, ProcessOK
    <3>2. HistoryOK'
      BY <1>0, <1>7, <2>3 DEF OfferProactive, HistoryOK
    <3> QED
      BY <1>1, <2>2, <3>1, <3>2, PartsNext
  <2>4. CASE pass' = [pass EXCEPT !.todo = @ \ {m}] /\ UNCHANGED <<inflight, queue, window, offered>>
    <3>1. pass' \in PassType
      BY <1>0, <2>4 DEF PumpOK, PassType
    <3>2. PumpOK' /\ QueueOK' /\ HistoryOK'
      BY <1>0, <1>7, <2>4, <3>1 DEF OfferProactive, PumpOK, QueueOK, HistoryOK
    <3> QED
      BY <1>1, <2>2, <3>2, PartsNext
  <2> QED
    BY <2>1, <2>3, <2>4
<1>8. CASE SendReturns(t)
  <2>1. PICK m \in pass.sending, dead \in SUBSET pass.snap, o \in {"delivered", "no_client", "transport"} :
          /\ subs' = subs \ dead
          /\ queue' = Append(queue, Result(m, o))
          /\ sent' = IF o = "delivered" THEN [sent EXCEPT ![m] = @ + 1] ELSE sent
          /\ reached' = IF dead = pass.snap THEN reached ELSE reached \cup {m}
          /\ window' = IF m \in Proactive THEN "running" ELSE window
          /\ pass' = [pass EXCEPT !.todo = @ \ {m}, !.sending = {}, !.snap = {},
                                  !.open = IF m \in Proactive THEN "no" ELSE @]
    BY <1>8 DEF SendReturns
  <2>2. m \in Outbound /\ o \in Outcome
    BY <1>0 DEF PumpOK, PassType, Outcome
  <2>3. QueueOK'
    <3>1. Append(queue, Result(m, o)) \in Seq(Event)
      BY <1>0, <2>2, EventOf DEF QueueOK
    <3> QED
      BY <1>0, <1>8, <2>1, <3>1 DEF SendReturns, QueueOK
  <2>4. ProcessOK'
    BY <1>0, <1>8, <2>1 DEF SendReturns, ProcessOK
  <2>5. HistoryOK'
    BY <1>0, <1>8, <2>1, <2>2 DEF SendReturns, HistoryOK
  <2>6. pass' \in PassType
    <3>1. /\ pass.todo \ {m} \in SUBSET Outbound
          /\ (IF m \in Proactive THEN "no" ELSE pass.open) \in {"yes", "no"}
      BY <1>0 DEF PumpOK, PassType
    <3>2. pass' = [pass EXCEPT !.todo = pass.todo \ {m}, !.sending = {}, !.snap = {},
                               !.open = IF m \in Proactive THEN "no" ELSE pass.open]
      BY <2>1
    <3>3. \A todo \in SUBSET Outbound, open \in {"yes", "no"} :
            [pass EXCEPT !.todo = todo, !.sending = {}, !.snap = {}, !.open = open] \in PassType
      BY <1>0 DEF PumpOK, PassType
    <3> QED
      BY <3>1, <3>2, <3>3
  <2>7. PumpOK'
    BY <1>0, <1>8, <2>1, <2>6 DEF SendReturns, PumpOK
  <2> QED
    BY <1>1, <2>3, <2>4, <2>5, <2>7, PartsNext
<1>9. CASE EndPass(t)
  <2>1. QueueOK' /\ HistoryOK'
    BY <1>0, <1>9, Frames DEF EndPass
  <2>2. (IF t = Loop THEN "get" ELSE "read") \in Pc
    BY DEF Pc
  <2>3. PumpOK' /\ pc' \in [Tasks -> Pc]
    BY <1>0, <1>9, <2>2, ReleaseTypes DEF EndPass
  <2>4. ProcessOK'
    BY <1>0, <1>9, <2>3 DEF EndPass, ProcessOK, Tasks
  <2> QED
    BY <1>1, <2>1, <2>3, <2>4, PartsNext
<1> QED
  BY <1>2, <1>3, <1>4, <1>5, <1>6, <1>7, <1>8, <1>9 DEF Pump

LEMMA LifeTypes == TypeOK /\ ProcessLife => TypeOK'
<1> SUFFICES ASSUME TypeOK, ProcessLife PROVE TypeOK'
  OBVIOUS
<1>0. RowsOK /\ ProcessOK /\ QueueOK /\ PumpOK /\ HistoryOK
  BY Parts
<1>1. CASE Start
  <2>1. RowsOK'
    BY <1>0, <1>1 DEF Start, RowsOK, Status
  <2> QED
    BY <1>1, <2>1, FreshTypes DEF Start
<1>2. CASE Stop
  <2>1. RowsOK' /\ QueueOK' /\ HistoryOK'
    BY <1>0, <1>2, Frames DEF Stop
  <2>2. PumpOK' /\ pc' \in [Tasks -> Pc]
    <3>1. UNCHANGED window /\ Loop \in Tasks /\ "away" \in Pc
      BY <1>2 DEF Stop, Tasks, Pc
    <3>2. CASE Release(Loop, "away")
      BY <1>0, <3>1, <3>2, ReleaseTypes
    <3>3. ASSUME NEW i \in 1..Len(waiters), waiters' = RemoveAt(waiters, i),
                 pc' = [pc EXCEPT ![Loop] = "away"], UNCHANGED pass
          PROVE  PumpOK' /\ pc' \in [Tasks -> Pc]
      BY <1>0, <3>1, <3>3, RemoveOf DEF PumpOK, ProcessOK
    <3>4. CASE pc' = [pc EXCEPT ![Loop] = "away"] /\ UNCHANGED <<waiters, pass>>
      BY <1>0, <3>1, <3>4 DEF PumpOK, ProcessOK
    <3> QED
      BY <1>2, <3>2, <3>3, <3>4 DEF Stop
  <2>3. ProcessOK'
    BY <1>0, <1>2, <2>2 DEF Stop, ProcessOK
  <2> QED
    BY <2>1, <2>2, <2>3, PartsNext
<1>3. CASE FlushNext
  <2>1. RowsOK'
    BY <1>0, <1>3, HeadEvent, CreateTypes, RecordTypes, Frames DEF FlushNext
  <2>2. ProcessOK' /\ QueueOK'
    BY <1>0, <1>3, HeadEvent DEF FlushNext, ProcessOK, QueueOK, pumping
  <2>3. PumpOK' /\ HistoryOK'
    BY <1>0, <1>3, Frames DEF FlushNext, pumping
  <2> QED
    BY <2>1, <2>2, <2>3, PartsNext
<1>4. CASE Suspend
  BY <1>0, <1>4, Frames, FreshTypes DEF Suspend
<1>5. CASE Crash
  BY <1>0, <1>5, Frames, FreshTypes DEF Crash
<1> QED
  BY <1>1, <1>2, <1>3, <1>4, <1>5 DEF ProcessLife

(* Every state of the delivery pump, its callers and the outbox is typed.      *)
THEOREM TypeCorrect == Spec => []TypeOK
<1>1. TypeOK /\ [Next]_vars => TypeOK'
  <2> SUFFICES ASSUME TypeOK, [Next]_vars PROVE TypeOK'
    OBVIOUS
  <2>1. CASE UNCHANGED vars
    BY <2>1 DEF vars, TypeOK
  <2> QED
    BY <2>1, EnvironmentTypes, ReductionTypes, PumpTypes, LifeTypes DEF Next
<1> QED
  BY <1>1, InitTypes, PTL DEF Spec

-----------------------------------------------------------------------------
(* A row's way through the queue, the pass and the in-flight set.              *)

Live(m) == status[m] \in {"PENDING", "SUPERSEDED"}
SameKey(e, f) == e.type = f.type /\ e.msg = f.msg

(* A queued decision is about a row not created yet; a queued outcome is about *)
(* a row in flight, and says of it whether it was broadcast in this session.   *)
EventOK(e) ==
  /\ e.type = "speak" => status[e.msg] = "none"
  /\ e.type = "result" => /\ e.msg \in inflight \ pass.sending
                          /\ Live(e.msg)
                          /\ e.outcome = "delivered" => e.msg \in reached
                          /\ sent[e.msg] > 0 <=> e.outcome = "delivered"
Distinct == \A i, j \in 1..Len(queue) : SameKey(queue[i], queue[j]) => i = j
QueueInv == Distinct /\ \A i \in 1..Len(queue) : EventOK(queue[i])

(* What a pass has before it is alive, not in flight and not sent.             *)
PassInv ==
  /\ \A m \in pass.todo \cup pass.later : Live(m) /\ sent[m] = 0
  /\ \A m \in (pass.todo \ pass.sending) \cup pass.later : m \notin inflight
  /\ pass.sending \subseteq pass.todo \cap inflight
  /\ pass.todo \cap pass.later = {}
  /\ \A m, n \in pass.sending : m = n
SentInv ==
  \A m \in Outbound : /\ sent[m] <= 1
                      /\ sent[m] > 0 => m \in inflight \/ status[m] = "DELIVERED"
RowsInv ==
  \A m \in Outbound : /\ turns[m] = (IF status[m] = "DELIVERED" THEN 1 ELSE 0)
                      /\ turns[m] > 0 => m \in reached
AInv == QueueInv /\ PassInv /\ SentInv /\ RowsInv

LEMMA Typed ==
  TypeOK => /\ queue \in Seq(Event) /\ inflight \subseteq Outbound /\ pass \in PassType
            /\ status \in [Outbound -> Status] /\ turns \in [Outbound -> Nat]
            /\ sent \in [Outbound -> Nat] /\ reached \subseteq Outbound
            /\ pass.todo \subseteq Outbound /\ pass.later \subseteq Outbound
            /\ pass.sending \subseteq Outbound
BY DEF TypeOK, PassType, Outbound

LEMMA InitA == Init => AInv
BY DEF Init, AInv, QueueInv, Distinct, PassInv, SentInv, RowsInv, NoPass

(* The queue without its head, and with an event nothing queued is like.       *)
LEMMA Popped ==
  ASSUME TypeOK, Distinct, queue # <<>>, queue' = Tail(queue)
  PROVE  /\ Distinct'
         /\ \A i \in 1..Len(queue') : \E j \in 1..Len(queue) : queue'[i] = queue[j]
         /\ \A i \in 1..Len(queue') : ~SameKey(queue'[i], Head(queue))
         /\ \E j \in 1..Len(queue) : Head(queue) = queue[j]
<1>1. /\ Len(queue') = Len(queue) - 1 /\ Len(queue) \in Nat \ {0} /\ Head(queue) = queue[1]
      /\ \A i \in 1..Len(queue') : queue'[i] = queue[i + 1] /\ i + 1 \in 1..Len(queue)
  BY Typed, TailOf
<1>2. Distinct'
  <2> SUFFICES ASSUME NEW i \in 1..Len(queue'), NEW j \in 1..Len(queue'),
                      SameKey(queue'[i], queue'[j])
               PROVE  i = j
    BY DEF Distinct
  <2>1. i + 1 = j + 1
    BY <1>1 DEF Distinct
  <2> QED
    BY <1>1, <2>1
<1>3. 1 \in 1..Len(queue)
  BY <1>1
<1>4. ASSUME NEW i \in 1..Len(queue') PROVE ~SameKey(queue'[i], Head(queue))
  <2>1. SameKey(queue'[i], Head(queue)) => i + 1 = 1
    BY <1>1, <1>3 DEF Distinct
  <2> QED
    BY <1>1, <2>1
<1>5. \A i \in 1..Len(queue') : \E j \in 1..Len(queue) : queue'[i] = queue[j]
  BY <1>1
<1> QED
  BY <1>1, <1>2, <1>3, <1>4, <1>5

LEMMA Pushed ==
  ASSUME TypeOK, Distinct, NEW e \in Event, queue' = Append(queue, e),
         \A i \in 1..Len(queue) : ~SameKey(queue[i], e)
  PROVE  /\ Distinct'
         /\ \A i \in 1..Len(queue') : queue'[i] = e \/ \E j \in 1..Len(queue) : queue'[i] = queue[j]
<1>1. /\ Len(queue') = Len(queue) + 1 /\ Len(queue) \in Nat
      /\ \A i \in 1..Len(queue) + 1 : queue'[i] = IF i <= Len(queue) THEN queue[i] ELSE e
  BY Typed, AppendOf
<1>2. ASSUME NEW i \in 1..Len(queue'), NEW j \in 1..Len(queue'), SameKey(queue'[i], queue'[j])
      PROVE  i = j
  <2>1. CASE i <= Len(queue) /\ j <= Len(queue)
    BY <1>1, <1>2, <2>1 DEF Distinct
  <2>2. CASE i <= Len(queue) /\ ~(j <= Len(queue))
    BY <1>1, <1>2, <2>2
  <2>3. CASE ~(i <= Len(queue)) /\ j <= Len(queue)
    <3>1. queue'[i] = e /\ queue'[j] = queue[j] /\ j \in 1..Len(queue)
      BY <1>1, <2>3
    <3>2. SameKey(queue[j], e)
      BY <1>2, <3>1 DEF SameKey
    <3> QED
      BY <3>1, <3>2
  <2>4. CASE ~(i <= Len(queue)) /\ ~(j <= Len(queue))
    BY <1>1, <2>4
  <2> QED
    BY <2>1, <2>2, <2>3, <2>4
<1>3. Distinct'
  BY <1>2 DEF Distinct
<1>4. ASSUME NEW i \in 1..Len(queue')
      PROVE  queue'[i] = e \/ \E j \in 1..Len(queue) : queue'[i] = queue[j]
  BY <1>1
<1> QED
  BY <1>3, <1>4

(* Nothing the invariant reads changes.                                       *)
LEMMA KeepA ==
  ASSUME AInv, UNCHANGED <<status, turns, queue, inflight, pass, sent, reached>>
  PROVE  AInv'
BY DEF AInv, QueueInv, Distinct, EventOK, PassInv, SentInv, RowsInv, Live

LEMMA DecideA == ASSUME TypeOK, AInv, NEW m \in Outbound, Decide(m) PROVE AInv'
<1>1. /\ status[m] = "none" /\ queue' = Append(queue, Speak(m))
      /\ \A i \in 1..Len(queue) : ~(queue[i].type = "speak" /\ queue[i].msg = m)
      /\ UNCHANGED <<status, turns, inflight, pass, sent, reached>>
  BY DEF Decide, Queued, rows, pumping, history
<1>2. Speak(m).type = "speak" /\ Speak(m).msg = m /\ Speak(m) \in Event
  BY EventOf DEF Speak
<1>3. /\ Distinct'
      /\ \A i \in 1..Len(queue') : queue'[i] = Speak(m) \/ \E j \in 1..Len(queue) : queue'[i] = queue[j]
  BY <1>1, <1>2, Pushed DEF AInv, QueueInv, SameKey
<1>4. \A e : EventOK(e) => EventOK(e)'
  BY <1>1 DEF EventOK, Live
<1>5. EventOK(Speak(m))'
  BY <1>1, <1>2 DEF EventOK
<1>6. QueueInv'
  BY <1>3, <1>4, <1>5 DEF AInv, QueueInv
<1> QED
  BY <1>1, <1>6 DEF AInv, PassInv, SentInv, RowsInv, Live

LEMMA StartPassA ==
  ASSUME TypeOK, AInv, NEW t \in Tasks, StartPass(t),
         UNCHANGED <<status, turns, queue, inflight, sent, reached>>
  PROVE  AInv'
<1>1. /\ pass'.todo = {m \in Mandatory : Deliverable(m)} /\ pass'.sending = {}
      /\ pass'.later = {m \in Proactive : Deliverable(m)}
  BY DEF StartPass, NoPass
<1>2. \A m \in Outbound : Deliverable(m) => Live(m) /\ sent[m] = 0 /\ m \notin inflight
  <2> TAKE m \in Outbound
  <2> SUFFICES ASSUME Deliverable(m) PROVE Live(m) /\ sent[m] = 0 /\ m \notin inflight
    OBVIOUS
  <2>1. Live(m) /\ m \notin inflight /\ status[m] # "DELIVERED"
    BY DEF Deliverable, Pending, Live
  <2>2. sent[m] \in Nat
    BY Typed
  <2>3. ~(sent[m] > 0)
    <3>1. sent[m] > 0 => m \in inflight \/ status[m] = "DELIVERED"
      BY DEF AInv, SentInv
    <3> QED
      BY <2>1, <3>1
  <2>4. sent[m] = 0
    BY <2>2, <2>3
  <2> QED
    BY <2>1, <2>4
<1>3. PassInv'
  BY <1>1, <1>2, KindsAssumption DEF PassInv, Outbound, Live
<1>4. QueueInv'
  BY <1>1 DEF AInv, QueueInv, Distinct, EventOK, Live
<1> QED
  BY <1>3, <1>4 DEF AInv, SentInv, RowsInv

(* A pass ends, or is ended by the stop.                                       *)
LEMMA EndPassA ==
  ASSUME AInv, pass' = NoPass, UNCHANGED <<status, turns, queue, inflight, sent, reached>>
  PROVE  AInv'
<1>1. pass'.todo = {} /\ pass'.sending = {} /\ pass'.later = {}
  BY DEF NoPass
<1> QED
  BY <1>1 DEF AInv, QueueInv, Distinct, EventOK, PassInv, SentInv, RowsInv, Live

(* An outcome is queued for a row that has none: report, and the broadcast.     *)
LEMMA ReportQueue ==
  ASSUME TypeOK, AInv, NEW m \in Outbound, NEW o \in Outcome, queue' = Append(queue, Result(m, o)),
         m \in pass.todo, m \in pass.sending \/ m \notin inflight,
         inflight' = inflight \cup {m}, pass'.sending = pass.sending \ {m},
         UNCHANGED status, reached \subseteq reached',
         o = "delivered" => m \in reached', sent'[m] > 0 <=> o = "delivered",
         \A n \in Outbound \ {m} : sent'[n] = sent[n]
  PROVE  QueueInv'
<1>1. Result(m, o).type = "result" /\ Result(m, o).msg = m /\ Result(m, o).outcome = o
      /\ Result(m, o) \in Event
  BY EventOf DEF Result
<1>2. ASSUME NEW i \in 1..Len(queue) PROVE ~SameKey(queue[i], Result(m, o))
  BY <1>1 DEF SameKey, AInv, QueueInv, EventOK
<1>3. /\ Distinct'
      /\ \A i \in 1..Len(queue') :
           queue'[i] = Result(m, o) \/ \E j \in 1..Len(queue) : queue'[i] = queue[j]
  BY <1>1, <1>2, Pushed DEF AInv, QueueInv
<1>4. EventOK(Result(m, o))'
  BY <1>1 DEF EventOK, AInv, PassInv, Live
<1>5. ASSUME NEW e \in Event, EventOK(e), ~SameKey(e, Result(m, o)) PROVE EventOK(e)'
  <2>1. e.msg \in Outbound /\ (e.type = "result" => e.msg # m)
    BY <1>1, <1>5, EventFields DEF SameKey
  <2> QED
    BY <1>5, <2>1 DEF EventOK, Live
<1>6. \A j \in 1..Len(queue) : EventOK(queue[j]) /\ queue[j] \in Event
  BY Typed DEF AInv, QueueInv
<1>7. \A i \in 1..Len(queue') : \E e \in Event : e = queue'[i] /\ EventOK(e)'
  BY <1>1, <1>2, <1>3, <1>4, <1>5, <1>6
<1> QED
  BY <1>3, <1>7 DEF QueueInv

(* The row the pass is at.                                                     *)
LEMMA ItemsA ==
  ASSUME TypeOK, AInv, pass.sending = {}, NEW m \in Items
  PROVE  m \in pass.todo /\ m \in Outbound /\ m \notin inflight /\ m \notin pass.later
         /\ sent[m] = 0
BY Typed DEF Items, AInv, PassInv

LEMMA ReportA ==
  ASSUME TypeOK, AInv, pass.sending = {}, NEW m \in Items, NEW o \in Outcome \ {"delivered"},
         Report(m, o), pass'.todo = pass.todo \ {m}, UNCHANGED <<pass.later, pass.sending>>,
         UNCHANGED <<status, turns, sent, reached>>
  PROVE  AInv'
<1>1. m \in pass.todo /\ m \in Outbound /\ m \notin inflight /\ m \notin pass.later /\ sent[m] = 0
  BY ItemsA
<1>2. inflight' = inflight \cup {m} /\ queue' = Append(queue, Result(m, o))
  BY DEF Report
<1>3. QueueInv'
  BY <1>1, <1>2, ReportQueue
<1>4. PassInv'
  BY <1>1, <1>2 DEF AInv, PassInv, Live
<1> QED
  BY <1>2, <1>3, <1>4 DEF AInv, SentInv, RowsInv

LEMMA AttemptA ==
  ASSUME TypeOK, AInv, pass.sending = {}, NEW m \in Items, Attempt(m),
         UNCHANGED <<status, turns, sent, reached>>
  PROVE  AInv'
<1>1. m \in pass.todo /\ m \in Outbound /\ m \notin inflight /\ m \notin pass.later /\ sent[m] = 0
  BY ItemsA
<1>2. CASE /\ Report(m, "no_client")
           /\ pass' = [pass EXCEPT !.todo = @ \ {m}, !.open = IF m \in Proactive THEN "no" ELSE @]
  <2>1. /\ pass'.todo = pass.todo \ {m} /\ pass'.later = pass.later
        /\ pass'.sending = pass.sending
    BY <1>2, Typed DEF PassType
  <2> QED
    BY <1>2, <2>1, ReportA DEF Outcome
<1>3. CASE /\ inflight' = inflight \cup {m}
           /\ pass' = [pass EXCEPT !.sending = {m}, !.snap = subs]
           /\ UNCHANGED <<queue, window>>
  <2>1. pass'.todo = pass.todo /\ pass'.later = pass.later /\ pass'.sending = {m}
    BY <1>3, Typed DEF PassType
  <2>2. PassInv'
    BY <1>1, <1>3, <2>1 DEF AInv, PassInv, Live
  <2>3. QueueInv'
    BY <1>1, <1>3, <2>1 DEF AInv, QueueInv, Distinct, EventOK, Live
  <2> QED
    BY <1>3, <2>2, <2>3 DEF AInv, SentInv, RowsInv
<1> QED
  BY <1>2, <1>3 DEF Attempt

LEMMA SkipA ==   \* the rest of the stage, and the proactive stage
  ASSUME AInv, pass.sending = {}, pass'.sending = {},
         pass'.todo \cup pass'.later \subseteq pass.todo \cup pass.later,
         pass'.todo \cap pass'.later = {},
         UNCHANGED <<status, turns, queue, inflight, sent, reached>>
  PROVE  AInv'
BY DEF AInv, QueueInv, Distinct, EventOK, PassInv, SentInv, RowsInv, Live

LEMMA SendReturnsA == ASSUME TypeOK, AInv, NEW t \in Tasks, SendReturns(t) PROVE AInv'
<1>1. PICK m \in pass.sending, dead \in SUBSET pass.snap, o \in {"delivered", "no_client", "transport"} :
        /\ o = "no_client" <=> dead = pass.snap
        /\ queue' = Append(queue, Result(m, o))
        /\ sent' = IF o = "delivered" THEN [sent EXCEPT ![m] = @ + 1] ELSE sent
        /\ reached' = IF dead = pass.snap THEN reached ELSE reached \cup {m}
        /\ pass' = [pass EXCEPT !.todo = @ \ {m}, !.sending = {}, !.snap = {},
                                !.open = IF m \in Proactive THEN "no" ELSE @]
  BY DEF SendReturns
<1>2. UNCHANGED <<status, turns, inflight>>
  BY DEF SendReturns, rows
<1>3. m \in Outbound /\ m \in pass.todo /\ m \in inflight /\ sent[m] = 0 /\ pass.sending = {m}
      /\ m \notin pass.later /\ o \in Outcome
  BY Typed DEF AInv, PassInv, Outcome
<1>4. pass'.todo = pass.todo \ {m} /\ pass'.later = pass.later /\ pass'.sending = {}
  BY <1>1, Typed DEF PassType
<1>5. /\ sent'[m] = (IF o = "delivered" THEN 1 ELSE 0)
      /\ \A n \in Outbound \ {m} : sent'[n] = sent[n]
  BY <1>1, <1>3, Typed
<1>6. reached \subseteq reached' /\ (o = "delivered" => m \in reached')
  BY <1>1
<1>7. QueueInv'
  BY <1>1, <1>2, <1>3, <1>4, <1>5, <1>6, ReportQueue
<1>8. PassInv'
  <2>1. pass'.todo \cup pass'.later \subseteq Outbound \ {m}
    BY <1>3, <1>4, Typed
  <2> QED
    BY <1>2, <1>3, <1>4, <1>5, <2>1 DEF AInv, PassInv, Live
<1>9. SentInv'
  BY <1>2, <1>3, <1>5 DEF AInv, SentInv
<1>10. RowsInv'
  BY <1>2, <1>6 DEF AInv, RowsInv
<1> QED
  BY <1>7, <1>8, <1>9, <1>10 DEF AInv

LEMMA PumpA == ASSUME TypeOK, AInv, NEW t \in Tasks, Pump(t) PROVE AInv'
<1>1. CASE CallPump(t)
  BY <1>1, StartPassA, KeepA DEF CallPump, rows, history
<1>2. CASE EnterPass(t)
  BY <1>2, StartPassA DEF EnterPass, rows, history
<1>3. CASE AttemptMandatory(t)
  BY <1>3, AttemptA DEF AttemptMandatory, Running, rows, history
<1>4. CASE BeginProactive(t)
  <2>1. pass'.todo = pass.later /\ pass'.later = {} /\ pass'.sending = pass.sending
        /\ pass.sending = {}
    BY <1>4, Typed DEF BeginProactive, Running, PassType
  <2> QED
    BY <1>4, <2>1, SkipA DEF BeginProactive, rows, history
<1>5. CASE DropProactive(t)
  <2>1. PICK m \in Items : /\ Report(m, IF m \in pass.late THEN "expired" ELSE "revalidation")
                           /\ pass' = [pass EXCEPT !.todo = @ \ {m}]
    BY <1>5 DEF DropProactive
  <2>2. pass'.todo = pass.todo \ {m} /\ UNCHANGED <<pass.later, pass.sending>>
    BY <2>1, Typed DEF PassType
  <2>3. (IF m \in pass.late THEN "expired" ELSE "revalidation") \in Outcome \ {"delivered"}
    BY DEF Outcome
  <2> QED
    BY <1>5, <2>1, <2>2, <2>3, ReportA DEF DropProactive, Running, rows, history
<1>6. CASE OfferProactive(t)
  <2>1. PICK m \in Items :
          IF WindowOpen
            THEN Attempt(m) /\ offered' = offered + 1
            ELSE /\ pass' = [pass EXCEPT !.todo = @ \ {m}]
                 /\ UNCHANGED <<inflight, queue, window, offered>>
    BY <1>6 DEF OfferProactive
  <2>2. pass.sending = {} /\ UNCHANGED <<status, turns, sent, reached>>
    BY <1>6 DEF OfferProactive, Running, rows
  <2>3. CASE Attempt(m)
    BY <2>2, <2>3, AttemptA
  <2>4. CASE pass' = [pass EXCEPT !.todo = @ \ {m}] /\ UNCHANGED <<inflight, queue>>
    <3>1. pass'.todo = pass.todo \ {m} /\ UNCHANGED <<pass.later, pass.sending>>
      BY <2>4, Typed DEF PassType
    <3>2. pass.todo \cap pass.later = {}
      BY DEF AInv, PassInv
    <3> QED
      BY <2>2, <2>4, <3>1, <3>2, SkipA
  <2> QED
    BY <2>1, <2>3, <2>4
<1>7. CASE SendReturns(t)
  BY <1>7, SendReturnsA
<1>8. CASE EndPass(t)
  BY <1>8, EndPassA DEF EndPass, Release, rows, history
<1> QED
  BY <1>1, <1>2, <1>3, <1>4, <1>5, <1>6, <1>7, <1>8 DEF Pump

(* The reductions.                                                           *)

LEMMA PopA ==
  ASSUME TypeOK, AInv, queue # <<>>, queue' = Tail(queue),
         UNCHANGED <<status, turns, inflight, pass, sent, reached>>
  PROVE  AInv'
<1>1. /\ Distinct'
      /\ \A i \in 1..Len(queue') : \E j \in 1..Len(queue) : queue'[i] = queue[j]
  BY Popped DEF AInv, QueueInv
<1>2. \A e : EventOK(e) => EventOK(e)'
  BY DEF EventOK, Live
<1>3. QueueInv'
  BY <1>1, <1>2 DEF AInv, QueueInv
<1> QED
  BY <1>3 DEF AInv, PassInv, SentInv, RowsInv, Live

LEMMA CreateA ==
  ASSUME TypeOK, AInv, queue # <<>>, queue' = Tail(queue), Head(queue).type = "speak",
         CreateOutbound(Head(queue).msg), UNCHANGED <<inflight, pass, sent, reached>>
  PROVE  AInv' /\ status[Head(queue).msg] = "none"
<1> DEFINE m == Head(queue).msg
<1>1. /\ Distinct'
      /\ \A i \in 1..Len(queue') : \E j \in 1..Len(queue) : queue'[i] = queue[j]
      /\ \A i \in 1..Len(queue') : ~SameKey(queue'[i], Head(queue))
      /\ \E j \in 1..Len(queue) : Head(queue) = queue[j]
  BY Popped DEF AInv, QueueInv
<1>2. status[m] = "none" /\ m \in Outbound
  BY <1>1, HeadEvent DEF AInv, QueueInv, EventOK
<1> HIDE DEF m
<1>3. /\ status' = [n \in Outbound |-> IF n = m THEN "PENDING" ELSE Supersede(n, m)]
      /\ UNCHANGED turns
  BY DEF CreateOutbound, m
<1>4. /\ status'[m] = "PENDING"
      /\ \A n \in Outbound \ {m} :
           /\ Live(n) => Live(n)'
           /\ status[n] \in {"none", "DELIVERED"} => status'[n] = status[n]
           /\ status'[n] = "DELIVERED" => status[n] = "DELIVERED"
  BY <1>2, <1>3 DEF Supersede, Pending, Live
<1>5. \A n \in pass.todo \cup pass.later : n # m /\ n \in Outbound
  BY <1>2, Typed DEF AInv, PassInv, Live
<1>6. QueueInv'
  <2>1. ASSUME NEW e \in Event, EventOK(e), ~SameKey(e, Head(queue)) PROVE EventOK(e)'
    <3>1. e.msg \in Outbound /\ e.type \in {"speak", "result"}
      BY EventFields
    <3>2. e.msg # m
      <4>1. e.type = "speak" => e.msg # m
        BY <2>1 DEF SameKey, m
      <4>2. e.type = "result" => e.msg # m
        BY <1>2, <2>1 DEF EventOK, Live
      <4> QED
        BY <3>1, <4>1, <4>2
    <3>3. (Live(e.msg) => Live(e.msg)') /\ (status[e.msg] = "none" => status'[e.msg] = "none")
      BY <1>4, <3>1, <3>2
    <3> QED
      BY <2>1, <3>3 DEF EventOK
  <2>2. \A i \in 1..Len(queue') : \E e \in Event :
          e = queue'[i] /\ EventOK(e) /\ ~SameKey(e, Head(queue))
    <3>1. \A j \in 1..Len(queue) : EventOK(queue[j]) /\ queue[j] \in Event
      BY Typed DEF AInv, QueueInv
    <3> QED
      BY <1>1, <3>1
  <2>3. \A i \in 1..Len(queue') : \E e \in Event : e = queue'[i] /\ EventOK(e)'
    BY <2>1, <2>2
  <2> QED
    BY <1>1, <2>3 DEF QueueInv
<1>7. PassInv'
  BY <1>4, <1>5 DEF AInv, PassInv
<1>8. SentInv'
  <2>1. ASSUME NEW n \in Outbound, status[n] = "DELIVERED" PROVE status'[n] = "DELIVERED"
    BY <1>2, <1>4, <2>1
  <2> QED
    BY <2>1 DEF AInv, SentInv
<1>9. RowsInv'
  <2>1. \A n \in Outbound : status'[n] = "DELIVERED" <=> status[n] = "DELIVERED"
    BY <1>2, <1>4
  <2> QED
    BY <1>3, <2>1 DEF AInv, RowsInv
<1> QED
  BY <1>2, <1>6, <1>7, <1>8, <1>9 DEF AInv, m

(* A recorded outcome: the row was alive, and the outcome was its only one.     *)
LEMMA RecordA ==
  ASSUME TypeOK, AInv, queue # <<>>, queue' = Tail(queue), Head(queue).type = "result",
         RecordResult(Head(queue).msg, Head(queue).outcome),
         inflight' = inflight \/ inflight' = inflight \ {Head(queue).msg},
         UNCHANGED <<pass, sent, reached>>
  PROVE  AInv' /\ Live(Head(queue).msg)
<1> DEFINE m == Head(queue).msg
           o == Head(queue).outcome
<1>1. /\ Distinct'
      /\ \A i \in 1..Len(queue') : \E j \in 1..Len(queue) : queue'[i] = queue[j]
      /\ \A i \in 1..Len(queue') : ~SameKey(queue'[i], Head(queue))
      /\ \E j \in 1..Len(queue) : Head(queue) = queue[j]
  BY Popped DEF AInv, QueueInv
<1>2. /\ m \in Outbound /\ m \in inflight /\ m \notin pass.sending /\ Live(m)
      /\ o = "delivered" => m \in reached
      /\ sent[m] > 0 => o = "delivered"
  BY <1>1, HeadEvent DEF AInv, QueueInv, EventOK
<1> HIDE DEF m, o
<1>3. /\ status' = [status EXCEPT ![m] = Settled(m, o)]
      /\ turns' = IF o = "delivered" THEN [turns EXCEPT ![m] = @ + 1] ELSE turns
  BY <1>2 DEF RecordResult, Live, MakesTurn, m, o
<1>4. /\ status'[m] = Settled(m, o) /\ (Settled(m, o) = "DELIVERED" <=> o = "delivered")
      /\ \A n \in Outbound \ {m} : status'[n] = status[n] /\ turns'[n] = turns[n]
  BY <1>2, <1>3, Typed DEF Settled
<1>5. m \notin pass.todo \cup pass.later
  BY <1>2 DEF AInv, PassInv
<1>6. QueueInv'
  <2>1. ASSUME NEW e \in Event, EventOK(e), ~SameKey(e, Head(queue)) PROVE EventOK(e)'
    <3>1. e.msg \in Outbound /\ e.type \in {"speak", "result"}
      BY EventFields
    <3>2. e.msg # m
      <4>1. e.type = "result" => e.msg # m
        BY <2>1 DEF SameKey, m
      <4>2. e.type = "speak" => e.msg # m
        BY <1>2, <2>1 DEF EventOK, Live
      <4> QED
        BY <3>1, <4>1, <4>2
    <3>3. inflight \ {m} \subseteq inflight'
      BY DEF m
    <3> QED
      BY <1>4, <2>1, <3>1, <3>2, <3>3 DEF EventOK, Live
  <2>2. \A i \in 1..Len(queue') : \E e \in Event :
          e = queue'[i] /\ EventOK(e) /\ ~SameKey(e, Head(queue))
    <3>1. \A j \in 1..Len(queue) : EventOK(queue[j]) /\ queue[j] \in Event
      BY Typed DEF AInv, QueueInv
    <3> QED
      BY <1>1, <3>1
  <2>3. \A i \in 1..Len(queue') : \E e \in Event : e = queue'[i] /\ EventOK(e)'
    BY <2>1, <2>2
  <2> QED
    BY <1>1, <2>3 DEF QueueInv
<1>7. PassInv'
  <2>1. inflight' \subseteq inflight /\ inflight \ {m} \subseteq inflight'
    BY DEF m
  <2>2. pass.todo \cup pass.later \subseteq Outbound \ {m}
    BY <1>5, Typed
  <2> QED
    BY <1>2, <1>4, <2>1, <2>2 DEF AInv, PassInv, Live
<1>8. SentInv'
  <2>1. inflight \ {m} \subseteq inflight'
    BY DEF m
  <2>2. ASSUME NEW n \in Outbound, sent[n] > 0 PROVE n \in inflight' \/ status'[n] = "DELIVERED"
    <3>1. CASE n = m
      BY <1>2, <1>4, <2>2, <3>1
    <3>2. CASE n # m
      BY <1>4, <2>1, <2>2, <3>2 DEF AInv, SentInv
    <3> QED
      BY <3>1, <3>2
  <2> QED
    BY <2>2 DEF AInv, SentInv
<1>9. RowsInv'
  <2> SUFFICES ASSUME NEW n \in Outbound
               PROVE  /\ turns'[n] = (IF status'[n] = "DELIVERED" THEN 1 ELSE 0)
                      /\ turns'[n] > 0 => n \in reached
    BY DEF RowsInv
  <2>1. CASE n # m
    BY <1>4, <2>1 DEF AInv, RowsInv
  <2>2. CASE n = m
    <3>1. turns[m] = 0
      BY <1>2 DEF AInv, RowsInv, Live
    <3>2. turns'[m] = IF o = "delivered" THEN 1 ELSE 0
      BY <1>2, <1>3, <3>1, Typed
    <3> QED
      BY <1>2, <1>4, <2>2, <3>2
  <2> QED
    BY <2>1, <2>2
<1> QED
  BY <1>2, <1>6, <1>7, <1>8, <1>9 DEF AInv, m

LEMMA FreshA ==
  ASSUME TypeOK, AInv, NEW p, FreshMemory(p), UNCHANGED <<turns, reached>>,
         \A m \in Outbound : status'[m] = "DELIVERED" <=> status[m] = "DELIVERED"
  PROVE  AInv'
<1>1. /\ queue' = <<>> /\ inflight' = {} /\ pass' = NoPass
      /\ \A m \in Outbound : sent'[m] = 0
  BY DEF FreshMemory
<1>2. QueueInv' /\ PassInv' /\ SentInv'
  BY <1>1 DEF QueueInv, Distinct, PassInv, SentInv, NoPass
<1>3. RowsInv'
  BY DEF AInv, RowsInv
<1> QED
  BY <1>2, <1>3 DEF AInv

LEMMA StepA == TypeOK /\ AInv /\ [Next]_vars => AInv'
<1> SUFFICES ASSUME TypeOK, AInv, [Next]_vars PROVE AInv'
  OBVIOUS
<1>1. CASE UNCHANGED vars
  BY <1>1, KeepA DEF vars
<1>2. CASE Environment
  <2>1. ASSUME NEW m \in Outbound, Decide(m) PROVE AInv'
    BY <2>1, DecideA
  <2>2. ASSUME \/ \E m \in Outbound : Age(m)
               \/ CooldownEnds \/ WindowEnds
               \/ \E c \in Clients : Subscribe(c) \/ Disconnect(c)
               \/ \E t \in Tasks : SendSuspends(t)
        PROVE  AInv'
    BY <2>2, KeepA DEF Age, CooldownEnds, WindowEnds, Subscribe, Disconnect, SendSuspends,
                       rows, pumping, history
  <2> QED
    BY <1>2, <2>1, <2>2 DEF Environment
<1>3. CASE ReduceSpeak
  BY <1>3, CreateA, PopA DEF ReduceSpeak, LoopTurn, rows, pumping, history
<1>4. CASE ReduceResult
  BY <1>4, RecordA DEF ReduceResult, LoopTurn, Discard, history
<1>5. CASE ReduceRaises
  BY <1>5, PopA DEF ReduceRaises, LoopTurn, rows, pumping
<1>6. CASE \E t \in Tasks : Pump(t)
  BY <1>6, PumpA
<1>7. CASE ProcessLife
  <2>1. CASE Start
    <3>1. \A m \in Outbound : status'[m] = "DELIVERED" <=> status[m] = "DELIVERED"
      BY <2>1 DEF Start, Pending
    <3> QED
      BY <2>1, <3>1, FreshA DEF Start
  <2>2. CASE Stop
    BY <2>2, EndPassA, KeepA DEF Stop, Release, rows, history
  <2>3. CASE FlushNext
    BY <2>3, CreateA, PopA, RecordA DEF FlushNext, rows, pumping, history
  <2>4. CASE Suspend \/ Crash
    BY <2>4, FreshA DEF Suspend, Crash, rows
  <2> QED
    BY <1>7, <2>1, <2>2, <2>3, <2>4 DEF ProcessLife
<1> QED
  BY <1>1, <1>2, <1>3, <1>4, <1>5, <1>6, <1>7 DEF Next, Reduction

LEMMA Invariance == Spec => [](TypeOK /\ AInv)
BY TypeCorrect, InitA, StepA, PTL DEF Spec

(* A row has one turn if it is DELIVERED and none otherwise, and only one that  *)
(* a subscriber took has any (delivery_result.py, handle_delivery_result).    *)
THEOREM TurnMeansHeardHolds == Spec => []TurnMeansHeard
<1>1. AInv => TurnMeansHeard
  BY DEF AInv, RowsInv, TurnMeansHeard
<1> QED
  BY <1>1, Invariance, PTL

(* No row is broadcast successfully twice in a session (DeliveryPump).         *)
THEOREM SentOncePerSessionHolds == Spec => []SentOncePerSession
<1>1. AInv => SentOncePerSession
  BY DEF AInv, SentInv, SentOncePerSession
<1> QED
  BY <1>1, Invariance, PTL

(* DELIVERED, EXPIRED and FAILED are final, and a mandatory row only goes from  *)
(* PENDING to DELIVERED (delivery_result.py, _handle_undelivered).            *)
Sealed(m) ==
  /\ status[m] \in {"DELIVERED", "EXPIRED", "FAILED"} => status'[m] = status[m]
  /\ m \in Mandatory => status'[m] \in {status[m], "PENDING", "DELIVERED"}

LEMMA CreateSealed ==
  ASSUME NEW m \in Outbound, status[m] = "none", CreateOutbound(m), NEW n \in Outbound
  PROVE  Sealed(n)
BY KindsAssumption DEF CreateOutbound, Supersede, Pending, Sealed

LEMMA RecordSealed ==
  ASSUME TypeOK, NEW m \in Outbound, Live(m), NEW o, RecordResult(m, o), NEW n \in Outbound
  PROVE  Sealed(n)
<1>1. status' = [status EXCEPT ![m] = Settled(m, o)]
  BY DEF RecordResult, Live
<1>2. CASE n = m
  BY <1>1, <1>2, Typed DEF Sealed, Live, Settled
<1>3. CASE n # m
  BY <1>1, <1>3, Typed DEF Sealed
<1> QED
  BY <1>2, <1>3

LEMMA StepSealed ==
  ASSUME TypeOK, AInv, [Next]_vars, NEW n \in Outbound
  PROVE  Sealed(n)
<1>1. ASSUME UNCHANGED status PROVE Sealed(n)
  BY <1>1 DEF Sealed
<1>2. CASE Environment \/ ReduceRaises \/ Stop \/ Suspend \/ Crash \/ UNCHANGED vars
  BY <1>1, <1>2 DEF Environment, Decide, Age, CooldownEnds, WindowEnds, Subscribe, Disconnect,
                    SendSuspends, ReduceRaises, Stop, Suspend, Crash, vars, rows
<1>3. CASE \E t \in Tasks : Pump(t)
  BY <1>1, <1>3 DEF Pump, CallPump, EnterPass, AttemptMandatory, BeginProactive, DropProactive,
                    OfferProactive, SendReturns, EndPass, rows
<1>4. CASE ReduceSpeak
  BY <1>1, <1>4, CreateA, CreateSealed, HeadEvent DEF ReduceSpeak, LoopTurn, rows, pumping, history
<1>5. CASE ReduceResult
  BY <1>5, RecordA, RecordSealed, HeadEvent DEF ReduceResult, LoopTurn, Discard, history
<1>6. CASE FlushNext
  BY <1>1, <1>6, CreateA, CreateSealed, RecordA, RecordSealed, HeadEvent
     DEF FlushNext, rows, pumping, history
<1>7. CASE Start
  <2>1. aged \cap Mandatory = {}
    BY KindsAssumption DEF TypeOK
  <2> QED
    BY <1>7, <2>1 DEF Start, Pending, Sealed
<1> QED
  BY <1>2, <1>3, <1>4, <1>5, <1>6, <1>7 DEF Next, Reduction, ProcessLife

THEOREM FateIsSealedHolds == Spec => FateIsSealed
<1>1. TypeOK /\ AInv /\ [Next]_vars => \A m \in Outbound : Sealed(m)
  BY StepSealed
<1>2. TypeOK /\ AInv /\ [Next]_vars =>
        [\A m \in Outbound :
           /\ status[m] \in {"DELIVERED", "EXPIRED", "FAILED"} => status'[m] = status[m]
           /\ m \in Mandatory => status'[m] \in {status[m], "PENDING", "DELIVERED"}]_vars
  BY <1>1 DEF Sealed
<1> QED
  BY <1>2, Invariance, PTL DEF Spec, FateIsSealed

-----------------------------------------------------------------------------
(* The outbox as the one it is for sees it.                                    *)

LEMMA Fates ==
  /\ Speech!Messages = Outbound
  /\ FateOf("none") = "unsaid" /\ FateOf("PENDING") = "due"
  /\ FateOf("SUPERSEDED") = "superseded" /\ FateOf("DELIVERED") = "said"
  /\ FateOf("EXPIRED") = "dropped" /\ FateOf("FAILED") = "dropped"
BY DEF Speech!Messages, Outbound, FateOf

LEMMA NothingSaid ==
  ASSUME UNCHANGED <<status, turns, sent, reached>>
  PROVE  UNCHANGED Speech!speech
BY DEF Speech!speech

LEMMA CreateSays ==
  ASSUME TypeOK, NEW m \in Outbound, status[m] = "none", CreateOutbound(m),
         UNCHANGED <<sent, reached>>
  PROVE  Speech!Say(m)
<1>1. /\ status' = [n \in Outbound |-> IF n = m THEN "PENDING" ELSE Supersede(n, m)]
      /\ turns' = turns
  BY DEF CreateOutbound
<1>2. ASSUME NEW n \in Outbound
      PROVE  FateOf(status'[n]) =
               IF n = m THEN "due"
               ELSE IF {m, n} \subseteq Proactive /\ FateOf(status[n]) = "due" THEN "superseded"
               ELSE FateOf(status[n])
  <2>1. status[n] \in Status
    BY Typed
  <2>2. FateOf(status[n]) = "due" <=> Pending(n)
    BY <2>1, Fates DEF Status, Pending
  <2> QED
    BY <1>1, <2>2, Fates DEF Supersede
<1>3. Speech!Messages = Outbound
  BY Fates
<1> QED
  BY <1>1, <1>2, <1>3, Fates DEF Speech!Say

(* A result of a broadcast row confirms it; of another, it revives, withholds  *)
(* or leaves it.                                                             *)
LEMMA RecordSays ==
  ASSUME TypeOK, NEW m \in Outbound, NEW o, Live(m), sent[m] > 0 <=> o = "delivered",
         RecordResult(m, o), UNCHANGED <<sent, reached>>
  PROVE  [Speech!Next]_(Speech!speech)
<1> DEFINE fates == [n \in Outbound |-> FateOf(status[n])]
<1>1. /\ status' = [status EXCEPT ![m] = Settled(m, o)]
      /\ turns' = IF o = "delivered" THEN [turns EXCEPT ![m] = @ + 1] ELSE turns
  BY DEF RecordResult, Live, MakesTurn
<1>2. /\ fates' = [fates EXCEPT ![m] = FateOf(Settled(m, o))]
      /\ fates[m] = FateOf(status[m]) /\ status[m] \in {"PENDING", "SUPERSEDED"}
      /\ m \in {n \in Outbound : sent[n] > 0} <=> o = "delivered"
  BY <1>1, Typed DEF Live
<1>3. CASE o = "delivered"
  <2>1. Settled(m, o) = "DELIVERED"
    BY <1>3 DEF Settled
  <2>2. Speech!Confirm(m)
    BY <1>1, <1>2, <1>3, <2>1, Fates DEF Speech!Confirm, Speech!Alive
  <2> QED
    BY <2>2, Fates DEF Speech!Next
<1>4. CASE o # "delivered" /\ Settled(m, o) = "PENDING"
  <2>1. CASE status[m] = "PENDING"
    <3>1. status' = status
      BY <1>1, <1>4, <2>1, Typed
    <3> QED
      BY <1>1, <1>4, <3>1, NothingSaid
  <2>2. CASE status[m] = "SUPERSEDED"
    <3>1. Speech!Revive(m)
      BY <1>1, <1>2, <1>4, <2>2, Fates DEF Speech!Revive
    <3> QED
      BY <3>1, Fates DEF Speech!Next
  <2> QED
    BY <1>2, <2>1, <2>2
<1>5. CASE o # "delivered" /\ Settled(m, o) # "PENDING"
  <2>1. m \in Proactive /\ Settled(m, o) \in {"FAILED", "EXPIRED"}
    BY <1>5 DEF Settled, Outbound
  <2>2. Speech!Withhold(m)
    BY <1>1, <1>2, <1>5, <2>1, Fates DEF Speech!Withhold, Speech!Alive
  <2> QED
    BY <2>2, Fates DEF Speech!Next
<1> QED
  BY <1>3, <1>4, <1>5

LEMMA SendSays ==
  ASSUME TypeOK, AInv, NEW t \in Tasks, SendReturns(t)
  PROVE  [Speech!Next]_(Speech!speech)
<1>1. PICK m \in pass.sending, dead \in SUBSET pass.snap, o \in {"delivered", "no_client", "transport"} :
        /\ o = "no_client" <=> dead = pass.snap
        /\ sent' = IF o = "delivered" THEN [sent EXCEPT ![m] = @ + 1] ELSE sent
        /\ reached' = IF dead = pass.snap THEN reached ELSE reached \cup {m}
  BY DEF SendReturns
<1>2. UNCHANGED <<status, turns>>
  BY DEF SendReturns, rows
<1>3. m \in Outbound /\ sent[m] = 0 /\ status[m] \in {"PENDING", "SUPERSEDED"}
  BY Typed DEF AInv, PassInv, Live
<1>4. CASE dead = pass.snap
  <2>1. UNCHANGED <<sent, reached>>
    BY <1>1, <1>4
  <2> QED
    BY <1>2, <2>1, NothingSaid
<1>5. CASE dead # pass.snap
  <2> DEFINE air == {n \in Outbound : sent[n] > 0}
  <2>1. m \notin air
    BY <1>3
  <2>2. air' = air \/ air' = air \cup {m}
    <3>1. CASE o = "delivered"
      BY <1>1, <1>3, <3>1, Typed
    <3>2. CASE o # "delivered"
      BY <1>1, <3>2
    <3> QED
      BY <3>1, <3>2
  <2>3. reached' = reached \cup {m}
    BY <1>1, <1>5
  <2>4. [n \in Outbound |-> FateOf(status[n])][m] \in {"due", "superseded"}
    BY <1>3, Fates
  <2>5. Speech!Air(m)
    BY <1>2, <2>1, <2>2, <2>3, <2>4 DEF Speech!Air, Speech!Alive
  <2> QED
    BY <1>3, <2>5, Fates DEF Speech!Next
<1> QED
  BY <1>4, <1>5

LEMMA FreshSays ==
  ASSUME TypeOK, NEW p, FreshMemory(p), UNCHANGED <<turns, reached>>,
         NEW stale \in SUBSET Proactive, \A m \in stale : status[m] = "PENDING",
         status' = [m \in Outbound |-> IF m \in stale THEN "EXPIRED" ELSE status[m]]
  PROVE  [Speech!Next]_(Speech!speech)
<1>1. {m \in Outbound : sent'[m] > 0} = {}
  BY DEF FreshMemory
<1>2. stale \subseteq Outbound
  BY DEF Outbound
<1>3. \A m \in stale : [n \in Outbound |-> FateOf(status[n])][m] = "due"
  BY <1>2, Fates
<1>4. [n \in Outbound |-> FateOf(status'[n])]
        = [m \in Outbound |-> IF m \in stale THEN "dropped"
                              ELSE [n \in Outbound |-> FateOf(status[n])][m]]
  BY Fates
<1>5. Speech!Forget(stale)
  BY <1>1, <1>3, <1>4, Fates DEF Speech!Forget
<1> QED
  BY <1>5 DEF Speech!Next

LEMMA StepSays ==
  ASSUME TypeOK, AInv, [Next]_vars
  PROVE  [Speech!Next]_(Speech!speech)
<1>1. CASE Environment \/ ReduceRaises \/ Stop \/ UNCHANGED vars
  BY <1>1, NothingSaid DEF Environment, Decide, Age, CooldownEnds, WindowEnds, Subscribe,
                           Disconnect, SendSuspends, ReduceRaises, Stop, vars, rows, history
<1>2. ASSUME NEW t \in Tasks, Pump(t), ~SendReturns(t) PROVE UNCHANGED Speech!speech
  BY <1>2, NothingSaid DEF Pump, CallPump, EnterPass, AttemptMandatory, BeginProactive,
                           DropProactive, OfferProactive, EndPass, rows, history
<1>3. ASSUME NEW t \in Tasks, Pump(t) PROVE [Speech!Next]_(Speech!speech)
  BY <1>2, <1>3, SendSays
<1>4. ASSUME queue # <<>>, queue' = Tail(queue), Head(queue).type = "speak",
             CreateOutbound(Head(queue).msg), UNCHANGED <<inflight, pass, sent, reached>>
      PROVE  [Speech!Next]_(Speech!speech)
  <2>1. Head(queue).msg \in Outbound /\ status[Head(queue).msg] = "none"
    BY <1>4, CreateA, HeadEvent
  <2>2. Speech!Say(Head(queue).msg)
    BY <1>4, <2>1, CreateSays
  <2> QED
    BY <2>1, <2>2, Fates DEF Speech!Next
<1>5. ASSUME queue # <<>>, queue' = Tail(queue), Head(queue).type = "result",
             RecordResult(Head(queue).msg, Head(queue).outcome), UNCHANGED <<sent, reached>>
      PROVE  [Speech!Next]_(Speech!speech)
  <2>1. EventOK(Head(queue)) /\ Head(queue).msg \in Outbound
    BY <1>5, Popped, HeadEvent DEF AInv, QueueInv
  <2>2. Live(Head(queue).msg) /\ (sent[Head(queue).msg] > 0 <=> Head(queue).outcome = "delivered")
    BY <1>5, <2>1 DEF EventOK
  <2> QED
    BY <1>5, <2>1, <2>2, RecordSays
<1>6. CASE ReduceSpeak
  BY <1>4, <1>6, NothingSaid DEF ReduceSpeak, LoopTurn, rows, pumping, history
<1>7. CASE ReduceResult
  BY <1>5, <1>7 DEF ReduceResult, LoopTurn, history
<1>8. CASE FlushNext
  BY <1>4, <1>5, <1>8, NothingSaid DEF FlushNext, rows, pumping, history
<1>9. CASE Start
  <2>1. aged \subseteq Proactive /\ Proactive \subseteq Outbound
    BY DEF TypeOK, Outbound
  <2> DEFINE stale == {m \in aged : status[m] = "PENDING"}
  <2>2. /\ stale \in SUBSET Proactive /\ \A m \in stale : status[m] = "PENDING"
        /\ status' = [m \in Outbound |-> IF m \in stale THEN "EXPIRED" ELSE status[m]]
    BY <1>9, <2>1 DEF Start, Pending
  <2>3. FreshMemory("up") /\ UNCHANGED <<turns, reached>>
    BY <1>9 DEF Start
  <2> HIDE DEF stale
  <2> QED
    BY <2>2, <2>3, FreshSays
<1>10. CASE Suspend \/ Crash
  <2>1. {} \in SUBSET Proactive /\ status' = [m \in Outbound |-> IF m \in {} THEN "EXPIRED" ELSE status[m]]
    BY <1>10, Typed DEF Suspend, Crash, rows
  <2>2. FreshMemory("down") /\ UNCHANGED <<turns, reached>>
    BY <1>10 DEF Suspend, Crash, rows
  <2> QED
    BY <2>1, <2>2, FreshSays
<1> QED
  BY <1>1, <1>3, <1>6, <1>7, <1>8, <1>9, <1>10 DEF Next, Reduction, ProcessLife

(* Delivery implements Outbox: passes, locks, late results, stops and crashes   *)
(* show as one step of a message's fate or as nothing (delivery.py).          *)
THEOREM ImplementsOutboxHolds == Spec => ImplementsOutbox
<1>1. Init => Speech!Init
  <2> SUFFICES ASSUME Init PROVE Speech!Init
    OBVIOUS
  <2>1. [n \in Outbound |-> FateOf(status[n])] = [m \in Speech!Messages |-> "unsaid"]
    BY Fates DEF Init
  <2>2. {m \in Outbound : sent[m] > 0} = {}
    BY DEF Init
  <2> QED
    BY <2>1, <2>2, Fates DEF Init, Speech!Init
<1>2. TypeOK /\ AInv /\ [Next]_vars => [Speech!Next]_(Speech!speech)
  BY StepSays
<1> QED
  BY <1>1, <1>2, Invariance, PTL DEF Spec, ImplementsOutbox, Speech!Spec

-----------------------------------------------------------------------------
(* The lock, and the burst window.                                           *)

(* One coroutine holds the lock or is handed it; who waits is in the line once. *)
LockInv ==
  /\ pass.task = "none" => pass = NoPass
  /\ \A t \in Tasks : pc[t] = "pass" <=> pass.task = t
  /\ \A t \in Tasks : pc[t] = "granted" => pass.task = "none"
  /\ \A t, u \in Tasks : pc[t] = "granted" /\ pc[u] = "granted" => t = u
  /\ \A i \in 1..Len(waiters) : pc[waiters[i]] = "wait"
  /\ \A i, j \in 1..Len(waiters) : waiters[i] = waiters[j] => i = j

LEMMA Names == "none" \notin Tasks /\ Loop \in Tasks
BY TasksAssumption DEF Tasks, Loop

LEMMA LockTyped ==
  TypeOK => /\ pc \in [Tasks -> Pc] /\ waiters \in Seq(Tasks) /\ pass.task \in Tasks \cup {"none"}
            /\ \A i \in 1..Len(waiters) : waiters[i] \in Tasks
BY DEF TypeOK

(* A coroutine outside of the line goes on outside of it.                      *)
LEMMA OutsideLock ==
  ASSUME TypeOK, LockInv, NEW t \in Tasks, NEW next \in {"get", "pump", "read", "away"},
         pc[t] \notin {"pass", "granted", "wait"}, pc' = [pc EXCEPT ![t] = next],
         UNCHANGED <<pass, waiters>>
  PROVE  LockInv'
<1>1. pc'[t] = next /\ \A u \in Tasks \ {t} : pc'[u] = pc[u]
  BY LockTyped
<1>2. \A i \in 1..Len(waiters) : waiters[i] \in Tasks \ {t}
  BY LockTyped DEF LockInv
<1> QED
  BY <1>1, <1>2 DEF LockInv

LEMMA EnterLock ==   \* by acquiring it, or resumed after being handed it
  ASSUME TypeOK, LockInv, NEW t \in Tasks, StartPass(t), pc' = [pc EXCEPT ![t] = "pass"],
         UNCHANGED waiters, pass.task = "none", pc[t] # "wait",
         \A u \in Tasks \ {t} : pc[u] # "granted"
  PROVE  LockInv'
<1>1. pc'[t] = "pass" /\ \A u \in Tasks \ {t} : pc'[u] = pc[u]
  BY LockTyped
<1>2. \A i \in 1..Len(waiters) : waiters[i] \in Tasks \ {t}
  BY LockTyped DEF LockInv
<1>3. pass'.task = t
  BY DEF StartPass, NoPass
<1>4. \A u \in Tasks \ {t} : pc[u] # "pass"
  BY Names DEF LockInv
<1> QED
  BY <1>1, <1>2, <1>3, <1>4, Names DEF LockInv

LEMMA WaitLock ==
  ASSUME TypeOK, LockInv, NEW t \in Tasks, pc[t] = "pump", waiters' = Append(waiters, t),
         pc' = [pc EXCEPT ![t] = "wait"], UNCHANGED pass
  PROVE  LockInv'
<1>1. pc'[t] = "wait" /\ \A u \in Tasks \ {t} : pc'[u] = pc[u]
  BY LockTyped
<1>2. \A i \in 1..Len(waiters) : waiters[i] \in Tasks \ {t}
  BY LockTyped DEF LockInv
<1>3. /\ Len(waiters') = Len(waiters) + 1 /\ Len(waiters) \in Nat
      /\ \A i \in 1..Len(waiters) + 1 : waiters'[i] = IF i <= Len(waiters) THEN waiters[i] ELSE t
  BY LockTyped, AppendOf
<1>4. \A i \in 1..Len(waiters') : pc'[waiters'[i]] = "wait"
  BY <1>1, <1>2, <1>3 DEF LockInv
<1>5. ASSUME NEW i \in 1..Len(waiters'), NEW j \in 1..Len(waiters'), waiters'[i] = waiters'[j]
      PROVE  i = j
  <2>1. CASE i <= Len(waiters) /\ j <= Len(waiters)
    BY <1>3, <1>5, <2>1 DEF LockInv
  <2>2. CASE ~(i <= Len(waiters)) /\ ~(j <= Len(waiters))
    BY <1>3, <2>2
  <2>3. CASE i <= Len(waiters) /\ ~(j <= Len(waiters))
    BY <1>2, <1>3, <1>5, <2>3
  <2>4. CASE ~(i <= Len(waiters)) /\ j <= Len(waiters)
    BY <1>2, <1>3, <1>5, <2>4
  <2> QED
    BY <2>1, <2>2, <2>3, <2>4
<1> QED
  BY <1>1, <1>4, <1>5 DEF LockInv

(* The holder, or who was handed the lock, hands it on.                         *)
LEMMA ReleaseLock ==
  ASSUME TypeOK, LockInv, NEW t \in Tasks, NEW next \in {"get", "read", "away"},
         pc[t] \in {"pass", "granted"}, Release(t, next)
  PROVE  LockInv'
<1>1. \A u \in Tasks \ {t} : pc[u] \notin {"pass", "granted"}
  BY Names DEF LockInv
<1>2. \A i \in 1..Len(waiters) : waiters[i] \in Tasks \ {t}
  BY LockTyped DEF LockInv
<1>3. pass' = NoPass /\ pass'.task = "none"
  BY DEF Release, NoPass
<1>4. CASE waiters = <<>> /\ pc' = [pc EXCEPT ![t] = next] /\ UNCHANGED waiters
  <2>1. pc'[t] = next /\ \A u \in Tasks \ {t} : pc'[u] = pc[u]
    BY <1>4, LockTyped
  <2> QED
    BY <1>1, <1>2, <1>3, <1>4, <2>1, Names DEF LockInv
<1>5. CASE /\ waiters # <<>> /\ pc' = [pc EXCEPT ![t] = next, ![Head(waiters)] = "granted"]
           /\ waiters' = Tail(waiters)
  <2> DEFINE h == Head(waiters)
  <2>1. /\ Len(waiters') = Len(waiters) - 1 /\ h = waiters[1] /\ Len(waiters) \in Nat \ {0}
        /\ \A i \in 1..Len(waiters') : waiters'[i] = waiters[i + 1] /\ i + 1 \in 1..Len(waiters)
    BY <1>5, LockTyped, TailOf
  <2>2. 1 \in 1..Len(waiters) /\ h \in Tasks \ {t}
    BY <1>2, <2>1
  <2> HIDE DEF h
  <2>3. /\ pc'[t] = next /\ pc'[h] = "granted"
        /\ \A u \in Tasks \ {t, h} : pc'[u] = pc[u]
    BY <1>5, <2>2, LockTyped DEF h
  <2>4. \A i \in 1..Len(waiters') : waiters'[i] \in Tasks \ {t, h}
    <3> TAKE i \in 1..Len(waiters')
    <3>1. waiters[i + 1] # waiters[1]
      <4>1. i + 1 # 1
        OBVIOUS
      <4> QED
        BY <2>1, <2>2, <4>1 DEF LockInv
    <3> QED
      BY <1>2, <2>1, <3>1
  <2>5. \A i, j \in 1..Len(waiters') : waiters'[i] = waiters'[j] => i = j
    <3> TAKE i, j \in 1..Len(waiters')
    <3>1. waiters'[i] = waiters'[j] => i + 1 = j + 1
      BY <2>1 DEF LockInv
    <3> QED
      BY <3>1
  <2>6. \A i \in 1..Len(waiters') : pc'[waiters'[i]] = "wait"
    BY <2>1, <2>3, <2>4 DEF LockInv
  <2>7. \A u \in Tasks : pc'[u] # "pass" /\ (pc'[u] = "granted" => u = h)
    BY <1>1, <2>3
  <2> QED
    BY <1>3, <2>5, <2>6, <2>7, Names DEF LockInv
<1> QED
  BY <1>4, <1>5 DEF Release

LEMMA LeaveLine ==   \* the stop cancels the loop in acquire()
  ASSUME TypeOK, LockInv, pc[Loop] = "wait", NEW k \in 1..Len(waiters), waiters[k] = Loop,
         waiters' = RemoveAt(waiters, k), pc' = [pc EXCEPT ![Loop] = "away"], UNCHANGED pass
  PROVE  LockInv'
<1>1. pc'[Loop] = "away" /\ \A u \in Tasks \ {Loop} : pc'[u] = pc[u]
  BY LockTyped, Names
<1>2. /\ Len(waiters') = Len(waiters) - 1 /\ Len(waiters) \in Nat
      /\ \A j \in 1..Len(waiters') : waiters'[j] = IF j < k THEN waiters[j] ELSE waiters[j + 1]
  BY LockTyped, RemoveOf
<1> DEFINE old(j) == IF j < k THEN j ELSE j + 1
<1>3. \A j \in 1..Len(waiters') : /\ waiters'[j] = waiters[old(j)] /\ old(j) \in 1..Len(waiters)
                                 /\ old(j) # k
  BY <1>2
<1>4. \A j \in 1..Len(waiters') : waiters'[j] \in Tasks \ {Loop}
  BY <1>3, LockTyped DEF LockInv
<1>5. \A i, j \in 1..Len(waiters') : waiters'[i] = waiters'[j] => i = j
  <2> TAKE i, j \in 1..Len(waiters')
  <2>1. waiters'[i] = waiters'[j] => old(i) = old(j)
    BY <1>3 DEF LockInv
  <2> QED
    BY <2>1
<1>6. \A j \in 1..Len(waiters') : pc'[waiters'[j]] = "wait"
  BY <1>1, <1>3, <1>4 DEF LockInv
<1>7. \A u \in Tasks : /\ pc'[u] = "pass" <=> pc[u] = "pass"
                       /\ pc'[u] = "granted" <=> pc[u] = "granted"
  BY <1>1
<1> QED
  BY <1>5, <1>6, <1>7 DEF LockInv

LEMMA KeepLock ==
  ASSUME TypeOK, LockInv, UNCHANGED <<pc, waiters>>,
         UNCHANGED pass \/ (pass.task # "none" /\ pass'.task = pass.task)
  PROVE  LockInv'
BY DEF LockInv

LEMMA StepLock == TypeOK /\ LockInv /\ [Next]_vars => LockInv'
<1> SUFFICES ASSUME TypeOK, LockInv, [Next]_vars PROVE LockInv'
  OBVIOUS
<1>1. CASE UNCHANGED vars
  BY <1>1, KeepLock DEF vars
<1>2. CASE Environment
  <2>1. ASSUME NEW c \in Clients, Subscribe(c) PROVE LockInv'
    BY <2>1, OutsideLock DEF Subscribe, pumping, Tasks
  <2>2. ASSUME NEW c \in Clients, Disconnect(c) PROVE LockInv'
    BY <2>2, OutsideLock DEF Disconnect, pumping, Tasks
  <2>3. ASSUME \/ \E m \in Outbound : Decide(m) \/ Age(m)
               \/ CooldownEnds \/ WindowEnds
               \/ \E t \in Tasks : SendSuspends(t)
        PROVE  LockInv'
    BY <2>3, KeepLock DEF Decide, Age, CooldownEnds, WindowEnds, SendSuspends, pumping
  <2> QED
    BY <1>2, <2>1, <2>2, <2>3 DEF Environment
<1>3. CASE ReduceSpeak
  BY <1>3, OutsideLock, KeepLock, Names DEF ReduceSpeak, LoopTurn, pumping
<1>4. CASE ReduceResult \/ ReduceRaises
  BY <1>4, KeepLock DEF ReduceResult, ReduceRaises, pumping
<1>5. ASSUME NEW t \in Tasks, Pump(t) PROVE LockInv'
  <2>1. CASE CallPump(t)
    <3>1. pc[t] = "pump"
      BY <2>1 DEF CallPump
    <3> QED
      BY <2>1, <3>1, EnterLock, WaitLock DEF CallPump, LockFree
  <2>2. CASE EnterPass(t)
    <3>1. pass.task = "none" /\ \A u \in Tasks \ {t} : pc[u] # "granted"
      BY <2>2 DEF EnterPass, LockInv
    <3> QED
      BY <2>2, <3>1, EnterLock DEF EnterPass
  <2>3. CASE EndPass(t)
    BY <2>3, ReleaseLock DEF EndPass, Running
  <2>4. CASE AttemptMandatory(t) \/ BeginProactive(t) \/ DropProactive(t) \/ OfferProactive(t)
             \/ SendReturns(t)
    <3>1. pass.task # "none" /\ UNCHANGED <<pc, waiters>>
      BY <2>4, Names DEF AttemptMandatory, BeginProactive, DropProactive, OfferProactive,
                         SendReturns, Running
    <3>2. pass'.task = pass.task
      <4>1. pass \in PassType
        BY Typed
      <4> QED
        BY <2>4, <4>1 DEF AttemptMandatory, BeginProactive, DropProactive, OfferProactive,
                          SendReturns, Attempt, PassType
    <3> QED
      BY <3>1, <3>2, KeepLock
  <2> QED
    BY <1>5, <2>1, <2>2, <2>3, <2>4 DEF Pump
<1>6. CASE ProcessLife
  <2>1. CASE Start \/ Suspend \/ Crash
    <3>1. /\ \A t \in Tasks : pc'[t] \in {"get", "away"}
          /\ waiters' = <<>> /\ pass' = NoPass /\ pass'.task = "none"
      BY <2>1 DEF Start, Suspend, Crash, FreshMemory, NoPass
    <3> QED
      BY <3>1, Names DEF LockInv
  <2>2. CASE Stop
    BY <2>2, ReleaseLock, LeaveLine, OutsideLock, Names DEF Stop
  <2>3. CASE FlushNext
    BY <2>3, KeepLock DEF FlushNext, pumping
  <2> QED
    BY <1>6, <2>1, <2>2, <2>3 DEF ProcessLife
<1> QED
  BY <1>1, <1>2, <1>3, <1>4, <1>5, <1>6 DEF Next, Reduction

LEMMA InitLock == Init => LockInv
BY Names DEF Init, LockInv, NoPass

(* The burst window: a proactive row is attempted only in a pass that found the *)
(* window over, and its attempt starts the window.                           *)
WindowInv ==
  /\ pass.open = "yes" => pass.stage = "proactive"
  /\ pass.stage = "proactive" => pass.todo \subseteq Proactive
  /\ phase = "up" =>
       /\ offered <= 1
       /\ offered = 1 => window = "running" \/ pass.sending \cap Proactive # {}
       /\ pass.open = "yes" /\ pass.sending = {} => offered = 0

LEMMA KeepWindow ==
  ASSUME WindowInv, UNCHANGED <<pass, window, offered>>, phase' = "up" => phase = "up"
  PROVE  WindowInv'
BY DEF WindowInv

LEMMA NewPassWindow ==
  ASSUME WindowInv, UNCHANGED <<window, offered>>, phase' = "up" => phase = "up",
         pass.sending = {}, (\E t \in Tasks : StartPass(t)) \/ pass' = NoPass
  PROVE  WindowInv'
<1>1. pass'.open = "no" /\ pass'.stage \in {"none", "mandatory"} /\ pass'.sending = {}
  <2>1. ASSUME NEW t \in Tasks, StartPass(t)
        PROVE  pass'.open = "no" /\ pass'.stage = "mandatory" /\ pass'.sending = {}
    BY <2>1 DEF StartPass, NoPass
  <2>2. CASE pass' = NoPass
    BY <2>2 DEF NoPass
  <2> QED
    BY <2>1, <2>2
<1> QED
  BY <1>1 DEF WindowInv

LEMMA FreshWindow ==
  ASSUME NEW p, FreshMemory(p)
  PROVE  WindowInv'
BY DEF FreshMemory, WindowInv, NoPass

LEMMA PumpWindow ==
  ASSUME TypeOK, AInv, LockInv, WindowInv, NEW t \in Tasks, Pump(t)
  PROVE  WindowInv'
<1>0. /\ pass \in PassType /\ offered \in Nat /\ window \in {"elapsed", "running"}
      /\ pass.later \subseteq Proactive /\ phase' = phase
  <2>1. pass \in PassType /\ offered \in Nat /\ window \in {"elapsed", "running"}
    BY Typed DEF TypeOK
  <2> QED
    BY <2>1 DEF PassType, Pump, CallPump, EnterPass, AttemptMandatory, BeginProactive, DropProactive,
                OfferProactive, SendReturns, EndPass
<1>1. CASE CallPump(t)
  <2>1. CASE LockFree
    <3>1. pass.sending = {}
      BY <2>1 DEF LockFree, LockInv, NoPass
    <3> QED
      BY <1>0, <1>1, <2>1, <3>1, NewPassWindow DEF CallPump, history
  <2>2. CASE ~LockFree
    BY <1>0, <1>1, <2>2, KeepWindow DEF CallPump, history
  <2> QED
    BY <2>1, <2>2
<1>2. CASE EnterPass(t)
  <2>1. pass.sending = {}
    BY <1>2 DEF EnterPass, LockInv, NoPass
  <2> QED
    BY <1>0, <1>2, <2>1, NewPassWindow DEF EnterPass, history
<1>3. CASE AttemptMandatory(t)
  <2>1. PICK m \in Items : Attempt(m)
    BY <1>3 DEF AttemptMandatory
  <2>2. /\ pass.stage = "mandatory" /\ pass.sending = {} /\ offered' = offered
        /\ pass.open # "yes"
    BY <1>3 DEF AttemptMandatory, Running, history, WindowInv
  <2>3. /\ pass'.stage = pass.stage /\ pass'.open # "yes"
        /\ window = "running" => window' = "running"
    BY <1>0, <2>1, <2>2 DEF Attempt, PassType
  <2> QED
    BY <1>0, <2>2, <2>3 DEF WindowInv
<1>4. CASE BeginProactive(t)
  <2>1. /\ pass' = [pass EXCEPT !.stage = "proactive", !.todo = pass.later, !.later = {},
                                !.open = IF window = "elapsed" THEN "yes" ELSE "no"]
        /\ pass.sending = {} /\ UNCHANGED <<window, offered>>
    BY <1>4 DEF BeginProactive, Running, history
  <2>2. /\ pass'.stage = "proactive" /\ pass'.todo = pass.later /\ pass'.sending = {}
        /\ pass'.open = IF window = "elapsed" THEN "yes" ELSE "no"
    BY <1>0, <2>1 DEF PassType
  <2> QED
    BY <1>0, <2>1, <2>2 DEF WindowInv
<1>5. CASE DropProactive(t)
  <2>1. /\ UNCHANGED <<pass.stage, pass.open, pass.sending, window, offered>>
        /\ pass'.todo \subseteq pass.todo
    BY <1>0, <1>5 DEF DropProactive, history, PassType
  <2> QED
    BY <1>0, <2>1 DEF WindowInv
<1>6. CASE OfferProactive(t)
  <2>1. PICK m \in Items :
          IF WindowOpen
            THEN Attempt(m) /\ offered' = offered + 1
            ELSE /\ pass' = [pass EXCEPT !.todo = @ \ {m}]
                 /\ UNCHANGED <<inflight, queue, window, offered>>
    BY <1>6 DEF OfferProactive
  <2>2. pass.sending = {} /\ pass.stage = "proactive" /\ m \in Proactive /\ m \in pass.todo
    BY <1>6 DEF OfferProactive, Running, Items, WindowInv
  <2>3. CASE ~WindowOpen
    <3>1. /\ UNCHANGED <<pass.stage, pass.open, pass.sending, window, offered>>
          /\ pass'.todo \subseteq pass.todo
      BY <1>0, <2>1, <2>3 DEF PassType
    <3> QED
      BY <1>0, <3>1 DEF WindowInv
  <2>4. CASE WindowOpen
    <3>1. Attempt(m) /\ offered' = offered + 1 /\ (phase = "up" => offered = 0)
      BY <2>1, <2>2, <2>4 DEF WindowOpen, WindowInv
    <3>2. CASE subs = {}
      <4>1. window' = "running" /\ pass'.open = "no" /\ pass'.stage = "proactive"
            /\ pass'.todo \subseteq pass.todo
        <5>1. /\ pass' = [pass EXCEPT !.todo = @ \ {m}, !.open = IF m \in Proactive THEN "no" ELSE @]
              /\ window' = IF m \in Proactive THEN "running" ELSE window
          BY <3>1, <3>2 DEF Attempt
        <5>2. pass'.open = "no" /\ pass'.stage = pass.stage /\ pass'.todo = pass.todo \ {m}
          BY <1>0, <2>2, <5>1 DEF PassType
        <5> QED
          BY <2>2, <5>1, <5>2
      <4> QED
        BY <1>0, <2>2, <3>1, <4>1 DEF WindowInv
    <3>3. CASE subs # {}
      <4>1. pass'.sending = {m} /\ pass'.stage = "proactive" /\ pass'.todo = pass.todo
        BY <1>0, <2>2, <3>1, <3>3 DEF Attempt, PassType
      <4> QED
        BY <1>0, <2>2, <3>1, <4>1 DEF WindowInv
    <3> QED
      BY <3>2, <3>3
  <2> QED
    BY <2>3, <2>4
<1>7. CASE SendReturns(t)
  <2>1. PICK m \in pass.sending :
          /\ window' = IF m \in Proactive THEN "running" ELSE window
          /\ pass' = [pass EXCEPT !.todo = @ \ {m}, !.sending = {}, !.snap = {},
                                  !.open = IF m \in Proactive THEN "no" ELSE @]
    BY <1>7 DEF SendReturns
  <2>2. offered' = offered /\ pass.sending = {m} /\ m \in pass.todo
    BY <1>7 DEF SendReturns, AInv, PassInv
  <2>3. /\ pass'.stage = pass.stage /\ pass'.todo \subseteq pass.todo /\ pass'.sending = {}
        /\ pass'.open = IF m \in Proactive THEN "no" ELSE pass.open
    BY <1>0, <2>1 DEF PassType
  <2>4. pass.open = "yes" => m \in Proactive
    BY <2>2 DEF WindowInv
  <2>5. pass'.open # "yes"
    BY <2>3, <2>4
  <2>6. phase = "up" /\ offered = 1 => window' = "running"
    BY <2>1, <2>2 DEF WindowInv
  <2> QED
    BY <1>0, <2>2, <2>3, <2>5, <2>6 DEF WindowInv
<1>8. CASE EndPass(t)
  BY <1>0, <1>8, NewPassWindow DEF EndPass, Running, Release, history
<1> QED
  BY <1>1, <1>2, <1>3, <1>4, <1>5, <1>6, <1>7, <1>8 DEF Pump

LEMMA StepWindow == TypeOK /\ AInv /\ LockInv /\ WindowInv /\ [Next]_vars => WindowInv'
<1> SUFFICES ASSUME TypeOK, AInv, LockInv, WindowInv, [Next]_vars PROVE WindowInv'
  OBVIOUS
<1>1. CASE \E t \in Tasks : Pump(t)
  BY <1>1, PumpWindow
<1>2. CASE WindowEnds
  <2>1. offered' = 0 /\ UNCHANGED <<pass, phase>>
    BY <1>2 DEF WindowEnds
  <2> QED
    BY <2>1 DEF WindowInv
<1>3. CASE Start \/ Suspend \/ Crash
  BY <1>3, FreshWindow DEF Start, Suspend, Crash
<1>4. CASE Stop
  <2>1. phase' = "stopping" /\ UNCHANGED <<window, offered>>
    BY <1>4 DEF Stop, history
  <2>2. pass' = NoPass \/ pass' = pass
    BY <1>4 DEF Stop, Release
  <2> QED
    BY <2>1, <2>2 DEF WindowInv, NoPass
<1>5. CASE \/ \E m \in Outbound : Decide(m) \/ Age(m)
           \/ CooldownEnds \/ \E c \in Clients : Subscribe(c) \/ Disconnect(c)
           \/ \E t \in Tasks : SendSuspends(t)
  BY <1>5, KeepWindow DEF Decide, Age, CooldownEnds, Subscribe, Disconnect, SendSuspends,
                          pumping, history
<1>6. CASE ReduceSpeak \/ ReduceResult \/ ReduceRaises \/ FlushNext \/ UNCHANGED vars
  BY <1>6, KeepWindow DEF ReduceSpeak, ReduceResult, ReduceRaises, FlushNext, vars, pumping, history
<1> QED
  BY <1>1, <1>2, <1>3, <1>4, <1>5, <1>6 DEF Next, Environment, Reduction, ProcessLife

LEMMA InitWindow == Init => WindowInv
BY DEF Init, WindowInv, NoPass

LEMMA PumpingInvariance == Spec => [](TypeOK /\ AInv /\ LockInv /\ WindowInv)
BY TypeCorrect, InitA, StepA, InitLock, StepLock, InitWindow, StepWindow, PTL DEF Spec

(* At most one proactive row is attempted per burst window (delivery.py,        *)
(* _pump_one_proactive).                                                     *)
THEOREM OneProactivePerWindowHolds == Spec => []OneProactivePerWindow
<1>1. WindowInv => OneProactivePerWindow
  BY DEF WindowInv, OneProactivePerWindow
<1> QED
  BY <1>1, PumpingInvariance, PTL

-----------------------------------------------------------------------------
(* What is in flight.                                                        *)

Reported(m) == \E i \in 1..Len(queue) : queue[i].type = "result" /\ queue[i].msg = m
ReportedInv ==
  phase = "up" /\ failures = 0 => \A m \in inflight : m \in pass.sending \/ Reported(m)

LEMMA ReportedStays ==   \* unless it is what is popped
  ASSUME TypeOK, NEW m, Reported(m),
         \/ queue' = queue
         \/ \E e \in Event : queue' = Append(queue, e)
         \/ /\ queue # <<>> /\ queue' = Tail(queue)
            /\ ~(Head(queue).type = "result" /\ Head(queue).msg = m)
  PROVE  Reported(m)'
<1>1. PICK i \in 1..Len(queue) : queue[i].type = "result" /\ queue[i].msg = m
  BY DEF Reported
<1>2. CASE queue' = queue
  BY <1>1, <1>2 DEF Reported
<1>3. CASE \E e \in Event : queue' = Append(queue, e)
  <2>1. i \in 1..Len(queue') /\ queue'[i] = queue[i]
    BY <1>3, AppendOf, Typed
  <2> QED
    BY <1>1, <2>1 DEF Reported
<1>4. CASE /\ queue # <<>> /\ queue' = Tail(queue)
           /\ ~(Head(queue).type = "result" /\ Head(queue).msg = m)
  <2>1. /\ Len(queue') = Len(queue) - 1 /\ Len(queue) \in Nat \ {0} /\ Head(queue) = queue[1]
        /\ \A j \in 1..Len(queue') : queue'[j] = queue[j + 1]
    BY <1>4, TailOf, Typed
  <2>2. i # 1
    BY <1>1, <1>4, <2>1
  <2>3. i - 1 \in 1..Len(queue')
    BY <2>1, <2>2
  <2>4. queue'[i - 1] = queue[i]
    <3>1. queue'[i - 1] = queue[(i - 1) + 1]
      BY <2>1, <2>3
    <3>2. (i - 1) + 1 = i
      OBVIOUS
    <3> QED
      BY <3>1, <3>2
  <2> QED
    BY <1>1, <2>3, <2>4 DEF Reported
<1> QED
  BY <1>2, <1>3, <1>4

LEMMA ReportedNow ==
  ASSUME TypeOK, NEW m \in Outbound, NEW o \in Outcome, queue' = Append(queue, Result(m, o))
  PROVE  Reported(m)'
<1>1. Len(queue') = Len(queue) + 1 /\ Len(queue) \in Nat /\ queue'[Len(queue) + 1] = Result(m, o)
  BY AppendOf, EventOf, Typed
<1>2. Len(queue) + 1 \in 1..Len(queue')
  BY <1>1
<1> QED
  BY <1>1, <1>2 DEF Reported, Result

LEMMA KeepReported ==
  ASSUME TypeOK, ReportedInv, UNCHANGED <<inflight, failures>>, phase' = "up" => phase = "up",
         pass.sending \subseteq pass'.sending,
         \/ queue' = queue
         \/ \E e \in Event : queue' = Append(queue, e)
         \/ queue # <<>> /\ queue' = Tail(queue) /\ Head(queue).type = "speak"
  PROVE  ReportedInv'
<1>1. \A m : Reported(m) => Reported(m)'
  BY ReportedStays
<1> QED
  BY <1>1 DEF ReportedInv

LEMMA PumpReported ==
  ASSUME TypeOK, AInv, LockInv, ReportedInv, NEW t \in Tasks, Pump(t)
  PROVE  ReportedInv'
<1>0. pass \in PassType /\ UNCHANGED <<phase, failures>>
  BY Typed DEF Pump, CallPump, EnterPass, AttemptMandatory, BeginProactive, DropProactive,
               OfferProactive, SendReturns, EndPass, history
<1>1. ASSUME NEW m \in Outbound, NEW o \in Outcome, inflight' = inflight \cup {m},
             queue' = Append(queue, Result(m, o)), pass.sending \subseteq pass'.sending \cup {m}
      PROVE  ReportedInv'
  <2>1. Reported(m)'
    BY <1>1, ReportedNow
  <2>2. \A n : Reported(n) => Reported(n)'
    BY <1>1, ReportedStays, EventOf
  <2> QED
    BY <1>0, <1>1, <2>1, <2>2 DEF ReportedInv
<1>2. ASSUME NEW m \in Outbound, Attempt(m), pass.sending = {} PROVE ReportedInv'
  <2>1. CASE Report(m, "no_client")
    BY <1>1, <1>2, <2>1 DEF Report, Outcome
  <2>2. CASE /\ inflight' = inflight \cup {m}
             /\ pass' = [pass EXCEPT !.sending = {m}, !.snap = subs]
             /\ UNCHANGED <<queue, window>>
    <3>1. pass'.sending = {m}
      BY <1>0, <2>2 DEF PassType
    <3>2. \A n : Reported(n) => Reported(n)'
      BY <2>2 DEF Reported
    <3> QED
      BY <1>0, <1>2, <2>2, <3>1, <3>2 DEF ReportedInv
  <2> QED
    BY <1>2, <2>1, <2>2 DEF Attempt
<1>3. CASE CallPump(t) \/ EnterPass(t)
  <2>1. pass' = pass \/ pass.task = "none"
    BY <1>3 DEF CallPump, EnterPass, LockFree, LockInv
  <2>2. pass.sending \subseteq pass'.sending
    BY <2>1 DEF LockInv, NoPass
  <2>3. UNCHANGED <<queue, inflight>>
    BY <1>3 DEF CallPump, EnterPass
  <2> QED
    BY <1>0, <2>2, <2>3, KeepReported
<1>4. CASE AttemptMandatory(t)
  BY <1>2, <1>4, ItemsTyped DEF AttemptMandatory, Running
<1>5. CASE BeginProactive(t) \/ EndPass(t)
  BY <1>0, <1>5, KeepReported DEF BeginProactive, EndPass, Running
<1>6. CASE DropProactive(t)
  <2>1. PICK m \in Items : Report(m, IF m \in pass.late THEN "expired" ELSE "revalidation")
    BY <1>6 DEF DropProactive
  <2> QED
    BY <1>1, <1>6, <2>1, ItemsTyped DEF DropProactive, Running, Report, Outcome
<1>7. CASE OfferProactive(t)
  <2>1. pass.sending = {}
    BY <1>7 DEF OfferProactive, Running
  <2>2. CASE WindowOpen
    BY <1>2, <1>7, <2>1, <2>2, ItemsTyped DEF OfferProactive
  <2>3. CASE ~WindowOpen
    BY <1>0, <1>7, <2>1, <2>3, KeepReported DEF OfferProactive
  <2> QED
    BY <2>2, <2>3
<1>8. CASE SendReturns(t)
  <2>1. PICK m \in pass.sending, o \in {"delivered", "no_client", "transport"} :
          queue' = Append(queue, Result(m, o))
    BY <1>8 DEF SendReturns
  <2>2. pass.sending = {m} /\ m \in inflight /\ m \in Outbound /\ o \in Outcome
    BY Typed DEF AInv, PassInv, Outcome
  <2>3. inflight' = inflight \cup {m}
    BY <1>8, <2>2 DEF SendReturns
  <2> QED
    BY <1>1, <2>1, <2>2, <2>3
<1> QED
  BY <1>3, <1>4, <1>5, <1>6, <1>7, <1>8 DEF Pump

LEMMA StepReported == TypeOK /\ AInv /\ LockInv /\ ReportedInv /\ [Next]_vars => ReportedInv'
<1> SUFFICES ASSUME TypeOK, AInv, LockInv, ReportedInv, [Next]_vars PROVE ReportedInv'
  OBVIOUS
<1>1. CASE \E t \in Tasks : Pump(t)
  BY <1>1, PumpReported
<1>2. CASE ReduceResult
  <2>1. /\ queue # <<>> /\ queue' = Tail(queue) /\ inflight' = inflight \ {Head(queue).msg}
        /\ UNCHANGED <<phase, pass, failures>>
    BY <1>2 DEF ReduceResult, LoopTurn, Discard, history
  <2>2. \A m \in inflight' : Reported(m) => Reported(m)'
    BY <2>1, ReportedStays
  <2> QED
    BY <2>1, <2>2 DEF ReportedInv
<1>3. CASE ReduceRaises
  <2>1. failures' # 0
    <3>1. failures \in Nat
      BY FailuresAssumption DEF TypeOK
    <3> QED
      BY <1>3, <3>1 DEF ReduceRaises
  <2> QED
    BY <2>1 DEF ReportedInv
<1>4. CASE Start \/ Suspend \/ Crash
  BY <1>4 DEF Start, Suspend, Crash, FreshMemory, ReportedInv
<1>5. CASE Stop \/ FlushNext
  BY <1>5 DEF Stop, FlushNext, ReportedInv
<1>6. CASE \/ \E m \in Outbound : Age(m)
           \/ CooldownEnds \/ WindowEnds \/ \E c \in Clients : Subscribe(c) \/ Disconnect(c)
           \/ \E t \in Tasks : SendSuspends(t)
  BY <1>6, KeepReported DEF Age, CooldownEnds, WindowEnds, Subscribe, Disconnect, SendSuspends,
                            pumping, history
<1>7. ASSUME NEW m \in Outbound, Decide(m) PROVE ReportedInv'
  BY <1>7, KeepReported, EventOf DEF Decide, pumping, history
<1>8. CASE ReduceSpeak
  BY <1>8, KeepReported DEF ReduceSpeak, LoopTurn, pumping, history
<1>9. CASE UNCHANGED vars
  BY <1>9, KeepReported DEF vars
<1> QED
  BY <1>1, <1>2, <1>3, <1>4, <1>5, <1>6, <1>7, <1>8, <1>9
     DEF Next, Environment, Reduction, ProcessLife

(* _inflight is exactly what is being broadcast or has its one outcome queued   *)
(* (delivery.py, _attempt and _report).                                      *)
THEOREM InflightIsReportedHolds == Spec => []InflightIsReported
<1>1. Init => ReportedInv
  BY DEF Init, ReportedInv
<1>2. AInv /\ ReportedInv => InflightIsReported
  <2> SUFFICES ASSUME AInv, ReportedInv, phase = "up", NEW m \in Outbound
               PROVE  /\ \A i, j \in Queued("result", m) : i = j
                      /\ Queued("result", m) # {} => m \in inflight \ pass.sending
                      /\ (failures = 0 /\ m \in inflight) =>
                            m \in pass.sending \/ Queued("result", m) # {}
    BY DEF InflightIsReported
  <2>1. \A i, j \in Queued("result", m) : i = j
    BY DEF AInv, QueueInv, Distinct, SameKey, Queued
  <2>2. Queued("result", m) # {} => m \in inflight \ pass.sending
    BY DEF AInv, QueueInv, EventOK, Queued
  <2>3. (failures = 0 /\ m \in inflight) => m \in pass.sending \/ Queued("result", m) # {}
    BY DEF ReportedInv, Reported, Queued
  <2> QED
    BY <2>1, <2>2, <2>3
<1> QED
  BY <1>1, <1>2, StepReported, PumpingInvariance, PTL DEF Spec
=============================================================================
