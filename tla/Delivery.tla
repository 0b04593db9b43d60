------------------------------ MODULE Delivery ------------------------------
(***************************************************************************)
(* Delivery of outbound messages: the reducer creates outbox rows and        *)
(* records delivery outcomes; the delivery pump transports pending rows to   *)
(* the subscribed clients and reports each outcome back as an event.         *)
(*                                                                         *)
(* The coroutines that pump are the reducer loop and the handler of every    *)
(* client connection.  asyncio runs one of them at a time: `cpu' is the one  *)
(* running, and it gives the CPU up only where it really suspends (an empty  *)
(* queue, a held lock, a client that does not drain its socket).  When the   *)
(* CPU is idle any coroutine that can go on may be next.  Passes over the    *)
(* outbox are serialized by an asyncio.Lock, which hands over in FIFO order. *)
(*                                                                         *)
(* The decision to speak (a model's result) is taken as given; one channel.  *)
(***************************************************************************)
EXTENDS Naturals, Sequences, SequencesExt

CONSTANTS
  Mandatory,     \* outbox rows of kind MANDATORY that may be created
  Proactive,     \* outbox rows of kind PROACTIVE that may be created
  Clients,       \* client connections
  MaxFailures    \* bound: reductions of a DeliveryResult that raise

ASSUME KindsAssumption == Mandatory \cap Proactive = {}
ASSUME FailuresAssumption == MaxFailures \in Nat

Outbound == Mandatory \cup Proactive
Loop     == "loop"
Tasks    == {Loop} \cup Clients
ASSUME TasksAssumption == Clients \cap {Loop, "none", "stop"} = {}

VARIABLES
  (* durable: the database *)
  status,     \* status of each outbox row, "none" before it is created
  born,       \* rows in creation order
  turns,      \* turns[m]: agent rows of conversation_turns for m
  cooldown,   \* whether last_delivered_proactive_at still blocks
  aged,       \* proactive rows whose TTL is over
  (* process memory *)
  phase,      \* "down", "up", "stopping"
  cpu,        \* the coroutine running, or "none"; "stop" is AgentService.stop
  pc,         \* what each coroutine is at
  queue,      \* the asyncio.Queue of events
  subs,       \* connections the IPC server broadcasts to
  inflight,   \* DeliveryPump._inflight
  window,     \* whether the proactive burst window is running
  waiters,    \* coroutines waiting for DeliveryPump._lock
  pass,       \* the pass of the coroutine that holds the lock
  (* history *)
  sent,       \* sent[m]: successful broadcasts of m in this session
  reached,    \* rows some client ever took
  offered,    \* proactive attempts since the burst window last ended
  failures

rows    == <<status, born, turns, cooldown, aged>>
pumping == <<inflight, window, waiters, pass>>
history == <<sent, reached, offered, failures>>
vars    == <<status, born, turns, cooldown, aged, phase, cpu, pc, queue, subs,
             inflight, window, waiters, pass, sent, reached, offered, failures>>

Status  == {"none", "PENDING", "DELIVERED", "EXPIRED", "SUPERSEDED", "FAILED"}
Outcome == {"delivered", "no_client", "transport", "expired", "revalidation"}

(* "get": the loop at queue.get; "pump": about to call pump(); "wait": in    *)
(* lock.acquire; "granted": handed the lock, not yet resumed; "pass": in     *)
(* _pump_pass; "read": a connection waiting for its client; "away": none.    *)
Pc == {"get", "pump", "wait", "granted", "pass", "read", "away"}

Speak(m)     == [type |-> "speak", msg |-> m, outcome |-> "none"]
Result(m, o) == [type |-> "result", msg |-> m, outcome |-> o]
Event == [type : {"speak", "result"}, msg : Outbound, outcome : Outcome \cup {"none"}]

(* stage: "mandatory", then "proactive"; todo: rows of the stage left; later: *)
(* the proactive rows, until their stage; late: rows past their TTL at the    *)
(* pass's `now'; open: burst_elapsed and not delivered_one; sending: the row  *)
(* being broadcast, to the subscribers snap.                                 *)
NoPass == [task |-> "none", stage |-> "none", todo |-> {}, later |-> {},
           late |-> {}, open |-> "no", sending |-> {}, snap |-> {}]

Pending(m) == status[m] = "PENDING"
Queued(type, m) == {i \in 1..Len(queue) : queue[i].type = type /\ queue[i].msg = m}

-----------------------------------------------------------------------------
(* The environment: models that decide to speak, time, connections.  Time     *)
(* passes while no coroutine runs: a pass reads `now' once, and what it does  *)
(* between two suspensions is instantaneous.                                 *)

(* A generative worker's result, which says to speak, joins the queue.       *)
Decide(m) ==
  /\ phase \in {"up", "stopping"} /\ cpu = "none"
  /\ status[m] = "none" /\ Queued("speak", m) = {}
  /\ queue' = Append(queue, Speak(m))
  /\ UNCHANGED <<rows, phase, cpu, pc, subs, pumping, history>>

(* The TTL of a pending proactive row ends, whether or not a service runs.   *)
Age(m) ==
  /\ cpu = "none" /\ m \in Proactive \ aged /\ Pending(m)
  /\ aged' = aged \cup {m}
  /\ UNCHANGED <<status, born, turns, cooldown, phase, cpu, pc, queue, subs,
                 pumping, history>>

CooldownEnds ==
  /\ cpu = "none" /\ cooldown = "active"
  /\ cooldown' = "clear"
  /\ UNCHANGED <<status, born, turns, aged, phase, cpu, pc, queue, subs,
                 pumping, history>>

WindowEnds ==
  /\ cpu = "none" /\ window = "running"
  /\ window' = "elapsed"
  /\ offered' = 0
  /\ UNCHANGED <<rows, phase, cpu, pc, queue, subs, inflight, waiters, pass,
                 sent, reached, failures>>

(* OP_SUBSCRIBE, up to the call of notify_client_connected.                  *)
Subscribe(c) ==
  /\ phase = "up" /\ cpu = "none" /\ pc[c] = "away"
  /\ subs' = subs \cup {c}
  /\ pc' = [pc EXCEPT ![c] = "pump"]
  /\ UNCHANGED <<rows, phase, cpu, queue, pumping, history>>

(* _handle's finally: the connection broke while its handler was reading or  *)
(* acknowledging the subscription.                                          *)
Disconnect(c) ==
  /\ cpu = "none" /\ pc[c] \in {"read", "pump"}
  /\ subs' = subs \ {c}
  /\ pc' = [pc EXCEPT ![c] = "away"]
  /\ UNCHANGED <<rows, phase, cpu, queue, pumping, history>>

-----------------------------------------------------------------------------
(* Reductions.                                                              *)

SupersedeAlways(n, m) ==   \* faulty variant: an answer supersedes too
  IF n \in Proactive /\ Pending(n) THEN "SUPERSEDED" ELSE status[n]
(* _supersede_pending_proactive: what the creation of proactive row m leaves *)
(* row n in.                                                                *)
Supersede(n, m) ==
  IF n \in Proactive /\ Pending(n) /\ m \in Proactive THEN "SUPERSEDED" ELSE status[n]

(* The row is created, or, for a proactive one, dropped by the pre-outbox    *)
(* gates: the cooldown, or anything else they look at.  `spoke' says which.  *)
CreateOutbound(m) ==
  /\ m \in Proactive => cooldown = "clear"
  /\ status' = [n \in Outbound |-> IF n = m THEN "PENDING" ELSE Supersede(n, m)]
  /\ born' = Append(born, m)
  /\ UNCHANGED <<turns, cooldown, aged>>

(* handle_delivery_result, _handle_undelivered: the status an outcome gives. *)
Settled(m, o) ==
  IF o = "delivered" THEN "DELIVERED"
  ELSE IF m \in Mandatory \/ o = "no_client" THEN "PENDING"
  ELSE IF o = "transport" THEN "FAILED" ELSE "EXPIRED"

TurnAtAttempt(m, o) == TRUE   \* faulty variant: any outcome makes a turn
(* Only a delivered row becomes a conversation turn.                         *)
MakesTurn(m, o) == o = "delivered"

RecordResult(m, o) ==
  IF status[m] = "DELIVERED"
    THEN UNCHANGED rows
    ELSE /\ status' = [status EXCEPT ![m] = Settled(m, o)]
         /\ turns' = IF MakesTurn(m, o) THEN [turns EXCEPT ![m] = @ + 1] ELSE turns
         /\ cooldown' = IF o = "delivered" /\ m \in Proactive THEN "active" ELSE cooldown
         /\ UNCHANGED <<born, aged>>

(* Where the loop goes after an event that pumps nothing: to the next event  *)
(* without suspending, or to sleep in queue.get.                             *)
NextEvent == IF Tail(queue) = <<>> THEN "none" ELSE Loop

LoopTurn == phase = "up" /\ cpu \in {"none", Loop} /\ pc[Loop] = "get" /\ queue # <<>>

(* _process of a result that speaks: reduce, then pump.                      *)
ReduceSpeak ==
  /\ LoopTurn /\ Head(queue).type = "speak"
  /\ queue' = Tail(queue)
  /\ \/ /\ CreateOutbound(Head(queue).msg)
        /\ cpu' = Loop
        /\ pc' = [pc EXCEPT ![Loop] = "pump"]
     \/ /\ Head(queue).msg \in Proactive     \* a gate of _finish_proactive
        /\ cpu' = NextEvent
        /\ UNCHANGED <<rows, pc>>
  /\ UNCHANGED <<phase, subs, pumping, history>>

KeepInflight(m) == inflight   \* faulty variant: on_delivery_result forgotten
(* on_delivery_result                                                       *)
Discard(m) == inflight \ {m}

(* _process of a DeliveryResult.                                             *)
ReduceResult ==
  /\ LoopTurn /\ Head(queue).type = "result"
  /\ RecordResult(Head(queue).msg, Head(queue).outcome)
  /\ queue' = Tail(queue)
  /\ inflight' = Discard(Head(queue).msg)
  /\ cpu' = NextEvent
  /\ UNCHANGED <<phase, pc, subs, window, waiters, pass, history>>

(* The reduction raises: the loop logs it and goes on, and on_delivery_result *)
(* is not reached.                                                          *)
ReduceRaises ==
  /\ LoopTurn /\ failures < MaxFailures
  /\ failures' = failures + 1
  /\ queue' = Tail(queue)
  /\ cpu' = NextEvent
  /\ UNCHANGED <<rows, phase, pc, subs, pumping, sent, reached, offered>>

-----------------------------------------------------------------------------
(* The pump.                                                                *)

IgnoreInflight(m) == Pending(m)   \* faulty variant: reported rows sent again
(* deliverable() and not in _inflight                                       *)
Deliverable(m) == Pending(m) /\ m \notin inflight

(* _pump_pass up to its loops: the snapshot every later step works from.     *)
StartPass(t) ==
  pass' = [NoPass EXCEPT !.task = t, !.stage = "mandatory",
                         !.todo = {m \in Mandatory : Deliverable(m)},
                         !.later = {m \in Proactive : Deliverable(m)},
                         !.late = aged]

(* The lock is not held and nobody waits for it.                             *)
LockFree == pass.task = "none" /\ waiters = <<>> /\ \A t \in Tasks : pc[t] # "granted"

(* pump(): acquire the lock at once, or queue up for it.                     *)
CallPump(t) ==
  /\ pc[t] = "pump" /\ cpu = IF t = Loop THEN Loop ELSE "none"
  /\ IF LockFree
       THEN /\ StartPass(t)
            /\ pc' = [pc EXCEPT ![t] = "pass"]
            /\ cpu' = t
            /\ UNCHANGED waiters
       ELSE /\ waiters' = Append(waiters, t)
            /\ pc' = [pc EXCEPT ![t] = "wait"]
            /\ cpu' = "none"
            /\ UNCHANGED pass
  /\ UNCHANGED <<rows, phase, queue, subs, inflight, window, history>>

(* A coroutine handed the lock resumes.                                      *)
EnterPass(t) ==
  /\ pc[t] = "granted" /\ cpu = "none"
  /\ StartPass(t)
  /\ pc' = [pc EXCEPT ![t] = "pass"]
  /\ cpu' = t
  /\ UNCHANGED <<rows, phase, queue, subs, inflight, window, waiters, history>>

Running(t) == pc[t] = "pass" /\ cpu = t /\ pass.task = t /\ pass.sending = {}
(* The row the pass looks at: pending() orders by creation.                   *)
CreatedBefore(m, n) == \E i, j \in 1..Len(born) : i < j /\ born[i] = m /\ born[j] = n
Items == {m \in pass.todo : \A n \in pass.todo : n = m \/ CreatedBefore(m, n)}

(* _report: in flight until the result is reduced.                           *)
Report(m, o) ==
  /\ inflight' = inflight \cup {m}
  /\ queue' = Append(queue, Result(m, o))

(* _attempt as far as the transport: nothing to send to, or a broadcast to    *)
(* the subscribers of this moment begins.                                   *)
Attempt(m) ==
  IF subs = {}
    THEN /\ Report(m, "no_client")
         /\ pass' = [pass EXCEPT !.todo = @ \ {m}, !.open = IF m \in Proactive THEN "no" ELSE @]
         /\ window' = IF m \in Proactive THEN "running" ELSE window
    ELSE /\ inflight' = inflight \cup {m}
         /\ pass' = [pass EXCEPT !.sending = {m}, !.snap = subs]
         /\ UNCHANGED <<queue, window>>

AttemptMandatory(t) ==
  /\ Running(t) /\ pass.stage = "mandatory"
  /\ \E m \in Items : Attempt(m)
  /\ UNCHANGED <<rows, phase, cpu, pc, subs, waiters, history>>

(* _pump_one_proactive begins: the burst window is read once.                *)
BeginProactive(t) ==
  /\ Running(t) /\ pass.stage = "mandatory" /\ pass.todo = {}
  /\ pass' = [pass EXCEPT !.stage = "proactive", !.todo = pass.later, !.later = {},
                          !.open = IF window = "elapsed" THEN "yes" ELSE "no"]
  /\ UNCHANGED <<rows, phase, cpu, pc, queue, subs, inflight, window, waiters, history>>

(* A row past its TTL or refused by a gate (the cooldown, or any other) is   *)
(* reported as dropped.                                                     *)
DropProactive(t) ==
  /\ Running(t) /\ pass.stage = "proactive"
  /\ \E m \in Items :
       /\ Report(m, IF m \in pass.late THEN "expired" ELSE "revalidation")
       /\ pass' = [pass EXCEPT !.todo = @ \ {m}]
  /\ UNCHANGED <<rows, phase, cpu, pc, subs, window, waiters, history>>

(* A row that passed every check                                            *)
Passes(m) == m \notin pass.late /\ cooldown = "clear"

WindowIgnored == TRUE   \* faulty variant: neither burst window nor delivered_one
(* not (delivered_one or not burst_elapsed)                                  *)
WindowOpen == pass.open = "yes"

OfferProactive(t) ==
  /\ Running(t) /\ pass.stage = "proactive"
  /\ \E m \in Items :
       /\ Passes(m)
       /\ IF WindowOpen
            THEN /\ Attempt(m)
                 /\ offered' = offered + 1
            ELSE /\ pass' = [pass EXCEPT !.todo = @ \ {m}]
                 /\ UNCHANGED <<inflight, queue, window, offered>>
  /\ UNCHANGED <<rows, phase, cpu, pc, subs, waiters, sent, reached, failures>>

(* A subscriber does not drain its socket: the broadcast suspends.           *)
SendSuspends(t) ==
  /\ cpu = t /\ pass.task = t /\ pass.sending # {}
  /\ cpu' = "none"
  /\ UNCHANGED <<rows, phase, pc, queue, subs, pumping, history>>

(* _broadcast returns, or raises something else than an OSError.  The        *)
(* subscribers found dead are dropped; the row is delivered if one took it.  *)
SendReturns(t) ==
  /\ cpu \in {t, "none"} /\ pass.task = t
  /\ \E m \in pass.sending :
       /\ \E dead \in SUBSET pass.snap, o \in {"delivered", "no_client", "transport"} :
            /\ o = "no_client" <=> dead = pass.snap
            /\ o = "transport" => dead = {}
            /\ subs' = subs \ dead
            /\ queue' = Append(queue, Result(m, o))
            /\ sent' = IF o = "delivered" THEN [sent EXCEPT ![m] = @ + 1] ELSE sent
            /\ reached' = IF dead = pass.snap THEN reached ELSE reached \cup {m}
       /\ window' = IF m \in Proactive THEN "running" ELSE window
       /\ pass' = [pass EXCEPT !.todo = @ \ {m}, !.sending = {}, !.snap = {},
                               !.open = IF m \in Proactive THEN "no" ELSE @]
  /\ cpu' = t
  /\ UNCHANGED <<rows, phase, pc, inflight, waiters, offered, failures>>

ReleaseToNobody(t, next) ==   \* faulty variant: the waiters are not woken
  pass' = NoPass /\ pc' = [pc EXCEPT ![t] = next] /\ UNCHANGED waiters
(* asyncio.Lock.release hands over to the first waiter; `next' is what the    *)
(* releasing coroutine t does then.                                         *)
Release(t, next) ==
  /\ pass' = NoPass
  /\ IF waiters = <<>>
       THEN pc' = [pc EXCEPT ![t] = next] /\ UNCHANGED waiters
       ELSE /\ pc' = [pc EXCEPT ![t] = next, ![Head(waiters)] = "granted"]
            /\ waiters' = Tail(waiters)

EndPass(t) ==
  /\ Running(t) /\ pass.stage = "proactive" /\ pass.todo = {}
  /\ Release(t, IF t = Loop THEN "get" ELSE "read")
  /\ cpu' = IF t = Loop /\ queue # <<>> THEN Loop ELSE "none"
  /\ UNCHANGED <<rows, phase, queue, subs, inflight, window, history>>

-----------------------------------------------------------------------------
(* Process life.                                                            *)

FreshMemory(p) ==
  /\ phase' = p /\ cpu' = "none"
  /\ pc' = [t \in Tasks |-> IF t = Loop THEN "get" ELSE "away"]
  /\ queue' = <<>> /\ subs' = {} /\ inflight' = {} /\ window' = "elapsed"
  /\ waiters' = <<>> /\ pass' = NoPass
  /\ sent' = [m \in Outbound |-> 0] /\ offered' = 0

(* recover (_expire_stale_proactive) and start().                            *)
Start ==
  /\ phase = "down"
  /\ status' = [m \in Outbound |-> IF Pending(m) /\ m \in aged THEN "EXPIRED" ELSE status[m]]
  /\ FreshMemory("up")
  /\ UNCHANGED <<born, turns, cooldown, aged, reached, failures>>

(* stop(): the reducer loop is cancelled wherever it is; connections may      *)
(* still finish a pass while the workers are drained.                        *)
Stop ==
  /\ phase = "up" /\ cpu = "none"
  /\ phase' = "stopping"
  /\ \/ pc[Loop] \in {"pass", "granted"} /\ Release(Loop, "away")
     \/ /\ pc[Loop] = "wait"
        /\ \E i \in 1..Len(waiters) : waiters[i] = Loop /\ waiters' = RemoveAt(waiters, i)
        /\ pc' = [pc EXCEPT ![Loop] = "away"] /\ UNCHANGED pass
     \/ /\ pc[Loop] \notin {"pass", "granted", "wait"}
        /\ pc' = [pc EXCEPT ![Loop] = "away"] /\ UNCHANGED <<waiters, pass>>
  /\ UNCHANGED <<rows, cpu, queue, subs, inflight, window, history>>

(* _reduce_remaining: results are reduced, in one uninterrupted run, and      *)
(* nothing is delivered.                                                    *)
FlushNext ==
  /\ phase = "stopping" /\ cpu \in {"none", "stop"} /\ queue # <<>>
  /\ \/ Head(queue).type = "speak" /\ CreateOutbound(Head(queue).msg)
     \/ Head(queue).type = "speak" /\ Head(queue).msg \in Proactive /\ UNCHANGED rows
     \/ Head(queue).type = "result" /\ RecordResult(Head(queue).msg, Head(queue).outcome)
  /\ queue' = Tail(queue)
  /\ cpu' = "stop"
  /\ UNCHANGED <<phase, pc, subs, pumping, history>>

(* The stores are closed and the process ends.                               *)
Suspend ==
  /\ phase = "stopping" /\ cpu \in {"none", "stop"} /\ queue = <<>>
  /\ FreshMemory("down")
  /\ UNCHANGED <<rows, reached, failures>>

Crash ==
  /\ phase # "down"
  /\ FreshMemory("down")
  /\ UNCHANGED <<rows, reached, failures>>

-----------------------------------------------------------------------------
Init ==
  /\ status = [m \in Outbound |-> "none"]
  /\ born = <<>>
  /\ turns = [m \in Outbound |-> 0]
  /\ cooldown = "clear" /\ aged = {}
  /\ phase = "down" /\ cpu = "none"
  /\ pc = [t \in Tasks |-> IF t = Loop THEN "get" ELSE "away"]
  /\ queue = <<>> /\ subs = {} /\ inflight = {} /\ window = "elapsed"
  /\ waiters = <<>> /\ pass = NoPass
  /\ sent = [m \in Outbound |-> 0] /\ reached = {} /\ offered = 0 /\ failures = 0

Pump(t) ==
  \/ CallPump(t) \/ EnterPass(t) \/ AttemptMandatory(t) \/ BeginProactive(t)
  \/ DropProactive(t) \/ OfferProactive(t) \/ SendReturns(t) \/ EndPass(t)

Reduction == ReduceSpeak \/ ReduceResult

Environment ==
  \/ \E m \in Outbound : Decide(m) \/ Age(m)
  \/ CooldownEnds \/ WindowEnds
  \/ \E c \in Clients : Subscribe(c) \/ Disconnect(c)
  \/ \E t \in Tasks : SendSuspends(t)

ProcessLife == Start \/ Stop \/ FlushNext \/ Suspend \/ Crash

Next == Environment \/ Reduction \/ ReduceRaises \/ (\E t \in Tasks : Pump(t)) \/ ProcessLife

(* A process that stays up: no stop, no crash.                               *)
NextUp == Environment \/ Reduction \/ ReduceRaises \/ (\E t \in Tasks : Pump(t)) \/ Start

Spec == Init /\ [][Next]_vars

(* asyncio's ready queue is FIFO, so a coroutine that can go on runs although *)
(* others keep taking the CPU (strong fairness); a broadcast returns (each    *)
(* client drains its socket or breaks); time passes.                         *)
Fairness ==
  /\ SF_vars(Reduction)
  /\ \A t \in Tasks : SF_vars(Pump(t))
  /\ WF_vars(WindowEnds)

FairSpec == Init /\ [][NextUp]_vars /\ Fairness

-----------------------------------------------------------------------------
(* Properties.                                                              *)

TypeOK ==
  /\ status \in [Outbound -> Status]
  /\ born \in Seq(Outbound)
  /\ turns \in [Outbound -> Nat]
  /\ cooldown \in {"clear", "active"} /\ aged \subseteq Proactive
  /\ phase \in {"down", "up", "stopping"}
  /\ cpu \in Tasks \cup {"none", "stop"}
  /\ pc \in [Tasks -> Pc]
  /\ queue \in Seq(Event)
  /\ subs \subseteq Clients /\ inflight \subseteq Outbound
  /\ window \in {"elapsed", "running"}
  /\ waiters \in Seq(Tasks)
  /\ pass \in [task : Tasks \cup {"none"}, stage : {"none", "mandatory", "proactive"},
               todo : SUBSET Outbound, later : SUBSET Proactive, late : SUBSET Proactive,
               open : {"yes", "no"}, sending : SUBSET Outbound, snap : SUBSET Clients]
  /\ sent \in [Outbound -> Nat] /\ reached \subseteq Outbound
  /\ offered \in Nat /\ failures \in 0..MaxFailures

(* Within a session no row is broadcast successfully twice, however passes of *)
(* the loop and of connections, late results and raising reductions           *)
(* interleave (the lock and _inflight of DeliveryPump).                      *)
SentOncePerSession == \A m \in Outbound : sent[m] <= 1

(* Invariant 37 across crashes and resends: a row has exactly one turn if it  *)
(* is DELIVERED and none otherwise, and only a row that was broadcast to a    *)
(* live subscriber has one.                                                 *)
TurnMeansHeard ==
  \A m \in Outbound :
    /\ turns[m] = IF status[m] = "DELIVERED" THEN 1 ELSE 0
    /\ turns[m] > 0 => m \in reached

(* No dogpile (invariant 38): at most one proactive row is attempted per      *)
(* burst window, over all passes of all coroutines, until the service stops   *)
(* (a stop that cancels the loop's broadcast leaves the window unstarted).    *)
OneProactivePerWindow == phase = "up" => offered <= 1

(* _inflight is exactly what is being broadcast or has an outcome queued, one *)
(* outcome each: nothing is reported twice, and, while no reduction raised,  *)
(* nothing is shut out of later passes for good.                             *)
InflightIsReported ==
  phase = "up" =>
    \A m \in Outbound :
      /\ \A i, j \in Queued("result", m) : i = j
      /\ Queued("result", m) # {} => m \in inflight \ pass.sending
      /\ (failures = 0 /\ m \in inflight) => m \in pass.sending \/ Queued("result", m) # {}

(* A row's fate is sealed: DELIVERED, EXPIRED and FAILED are final, and a     *)
(* mandatory row only ever goes from PENDING to DELIVERED (invariant 25).     *)
FateIsSealed ==
  [][\A m \in Outbound :
       /\ status[m] \in {"DELIVERED", "EXPIRED", "FAILED"} => status'[m] = status[m]
       /\ m \in Mandatory => status'[m] \in {status[m], "PENDING", "DELIVERED"}]_vars

FateOf(s) ==
  CASE s = "none"       -> "unsaid"
    [] s = "PENDING"    -> "due"
    [] s = "SUPERSEDED" -> "superseded"
    [] s = "DELIVERED"  -> "said"
    [] s \in {"EXPIRED", "FAILED"} -> "dropped"

Speech == INSTANCE Outbox WITH
  fate       <- [m \in Outbound |-> FateOf(status[m])],
  aired      <- {m \in Outbound : sent[m] > 0},
  heard      <- reached,
  transcript <- turns

(* The pump, its lock and its late results implement the outbox: what a step   *)
(* does to the rows is one step of Outbox or none.  In particular a row that   *)
(* was broadcast can only become a turn, for as long as the process lives.    *)
ImplementsOutbox == Speech!Spec

(* A coroutine that waits for the pump gets its pass.                        *)
WaiterGetsPass ==
  \A t \in Tasks : (pc[t] \in {"wait", "granted"}) ~> (pc[t] = "pass")

(* What was attempted is eventually free to be attempted again, or settled,   *)
(* except a row whose outcome was lost in a reduction that raised (which     *)
(* _inflight shuts out until the restart).                                   *)
OutcomeLost(m) == failures > 0 /\ m \notin pass.sending /\ Queued("result", m) = {}
InflightSettles ==
  \A m \in Outbound : (m \in inflight) ~> (m \notin inflight \/ OutcomeLost(m))

(* The comment of outbound.py: proactive items "supersede any earlier         *)
(* still-pending proactive item on the same channel so at most one remains   *)
(* eligible".  Violated: a row superseded while it was in flight becomes      *)
(* PENDING again when its no_client outcome is reduced.                      *)
AtMostOneEligible ==
  \A m, n \in Proactive : Pending(m) /\ Pending(n) => m = n

(* DESIGN 29.7 rule 4: supersession is checked again before a proactive item  *)
(* is dispatched.  Violated: a pass transports from the snapshot it took      *)
(* before it suspended in an earlier broadcast.                              *)
SupersessionRechecked ==
  [][\A m \in Proactive :
       m \in pass'.sending \ pass.sending => Pending(m)]_vars

(* The comment of _handle_undelivered: a proactive row with no client is held *)
(* for reconnect, "this is why an idle client eventually receives it".       *)
(* Violated: the attempt without a client started the burst window, the       *)
(* reconnecting client's pass skips the row, and nothing pumps when the       *)
(* window ends.                                                             *)
IdleClientReceives ==
  \A m \in Proactive :
    (Pending(m) /\ subs # {}) ~> (~Pending(m) \/ subs = {})
=============================================================================
