------------------------------- MODULE Budgets -------------------------------
(***************************************************************************)
(* The budgets of proactive cognition (DESIGN 25): model calls per hour and  *)
(* per day, messages per hour.  They are rows of budget_usage keyed by the   *)
(* wall-clock window, read and charged at different moments of a proactive    *)
(* cycle:                                                                   *)
(*                                                                         *)
(*   wake: calls read and charged, messages read                             *)
(*     - calls of the model, retried and repeated after a restart: uncharged  *)
(*     - result: messages read and charged, the outbound row created          *)
(*       - every pump pass: messages read again before the row is transported, *)
(*         by the hour and the list of rows read when the pass began          *)
(*                                                                         *)
(* Any of them may fall into another hour than the one before, the service    *)
(* may be down for hours in between, cycles overlap, and a pass is suspended  *)
(* while it sends.  The gates that are not about the budget (cooldown, mode,   *)
(* quiet hours, repeats, focus) and the row's TTL may refuse at any time, and *)
(* a pass may leave rows for the next: the burst window is Delivery's.  An    *)
(* event is taken to be reduced in the hour it is stamped with.              *)
(***************************************************************************)
EXTENDS Naturals, FiniteSets

CONSTANTS
  Cycles,          \* proactive cycles that may be started
  CallsPerHour,    \* budgets.proactive_llm_calls_per_hour
  CallsPerDay,     \* budgets.proactive_llm_calls_per_day
  MessagesPerHour, \* budgets.proactive_messages_per_hour
  Attempts,        \* the dispatcher's _MAX_ATTEMPTS
  DayLength,       \* hours in a day
  MaxHour          \* bound: hours in a behaviour

ASSUME LimitsAssumption ==
  CallsPerHour \in Nat /\ CallsPerDay \in Nat /\ MessagesPerHour \in Nat
ASSUME AttemptsAssumption == Attempts \in Nat \ {0}
ASSUME TimeAssumption == DayLength \in Nat \ {0} /\ MaxHour \in Nat \ {0}
ASSUME CyclesAssumption == IsFiniteSet(Cycles)

VARIABLES
  hour,      \* the current UTC hour; its day is the UTC day
  up,        \* whether the service runs
  (* durable *)
  llmHour,   \* budget_usage of kind llm_hour, by window
  llmDay,    \* ... of kind llm_day
  msgHour,   \* ... of kind msg_hour
  cycle,     \* "none", "speak" or "enrich" (output_eligible) while its work runs, "over"
  status,    \* the outbound row of each cycle, see Status
  (* process memory *)
  tries,     \* calls of the model made for each cycle since the service started
  pass,      \* the pump pass under the lock, see Pass
  report,    \* the DeliveryResult that waits to be reduced: the row is in flight
  (* history *)
  began,     \* the hour each cycle was started in
  eligible,  \* cycles whose work was created with output_eligible
  heard,     \* the hour in which each row was transported, 0 for never
  carried,   \* rows heard that the budget of an earlier hour let through
  revived    \* whether a superseded row became deliverable again

usage   == <<llmHour, llmDay, msgHour>>
pump    == <<status, pass, report>>
history == <<began, eligible, heard, carried, revived>>
vars    == <<hour, up, usage, cycle, tries, pump, history>>

Hours == 1..MaxHour
DayOf(h) == (h - 1) \div DayLength
Day      == DayOf(hour)
Days     == {DayOf(h) : h \in Hours}
(* A row: none yet, pending, or closed - delivered, superseded, expired or      *)
(* failed, which the budget does not tell apart.                             *)
Status == {"none", "PENDING", "closed"}
(* A result: no client was there, or any that closes the row.                 *)
Report == {"none", "no_client", "closes"}
(* A pass of the pump: the hour read when it began, 0 without a pass; the rows *)
(* read then and not yet dealt with; the one on the air, if any.              *)
Pass == [now : 0..MaxHour, list : SUBSET Cycles, air : SUBSET Cycles]
Idle == [now |-> 0, list |-> {}, air |-> {}]
Bump(count, w) == [count EXCEPT ![w] = @ + 1]

-----------------------------------------------------------------------------
(* The two budgets.                                                         *)

HourOnly == llmHour[hour] < CallsPerHour   \* faulty variant: the day is not read
(* proactive_llm_call_allowed                                                *)
CallAllowed == llmDay[Day] < CallsPerDay /\ llmHour[hour] < CallsPerHour

(* proactive_message_allowed, one of evaluate_proactive's gates               *)
MessageAllowed == msgHour[hour] < MessagesPerHour

(* handle_stochastic_wake from the budget on: the cycle may speak if every     *)
(* gate allows it, and otherwise is started only to enrich a memory.         *)
Wake(c) ==
  /\ up /\ cycle[c] = "none" /\ CallAllowed
  /\ llmHour' = Bump(llmHour, hour) /\ llmDay' = Bump(llmDay, Day)
  /\ \E kind \in {"speak", "enrich"} :
       /\ kind = "speak" => MessageAllowed
       /\ cycle' = [cycle EXCEPT ![c] = kind]
       /\ eligible' = IF kind = "speak" THEN eligible \cup {c} ELSE eligible
  /\ began' = [began EXCEPT ![c] = hour]
  /\ UNCHANGED <<hour, up, msgHour, tries, pump, heard, carried, revived>>

(* _run: the first call of the model for a cycle, or a retry; nothing is        *)
(* charged.  A restart dispatches the cycle's work again, from attempt 1.      *)
Call(c) ==
  /\ up /\ cycle[c] \in {"speak", "enrich"} /\ tries[c] < Attempts
  /\ tries' = [tries EXCEPT ![c] = @ + 1]
  /\ UNCHANGED <<hour, up, usage, cycle, pump, history>>

(* A call came to an end.                                                    *)
Answered(c) == up /\ cycle[c] \in {"speak", "enrich"} /\ tries[c] > 0

(* _finish_proactive's guard before the gates: "enrichment_only"              *)
OutputEligible(c) == cycle[c] = "speak"

(* evaluate_proactive before the outbox                                      *)
MayCreate == MessageAllowed

(* _supersede_pending_proactive: also rows that are in flight.                *)
Supersede(c) ==
  [d \in Cycles |-> IF d = c THEN "PENDING"
                    ELSE IF status[d] = "PENDING" THEN "closed" ELSE status[d]]

(* _finish_proactive: a message is charged and its row created, or silence.   *)
Speak(c) ==
  /\ Answered(c) /\ OutputEligible(c) /\ MayCreate
  /\ msgHour' = Bump(msgHour, hour)
  /\ status' = Supersede(c)
  /\ cycle' = [cycle EXCEPT ![c] = "over"]
  /\ UNCHANGED <<hour, up, llmHour, llmDay, tries, pass, report, history>>

(* ... silence also when the work failed for good (_fail_terminal).            *)
Silence(c) ==
  /\ Answered(c)
  /\ cycle' = [cycle EXCEPT ![c] = "over"]
  /\ UNCHANGED <<hour, up, usage, tries, pump, history>>

-----------------------------------------------------------------------------
(* Delivery: _pump_pass, under the pump's lock.                              *)

(* The hour and the deliverable rows are read once, here; then the mandatory    *)
(* messages are sent.  A pass without proactive rows is left out: it only      *)
(* keeps other passes waiting.                                              *)
PassBegins ==
  /\ up /\ pass = Idle
  /\ \E c \in Cycles : status[c] = "PENDING" /\ report[c] = "none"
  /\ pass' = [Idle EXCEPT !.now = hour,
                         !.list = {c \in Cycles : status[c] = "PENDING" /\ report[c] = "none"}]
  /\ UNCHANGED <<hour, up, usage, cycle, tries, status, report, history>>

CreatedMeansAllowed == TRUE   \* faulty variant: the budget is not read again
(* evaluate_proactive before the transport, with the pass's time               *)
MayTransport == msgHour[pass.now] < MessagesPerHour

(* The rows of a stretch of the loop that are reported as dropped: their TTL is *)
(* over, or a gate refused - every row, if it was the message budget.         *)
MayDrop(rows, dropped) == dropped \subseteq rows /\ (dropped # rows => MayTransport)

(* _pump_one_proactive: the first row that may go is put on the air ...        *)
PassSends(c) ==
  /\ pass # Idle /\ pass.air = {} /\ c \in pass.list /\ MayTransport
  /\ \E dropped \in SUBSET (pass.list \ {c}) :
       /\ pass' = [pass EXCEPT !.list = @ \ (dropped \cup {c}), !.air = {c}]
       /\ report' = [d \in Cycles |-> IF d \in dropped THEN "closes" ELSE report[d]]
  /\ UNCHANGED <<hour, up, usage, cycle, tries, status, history>>

(* ... or none goes: the burst window is not over, or none may.               *)
PassSkips ==
  /\ pass # Idle /\ pass.air = {}
  /\ \E dropped \in SUBSET pass.list :
       /\ MayDrop(pass.list, dropped)
       /\ report' = [d \in Cycles |-> IF d \in dropped THEN "closes" ELSE report[d]]
  /\ pass' = Idle
  /\ UNCHANGED <<hour, up, usage, cycle, tries, status, history>>

(* _attempt from the end of the broadcast on, and the rest of the loop, which   *)
(* sends nothing more.                                                      *)
PassSent(c) ==
  /\ c \in pass.air
  /\ \E result \in {"delivered", "no_client", "closes"}, dropped \in SUBSET pass.list :
       /\ MayDrop(pass.list, dropped)
       /\ report' = [d \in Cycles |->
                       IF d = c THEN IF result = "no_client" THEN result ELSE "closes"
                       ELSE IF d \in dropped THEN "closes" ELSE report[d]]
       /\ IF result = "delivered"
            THEN /\ heard' = [heard EXCEPT ![c] = hour]
                 /\ carried' = IF pass.now = hour THEN carried \ {c} ELSE carried \cup {c}
            ELSE UNCHANGED <<heard, carried>>
  /\ pass' = Idle
  /\ UNCHANGED <<hour, up, usage, cycle, tries, status, began, eligible, revived>>

(* handle_delivery_result                                                   *)
Settle(c) ==
  /\ up /\ report[c] # "none"
  /\ status' = [status EXCEPT ![c] = IF report[c] = "no_client" THEN "PENDING" ELSE "closed"]
  /\ report' = [report EXCEPT ![c] = "none"]
  /\ revived' = (revived \/ (status[c] # "PENDING" /\ report[c] = "no_client"))
  /\ UNCHANGED <<hour, up, usage, cycle, tries, pass, began, eligible, heard, carried>>

-----------------------------------------------------------------------------
(* Time, and the life of the service.                                       *)

HourPasses ==
  /\ hour < MaxHour /\ hour' = hour + 1
  /\ UNCHANGED <<up, usage, cycle, tries, pump, history>>

(* What was in flight is forgotten, its row PENDING still; so are the calls.    *)
Down ==
  /\ up /\ up' = FALSE
  /\ report' = [c \in Cycles |-> "none"] /\ pass' = Idle
  /\ tries' = [c \in Cycles |-> 0]
  /\ UNCHANGED <<hour, usage, cycle, status, history>>

(* start(): work of the dead process is dispatched again; recover() may        *)
(* expire rows whose TTL is over.                                           *)
Start ==
  /\ ~up /\ up' = TRUE
  /\ \E stale \in SUBSET {c \in Cycles : status[c] = "PENDING"} :
       status' = [c \in Cycles |-> IF c \in stale THEN "closed" ELSE status[c]]
  /\ UNCHANGED <<hour, usage, cycle, tries, pass, report, history>>

Init ==
  /\ hour = 1 /\ up = TRUE
  /\ llmHour = [h \in Hours |-> 0] /\ msgHour = [h \in Hours |-> 0]
  /\ llmDay = [d \in Days |-> 0]
  /\ cycle = [c \in Cycles |-> "none"] /\ status = [c \in Cycles |-> "none"]
  /\ report = [c \in Cycles |-> "none"] /\ pass = Idle
  /\ tries = [c \in Cycles |-> 0]
  /\ began = [c \in Cycles |-> 0] /\ eligible = {}
  /\ heard = [c \in Cycles |-> 0] /\ carried = {} /\ revived = FALSE

Next ==
  \/ \E c \in Cycles :
       \/ Wake(c) \/ Call(c) \/ Speak(c) \/ Silence(c)
       \/ PassSends(c) \/ PassSent(c) \/ Settle(c)
  \/ PassBegins \/ PassSkips
  \/ HourPasses \/ Down \/ Start

Spec == Init /\ [][Next]_vars

-----------------------------------------------------------------------------
(* Properties.                                                              *)

TypeOK ==
  /\ hour \in Hours /\ up \in BOOLEAN
  /\ llmHour \in [Hours -> 0..CallsPerHour] /\ llmDay \in [Days -> 0..CallsPerDay]
  /\ msgHour \in [Hours -> 0..MessagesPerHour]
  /\ cycle \in [Cycles -> {"none", "speak", "enrich", "over"}]
  /\ status \in [Cycles -> Status]
  /\ tries \in [Cycles -> 0..Attempts] /\ pass \in Pass
  /\ report \in [Cycles -> Report]
  /\ began \in [Cycles -> 0..MaxHour] /\ eligible \subseteq Cycles
  /\ heard \in [Cycles -> 0..MaxHour] /\ carried \subseteq Cycles /\ revived \in BOOLEAN

(* Cycles charged to hour h, and to the day of h                              *)
BeganIn(h) == {c \in Cycles : began[c] = h}
BeganOn(h) == {c \in Cycles : began[c] # 0 /\ DayOf(began[c]) = DayOf(h)}
(* Calls made for the cycles of S since the service started                   *)
CallsFor(S) == {call \in S \X (1..Attempts) : call[2] <= tries[call[1]]}

(* Invariant 27: capacity never banks.  However cycles overlap and however     *)
(* long the service was down before, no hour and no day starts more proactive *)
(* cycles than its limit of calls, and one life of the process makes at most  *)
(* Attempts calls of the model for each of them.  It is the cycles that are    *)
(* charged, not the calls (CallsAreCharged): a retry is not, nor are the calls *)
(* that every restart makes again for a cycle it finds unfinished, in whatever *)
(* hour or day that is.                                                      *)
CallsWithinBudget ==
  \A h \in Hours :
    /\ Cardinality(BeganIn(h)) <= CallsPerHour
    /\ Cardinality(BeganOn(h)) <= CallsPerDay
    /\ Cardinality(CallsFor(BeganIn(h))) <= Attempts * CallsPerHour
    /\ Cardinality(CallsFor(BeganOn(h))) <= Attempts * CallsPerDay

(* What budgets.py says: the check is "Whether another proactive               *)
(* generative-LLM call fits the current windows".  Violated by the first      *)
(* retry: what is checked and charged is the cycle.                          *)
CallsAreCharged == \A h \in Hours : Cardinality(CallsFor(BeganIn(h))) <= CallsPerHour

(* What the human hears in an hour is within the message budget, although     *)
(* rows charged to an earlier hour are delivered then and charged to none -    *)
(* except for one message, let through by the budget of an earlier hour in a   *)
(* pass that was suspended at the full hour (HeardInHour).                    *)
(* It holds because the pump reads the budget again - which also refuses the  *)
(* last message of the hour it was itself charged to - because only one row   *)
(* is carried over and a pass sends only one; a row that comes back after it  *)
(* was superseded breaks that.  (A row heard again after a crash counts once,  *)
(* when last heard.)                                                         *)
HeardWithinBudget ==
  ~revived => \A h \in Hours :
    /\ Cardinality({c \in Cycles \ carried : heard[c] = h}) <= MessagesPerHour
    /\ \A c, d \in carried : heard[c] = h /\ heard[d] = h => c = d

(* Without the exception, as budgets.py says: "Whether another proactive        *)
(* *message* fits the current hourly window".  Violated by a pass that sends,  *)
(* after the full hour, by the earlier budget, a row superseded meanwhile.     *)
HeardInHour ==
  ~revived => \A h \in Hours : Cardinality({c \in Cycles : heard[c] = h}) <= MessagesPerHour

(* Invariant 2: the worker's decision to speak is no authority.  A cycle that  *)
(* was started only to enrich never speaks, also when the gates that held it  *)
(* back have opened by the time its result arrives.                          *)
EnrichmentStaysSilent == \A c \in Cycles : status[c] # "none" => c \in eligible
=============================================================================
