---------------------------- MODULE WakeScheduler ----------------------------
(***************************************************************************)
(* Spontaneous cognition: the wake timer, the generation that validates its  *)
(* wakes, the proactive cycles they start and the enrichment of memories.    *)
(*                                                                         *)
(*   timer --> StochasticWake --> proactive cycle --> model result           *)
(*     ^            |  claims a RAW memory  |  releases or enriches it       *)
(*     +------------+----- reschedule ------+                               *)
(*                                                                         *)
(* The reducer coroutine's run from reduce() through dispatch() to           *)
(* _schedule_wake() is uninterrupted and is one action.  A crash inside it   *)
(* is not distinguished from one before or after it: recovery dispatches     *)
(* PENDING and RUNNING work alike and schedules a new generation anyway.     *)
(* Within a session no work is run twice, so a result never finds its item   *)
(* COMPLETED here; AgentService has that guard.                              *)
(*                                                                         *)
(* Which candidate wins, whether the expression gates allow a message, and   *)
(* the sampled delay are choices.  The outbound row is Delivery's.           *)
(***************************************************************************)
EXTENDS Naturals, Sequences, FiniteSets

CONSTANTS
  Memories,        \* provisional memories
  Salient,         \* those at or above enrichment_salience_floor
  Cap,             \* budgets.max_enrichment_attempts
  CallsPerWindow,  \* budgets.proactive_llm_calls_per_hour
  MaxGeneration,   \* bound: schedules made in a behaviour
  MaxEvents        \* bound: other events that reschedule, and reductions that raise

ASSUME CapAssumption == Cap \in Nat \ {0}
ASSUME SalientAssumption == Salient \subseteq Memories
ASSUME TopicAssumption == "topic" \notin Memories
ASSUME BoundsAssumption ==
  CallsPerWindow \in Nat /\ MaxGeneration \in Nat /\ MaxEvents \in Nat

VARIABLES
  (* durable *)
  generation,   \* scheduler_generation
  enrichment,   \* enrichment_status of each memory
  attempts,     \* enrichment_attempts of each memory
  calls,        \* proactive calls charged to the current budget window
  work,         \* work[g]: status of the work of the cycle that wake g started
  target,       \* target[g]: its candidate; forgotten once its result is reduced
  (* process memory *)
  phase,        \* "down", "running", "stopping"
  timer,        \* the wake timer: "armed", "fired", or "idle" (none was set)
  queue,        \* the asyncio.Queue of events
  tasks,        \* cycles with a live worker task
  (* history *)
  starts,       \* starts[g]: cycles started by wakes of generation g
  claims,       \* claims[m]: times a wake claimed m
  enriching,    \* cycles that claimed their memory and have no reduced result yet
  raised,       \* whether a reduction raised in this session
  events        \* other events that rescheduled, and reductions that raised, so far

durable == <<generation, enrichment, attempts, calls, work, target>>
history == <<starts, claims, enriching>>
bounded == <<raised, events>>
vars    == <<generation, enrichment, attempts, calls, work, target, phase, timer,
             queue, tasks, starts, claims, enriching, raised, events>>

Generations == 1..MaxGeneration
Candidates  == Memories \cup {"topic"}     \* a topic or an intent, or a memory
Enrichment  == {"RAW", "PENDING_ENRICHMENT", "ENRICHED", "DO_NOT_ENRICH"}
WorkStatus  == {"none", "RUNNING", "COMPLETED", "FAILED_TERMINAL"}

(* A result may carry an ENRICH_MEMORY proposal for the candidate, or not,    *)
(* may fail to parse, or be the dispatcher's WORKER_ERROR_KEY result.        *)
Outcomes == {"enrich", "plain", "invalid", "error"}

Wake(g)      == [type |-> "wake", of |-> g, outcome |-> "none"]
Result(g, o) == [type |-> "result", of |-> g, outcome |-> o]
Touch        == [type |-> "touch", of |-> 0, outcome |-> "none"]
Event == [type : {"wake", "result"}, of : Generations, outcome : Outcomes \cup {"none"}]
           \cup {Touch}

Queued(type) == {queue[i].of : i \in {j \in 1..Len(queue) : queue[j].type = type}}

-----------------------------------------------------------------------------
(* The schedule.                                                            *)

SameGeneration == generation   \* faulty variant: the generation is not bumped
(* A new schedule is a new generation.                                       *)
NextGeneration == generation + 1

(* _schedule_wake: replace whatever the timer was doing.  With a hazard of    *)
(* zero the delay is infinite and no timer is set.                           *)
Reschedule ==
  /\ generation < MaxGeneration
  /\ generation' = NextGeneration
  /\ timer' \in {"armed", "idle"}

(* _on_wake_fired, with the generation its timer was set for.                *)
Fire ==
  /\ phase = "running" /\ timer = "armed"
  /\ timer' = "fired"
  /\ queue' = Append(queue, Wake(generation))
  /\ UNCHANGED <<durable, phase, tasks, history, bounded>>

(* A human message, or an embedding that merges topics, is on its way to the *)
(* reducer: it will reschedule.                                             *)
SomethingHappens ==
  /\ phase = "running" /\ events < MaxEvents
  /\ events' = events + 1
  /\ queue' = Append(queue, Touch)
  /\ UNCHANGED <<durable, phase, timer, tasks, history, raised>>

-----------------------------------------------------------------------------
(* The wake handler.                                                        *)

(* _is_stale: a queued wake is of this session (the queue is process memory)  *)
(* and the lifecycle is RUNNING while the loop runs; the generation decides. *)
Stale(g) == g # generation

(* _needs_enrichment: RAW and salient enough                                 *)
NeedsEnrichment(c) == c \in Salient /\ enrichment[c] = "RAW"

(* build_candidates: a memory competes until it is ENRICHED.                 *)
Selectable == {c \in Candidates : c \in Memories => enrichment[c] # "ENRICHED"}

(* _claim_enrichment's condition                                            *)
Claims(c) == NeedsEnrichment(c)

(* proactive_llm_call_allowed                                                *)
CallAllowed == calls < CallsPerWindow

(* A wake starts a cycle for candidate c: to speak, or only to enrich.       *)
StartCycle(g, c) ==
  /\ CallAllowed
  /\ \E speakEligible \in BOOLEAN : speakEligible \/ NeedsEnrichment(c)
  /\ calls' = calls + 1
  /\ work' = [work EXCEPT ![g] = "RUNNING"]
  /\ target' = [target EXCEPT ![g] = c]
  /\ tasks' = tasks \cup {g}
  /\ starts' = [starts EXCEPT ![g] = @ + 1]
  /\ IF Claims(c)
       THEN /\ enrichment' = [enrichment EXCEPT ![c] = "PENDING_ENRICHMENT"]
            /\ claims' = [claims EXCEPT ![c] = @ + 1]
            /\ enriching' = enriching \cup {g}
       ELSE UNCHANGED <<enrichment, claims, enriching>>
  /\ UNCHANGED attempts

SilenceKeepsTimer == UNCHANGED <<generation, timer>>   \* faulty variant
(* Nothing won, or what won may not speak: silence, and the next wake.       *)
EndSilently == Reschedule

(* handle_stochastic_wake: drop a stale wake; otherwise end silently, or      *)
(* start a cycle; in both cases reschedule.                                  *)
ReduceWake(g) ==
  \/ /\ Stale(g)
     /\ UNCHANGED <<durable, timer, tasks, history>>
  \/ /\ ~Stale(g)
     /\ EndSilently
     /\ UNCHANGED <<enrichment, attempts, calls, work, target, tasks, history>>
  \/ /\ ~Stale(g)
     /\ Reschedule
     /\ \E c \in Selectable : StartCycle(g, c)

-----------------------------------------------------------------------------
(* Results of proactive cycles.                                             *)

(* _enrich_memory: what an ENRICH_MEMORY proposal makes of its memory.       *)
Enriched(c) ==
  IF enrichment[c] = "ENRICHED" \/ c \in Salient THEN "ENRICHED" ELSE "DO_NOT_ENRICH"

(* The status of the cycle's memory once its proposals are applied           *)
Proposed(g, o) == IF o = "enrich" THEN Enriched(target[g]) ELSE enrichment[target[g]]

UncountedRelease(n) == "RAW"   \* faulty variant: no cap on attempts
(* Where the n-th unsuccessful attempt releases a claim to                   *)
Released(n) == IF n >= Cap THEN "DO_NOT_ENRICH" ELSE "RAW"

(* Only a memory that is still claimed is released.                          *)
StillClaimed(s, o) == s = "PENDING_ENRICHMENT"

(* apply_proposals, then _release_enrichment_claim                           *)
FinishProactive(g, o) ==
  LET m == target[g]
      s == Proposed(g, o)
  IN  IF m \notin Memories THEN UNCHANGED <<enrichment, attempts>>
      ELSE /\ enrichment' = [enrichment EXCEPT ![m] =
                               IF StillClaimed(s, o) THEN Released(attempts[m] + 1) ELSE s]
           /\ attempts' = [attempts EXCEPT ![m] = IF StillClaimed(s, o) THEN @ + 1 ELSE @]

(* handle_llm_result for a proactive cycle.  A worker failure leaves the item *)
(* FAILED_TERMINAL, a parse failure completes it; both end there.            *)
RecordResult(g, o) ==
  /\ work' = IF o = "error" THEN work ELSE [work EXCEPT ![g] = "COMPLETED"]
  /\ IF o \in {"enrich", "plain"}
       THEN FinishProactive(g, o)
       ELSE UNCHANGED <<enrichment, attempts>>
  /\ target' = [target EXCEPT ![g] = "topic"]
  /\ enriching' = enriching \ {g}
  /\ UNCHANGED <<calls, starts, claims>>

ReduceResult(g, o) ==
  /\ RecordResult(g, o)
  /\ IF o \in {"enrich", "plain"} THEN Reschedule ELSE UNCHANGED <<generation, timer>>
  /\ UNCHANGED tasks

ReduceTouch ==
  /\ Reschedule
  /\ UNCHANGED <<enrichment, attempts, calls, work, target, tasks, history>>

Reduce(e) ==
  \/ e.type = "wake" /\ ReduceWake(e.of)
  \/ e.type = "result" /\ ReduceResult(e.of, e.outcome)
  \/ e.type = "touch" /\ ReduceTouch

ReduceNext ==
  /\ phase = "running" /\ queue # <<>>
  /\ Reduce(Head(queue))
  /\ queue' = Tail(queue)
  /\ UNCHANGED <<phase, bounded>>

(* The handler raises; the transaction rolls back and the loop goes on.      *)
ReduceRaises ==
  /\ phase = "running" /\ queue # <<>> /\ events < MaxEvents
  /\ events' = events + 1
  /\ raised' = TRUE
  /\ queue' = Tail(queue)
  /\ UNCHANGED <<durable, phase, timer, tasks, history>>

-----------------------------------------------------------------------------
(* Workers, time, process life.                                             *)

(* A worker returns, or its last attempt raised and it fails terminally.     *)
WorkerEnds(g) ==
  /\ g \in tasks
  /\ \E o \in Outcomes :
       /\ o = "enrich" => target[g] \in Memories
       /\ work' = IF o = "error" THEN [work EXCEPT ![g] = "FAILED_TERMINAL"] ELSE work
       /\ queue' = Append(queue, Result(g, o))
  /\ tasks' = tasks \ {g}
  /\ UNCHANGED <<generation, enrichment, attempts, calls, target, phase, timer,
                 history, bounded>>

(* The next budget window begins.                                            *)
WindowRolls ==
  /\ calls > 0
  /\ calls' = 0
  /\ UNCHANGED <<generation, enrichment, attempts, work, target, phase, timer,
                 queue, tasks, history, bounded>>

(* stop(): the timer is cancelled and the loop ends; workers are drained.     *)
Stop ==
  /\ phase = "running"
  /\ phase' = "stopping"
  /\ timer' = "idle"
  /\ UNCHANGED <<durable, queue, tasks, history, bounded>>

MemoryLost == phase' = "down" /\ timer' = "idle" /\ queue' = <<>> /\ tasks' = {}

(* _reduce_remaining: results are reduced without rescheduling, everything    *)
(* else is dropped.                                                         *)
FlushNext ==
  /\ phase = "stopping" /\ tasks = {} /\ queue # <<>>
  /\ queue' = Tail(queue)
  /\ IF Head(queue).type = "result"
       THEN RecordResult(Head(queue).of, Head(queue).outcome)
       ELSE UNCHANGED <<enrichment, attempts, calls, work, target, history>>
  /\ UNCHANGED <<generation, phase, timer, tasks, bounded>>

(* A clean stop, or a crash at any point.                                    *)
ProcessEnds ==
  /\ phase # "down"
  /\ MemoryLost
  /\ UNCHANGED <<durable, history, bounded>>

(* recover() bumps the generation, every replayed message reschedules, and    *)
(* start() dispatches the work of dead processes again and schedules.        *)
Start ==
  /\ phase = "down"
  /\ phase' = "running"
  /\ \E replayed \in 0..events :
       /\ generation + 2 + replayed <= MaxGeneration
       /\ generation' = generation + 2 + replayed
  /\ timer' \in {"armed", "idle"}
  /\ tasks' = {g \in Generations : work[g] = "RUNNING"}
  /\ raised' = FALSE
  /\ UNCHANGED <<enrichment, attempts, calls, work, target, queue, history, events>>

Init ==
  /\ generation = 0
  /\ enrichment = [m \in Memories |-> "RAW"]
  /\ attempts = [m \in Memories |-> 0]
  /\ calls = 0
  /\ work = [g \in Generations |-> "none"]
  /\ target = [g \in Generations |-> "topic"]
  /\ phase = "down" /\ timer = "idle" /\ queue = <<>> /\ tasks = {}
  /\ starts = [g \in Generations |-> 0]
  /\ claims = [m \in Memories |-> 0]
  /\ enriching = {}
  /\ raised = FALSE /\ events = 0

Next ==
  \/ Fire \/ SomethingHappens \/ ReduceNext \/ ReduceRaises
  \/ \E g \in Generations : WorkerEnds(g)
  \/ WindowRolls \/ Stop \/ FlushNext \/ ProcessEnds \/ Start

Spec == Init /\ [][Next]_vars

-----------------------------------------------------------------------------
(* Properties.                                                              *)

TypeOK ==
  /\ generation \in 0..MaxGeneration
  /\ enrichment \in [Memories -> Enrichment]
  /\ attempts \in [Memories -> Nat]
  /\ calls \in 0..CallsPerWindow
  /\ work \in [Generations -> WorkStatus]
  /\ target \in [Generations -> Candidates]
  /\ phase \in {"down", "running", "stopping"}
  /\ timer \in {"armed", "fired", "idle"}
  /\ queue \in Seq(Event)
  /\ tasks \subseteq Generations
  /\ starts \in [Generations -> Nat] /\ claims \in [Memories -> Nat]
  /\ enriching \subseteq Generations
  /\ raised \in BOOLEAN /\ events \in 0..MaxEvents

(* A schedule starts at most one cycle, although a wake may sit in the queue  *)
(* while the wake is rescheduled and fires again (DESIGN 10.6).               *)
OneCyclePerSchedule == \A g \in Generations : starts[g] <= 1

(* The chain of wakes never breaks in a session in which no reduction raised: *)
(* once the timer fired, its wake is queued and still current.               *)
WakeChainAlive ==
  (phase = "running" /\ ~raised /\ timer = "fired") => generation \in Queued("wake")

(* Autonomous enrichment of a memory is bounded (invariant 23): over all      *)
(* cycles, restarts and releases it is claimed at most Cap times.            *)
EnrichmentBounded == \A m \in Memories : claims[m] <= Cap

(* An enriched memory stays enriched: no late or failed cycle reopens it, so  *)
(* no second topic is made from it.                                         *)
EnrichedIsFinal ==
  [][\A m \in Memories : enrichment[m] = "ENRICHED" => enrichment'[m] = "ENRICHED"]_vars

(* A cycle whose worker may still return, or whose result is queued           *)
Live(g) == work[g] = "RUNNING" \/ g \in Queued("result")

(* The comment of _claim_enrichment: a claim "is released back to RAW ... when *)
(* the result is processed if it wasn't actually enriched".  Violated: a      *)
(* result that is a worker error or does not parse releases nothing, and a    *)
(* memory PENDING_ENRICHMENT is never claimed again.                         *)
ClaimHasOwner ==
  \A m \in Memories : enrichment[m] = "PENDING_ENRICHMENT" =>
    \E g \in Generations : target[g] = m /\ Live(g)

(* The comment of _claim_enrichment: "the same memory can't have two          *)
(* enrichment jobs in flight".  Violated: a cycle that only speaks about a    *)
(* claimed memory releases the claim of the cycle that enriches it.           *)
OneEnrichmentInFlight ==
  \A g, h \in enriching :
    (target[g] = target[h] /\ Live(g) /\ Live(h)) => g = h
=============================================================================
