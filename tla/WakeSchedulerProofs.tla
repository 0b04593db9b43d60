------------------------- MODULE WakeSchedulerProofs -------------------------
(***************************************************************************)
(* TLAPS proofs about WakeScheduler, for any memories, any cap and any        *)
(* bounds: type correctness, one cycle per schedule, the bound on enrichment, *)
(* that an enriched memory stays so, and that the chain of wakes goes on.     *)
(***************************************************************************)
EXTENDS WakeScheduler, TLAPS

(* A process that runs has scheduled.                                        *)
Scheduled == phase # "down" => generation > 0

(* A schedule that started a cycle has been replaced.                         *)
StartInv == \A g \in Generations : starts[g] <= 1 /\ (starts[g] = 1 => g < generation)

(* Every claim is paid for: by an attempt on record, or by the one it waits   *)
(* for; and a memory that may be claimed has attempts left.                   *)
ClaimInv == \A m \in Memories :
  /\ claims[m] <= Cap
  /\ enrichment[m] = "RAW" => claims[m] <= attempts[m] /\ attempts[m] < Cap
  /\ enrichment[m] = "PENDING_ENRICHMENT" => claims[m] <= attempts[m] + 1 /\ attempts[m] < Cap

-----------------------------------------------------------------------------
(* Types.                                                                   *)

LEMMA EventsAreTyped ==
  /\ Touch \in Event
  /\ \A g \in Generations : Wake(g) \in Event
  /\ \A g \in Generations, o \in Outcomes : Result(g, o) \in Event
BY DEF Touch, Event, Wake, Result

(* What the reducer takes from the queue                                     *)
LEMMA HeadIsTyped ==
  ASSUME queue \in Seq(Event), queue # <<>>
  PROVE  /\ Tail(queue) \in Seq(Event) /\ Head(queue) \in Event
         /\ Head(queue).type \in {"wake", "result"} => Head(queue).of \in Generations
         /\ Head(queue).type \in {"wake", "result", "touch"}
<1>1. Tail(queue) \in Seq(Event) /\ Head(queue) \in Event
  OBVIOUS
<1> QED
  BY <1>1 DEF Event, Touch

LEMMA InitTypes == Init => TypeOK /\ Scheduled
<1> SUFFICES ASSUME Init PROVE TypeOK /\ Scheduled
  OBVIOUS
<1>1. raised \in BOOLEAN
  BY DEF Init
<1>2. queue \in Seq(Event)
  BY DEF Init
<1> QED
  BY <1>1, <1>2, BoundsAssumption DEF Init, TypeOK, Scheduled, Enrichment, WorkStatus, Candidates

(* The durable state, and what a reduction does to it.                        *)
Memory ==
  /\ enrichment \in [Memories -> Enrichment] /\ attempts \in [Memories -> Nat]
  /\ calls \in 0..CallsPerWindow /\ work \in [Generations -> WorkStatus]
  /\ target \in [Generations -> Candidates]
  /\ starts \in [Generations -> Nat] /\ claims \in [Memories -> Nat]
  /\ enriching \subseteq Generations

LEMMA StartCycleTypes ==
  ASSUME TypeOK, NEW g \in Generations, NEW c \in Candidates, StartCycle(g, c)
  PROVE  Memory' /\ tasks' \subseteq Generations
<1>1. calls' \in 0..CallsPerWindow
  BY BoundsAssumption DEF StartCycle, CallAllowed, TypeOK
<1>2. /\ work' \in [Generations -> WorkStatus] /\ target' \in [Generations -> Candidates]
      /\ starts' \in [Generations -> Nat] /\ tasks' \subseteq Generations /\ attempts' = attempts
  BY DEF StartCycle, TypeOK, WorkStatus
<1>3. /\ enrichment' \in [Memories -> Enrichment] /\ claims' \in [Memories -> Nat]
      /\ enriching' \subseteq Generations
  <2>1. CASE Claims(c)
    <3>1. c \in Memories
      BY <2>1, SalientAssumption DEF Claims, NeedsEnrichment
    <3>2. /\ enrichment' = [enrichment EXCEPT ![c] = "PENDING_ENRICHMENT"]
          /\ claims' = [claims EXCEPT ![c] = @ + 1] /\ enriching' = enriching \cup {g}
      BY <2>1 DEF StartCycle
    <3>3. "PENDING_ENRICHMENT" \in Enrichment
      BY DEF Enrichment
    <3> QED
      BY <3>1, <3>2, <3>3 DEF TypeOK
  <2>2. CASE ~Claims(c)
    BY <2>2 DEF StartCycle, TypeOK
  <2> QED
    BY <2>1, <2>2
<1> QED
  BY <1>1, <1>2, <1>3 DEF Memory, TypeOK

LEMMA RecordTypes ==
  ASSUME TypeOK, NEW g \in Generations, NEW o, RecordResult(g, o)
  PROVE  Memory'
<1>1. /\ work' \in [Generations -> WorkStatus] /\ target' \in [Generations -> Candidates]
      /\ enriching' \subseteq Generations /\ UNCHANGED <<calls, starts, claims>>
  BY DEF RecordResult, TypeOK, WorkStatus, Candidates
<1>2. enrichment' \in [Memories -> Enrichment] /\ attempts' \in [Memories -> Nat]
  <2>1. CASE UNCHANGED <<enrichment, attempts>>
    BY <2>1 DEF TypeOK
  <2>2. CASE FinishProactive(g, o) /\ target[g] \in Memories
    <3>1. Proposed(g, o) \in Enrichment
      BY <2>2 DEF Proposed, Enriched, TypeOK, Enrichment
    <3>2. \A n : Released(n) \in Enrichment
      BY DEF Released, Enrichment
    <3>3. \E v \in Enrichment : enrichment' = [enrichment EXCEPT ![target[g]] = v]
      BY <2>2, <3>1, <3>2 DEF FinishProactive
    <3>4. attempts' = [attempts EXCEPT ![target[g]] = IF StillClaimed(Proposed(g, o), o)
                                                        THEN @ + 1 ELSE @]
      BY <2>2 DEF FinishProactive
    <3>5. enrichment' \in [Memories -> Enrichment]
      BY <3>3 DEF TypeOK
    <3>6. attempts' \in [Memories -> Nat]
      BY <2>2, <3>4 DEF TypeOK
    <3> QED
      BY <3>5, <3>6
  <2> QED
    BY <2>1, <2>2 DEF RecordResult, FinishProactive
<1> QED
  BY <1>1, <1>2 DEF Memory, TypeOK

LEMMA RescheduleTypes ==
  ASSUME TypeOK, Reschedule
  PROVE  generation' \in 0..MaxGeneration /\ generation' > 0 /\ timer' \in {"armed", "fired", "idle"}
BY BoundsAssumption DEF Reschedule, NextGeneration, TypeOK

(* A reduction, whichever coroutine makes it.                                *)
LEMMA ReduceTypes ==
  ASSUME TypeOK, NEW e \in Event, e.type = "touch" \/ e.of \in Generations, Reduce(e)
  PROVE  /\ Memory' /\ tasks' \subseteq Generations
         /\ generation' \in 0..MaxGeneration /\ (generation > 0 => generation' > 0)
         /\ timer' \in {"armed", "fired", "idle"}
<1>0. Memory
  BY DEF Memory, TypeOK
<1>1. ASSUME UNCHANGED <<enrichment, attempts, calls, work, target, history>> PROVE Memory'
  BY <1>0, <1>1 DEF Memory, history
<1>2. CASE e.type = "wake" /\ e.of \in Generations /\ ReduceWake(e.of)
  <2>1. CASE UNCHANGED <<durable, timer, tasks, history>>
    BY <1>1, <2>1 DEF durable, TypeOK
  <2>2. CASE /\ EndSilently
             /\ UNCHANGED <<enrichment, attempts, calls, work, target, tasks, history>>
    BY <1>1, <2>2, RescheduleTypes DEF EndSilently, TypeOK
  <2>3. CASE Reschedule /\ \E c \in Selectable : StartCycle(e.of, c)
    BY <1>2, <2>3, RescheduleTypes, StartCycleTypes DEF Selectable
  <2> QED
    BY <1>2, <2>1, <2>2, <2>3 DEF ReduceWake
<1>3. CASE e.type = "result" /\ e.of \in Generations /\ ReduceResult(e.of, e.outcome)
  <2>1. Memory'
    BY <1>3, RecordTypes DEF ReduceResult
  <2> QED
    BY <1>3, <2>1, RescheduleTypes DEF ReduceResult, TypeOK
<1>4. CASE ReduceTouch
  BY <1>1, <1>4, RescheduleTypes DEF ReduceTouch, TypeOK
<1> QED
  BY <1>2, <1>3, <1>4 DEF Reduce

LEMMA StepTypes == TypeOK /\ Scheduled /\ [Next]_vars => TypeOK' /\ Scheduled'
<1> SUFFICES ASSUME TypeOK, Scheduled, [Next]_vars PROVE TypeOK' /\ Scheduled'
  OBVIOUS
<1>1. ASSUME Memory',
             generation' \in 0..MaxGeneration, phase' \in {"down", "running", "stopping"},
             timer' \in {"armed", "fired", "idle"}, queue' \in Seq(Event),
             tasks' \subseteq Generations, raised' \in BOOLEAN, events' \in 0..MaxEvents,
             phase' # "down" => generation' > 0
      PROVE  TypeOK' /\ Scheduled'
  BY <1>1 DEF Memory, TypeOK, Scheduled
<1>2. ASSUME UNCHANGED <<enrichment, attempts, calls, work, target, history>> PROVE Memory'
  BY <1>2 DEF Memory, TypeOK, history
<1>3. CASE Fire
  <2>1. generation \in Generations
    BY <1>3 DEF Fire, TypeOK, Scheduled, Generations
  <2>2. queue' \in Seq(Event)
    BY <1>3, <2>1, EventsAreTyped DEF Fire, TypeOK
  <2> QED
    BY <1>1, <1>2, <1>3, <2>2 DEF Fire, TypeOK, Scheduled, durable, bounded
<1>4. CASE SomethingHappens
  <2>1. queue' \in Seq(Event)
    BY <1>4, EventsAreTyped DEF SomethingHappens, TypeOK
  <2>2. events' \in 0..MaxEvents
    BY <1>4, BoundsAssumption DEF SomethingHappens, TypeOK
  <2> QED
    BY <1>1, <1>2, <1>4, <2>1, <2>2 DEF SomethingHappens, TypeOK, Scheduled, durable
<1>5. CASE ReduceNext
  <2>1. Tail(queue) \in Seq(Event) /\ Head(queue) \in Event
        /\ (Head(queue).type = "touch" \/ Head(queue).of \in Generations)
    BY <1>5, HeadIsTyped DEF ReduceNext, TypeOK
  <2>2. /\ Memory' /\ tasks' \subseteq Generations
        /\ generation' \in 0..MaxGeneration /\ (generation > 0 => generation' > 0)
        /\ timer' \in {"armed", "fired", "idle"}
    BY <1>5, <2>1, ReduceTypes DEF ReduceNext
  <2> QED
    BY <1>1, <1>5, <2>1, <2>2 DEF ReduceNext, TypeOK, Scheduled, bounded
<1>6. CASE ReduceRaises
  <2>1. queue' \in Seq(Event)
    BY <1>6, HeadIsTyped DEF ReduceRaises, TypeOK
  <2>2. events' \in 0..MaxEvents
    BY <1>6, BoundsAssumption DEF ReduceRaises, TypeOK
  <2>3. raised' \in BOOLEAN
    BY <1>6 DEF ReduceRaises
  <2> QED
    BY <1>1, <1>2, <1>6, <2>1, <2>2, <2>3 DEF ReduceRaises, TypeOK, Scheduled, durable
<1>7. ASSUME NEW g \in Generations, WorkerEnds(g) PROVE TypeOK' /\ Scheduled'
  <2>1. queue' \in Seq(Event) /\ work' \in [Generations -> WorkStatus]
    BY <1>7, EventsAreTyped DEF WorkerEnds, TypeOK, WorkStatus
  <2>2. Memory'
    BY <1>7, <2>1 DEF WorkerEnds, Memory, TypeOK, history
  <2> QED
    BY <1>1, <1>7, <2>1, <2>2 DEF WorkerEnds, TypeOK, Scheduled, bounded
<1>8. CASE WindowRolls
  <2>1. Memory'
    BY <1>8, BoundsAssumption DEF WindowRolls, Memory, TypeOK, history
  <2> QED
    BY <1>1, <1>8, <2>1 DEF WindowRolls, TypeOK, Scheduled, bounded
<1>9. CASE Stop
  BY <1>1, <1>2, <1>9 DEF Stop, TypeOK, Scheduled, durable, bounded
<1>10. CASE FlushNext
  <2>1. Tail(queue) \in Seq(Event)
        /\ (Head(queue).type = "result" => Head(queue).of \in Generations)
    BY <1>10, HeadIsTyped DEF FlushNext, TypeOK
  <2>2. Memory'
    BY <1>2, <1>10, <2>1, RecordTypes DEF FlushNext
  <2> QED
    BY <1>1, <1>10, <2>1, <2>2 DEF FlushNext, TypeOK, Scheduled, bounded
<1>11. CASE ProcessEnds
  BY <1>1, <1>2, <1>11 DEF ProcessEnds, MemoryLost, TypeOK, durable, bounded
<1>12. CASE Start
  <2>1. generation' \in 0..MaxGeneration /\ generation' > 0
    BY <1>12, BoundsAssumption DEF Start, TypeOK
  <2>2. raised' \in BOOLEAN
    BY <1>12 DEF Start
  <2> QED
    BY <1>1, <1>2, <1>12, <2>1, <2>2 DEF Start, TypeOK
<1>13. CASE UNCHANGED vars
  BY <1>1, <1>2, <1>13 DEF vars, TypeOK, Scheduled, history
<1> QED
  BY <1>3, <1>4, <1>5, <1>6, <1>7, <1>8, <1>9, <1>10, <1>11, <1>12, <1>13 DEF Next

LEMMA TypesHold == Spec => [](TypeOK /\ Scheduled)
BY InitTypes, StepTypes, PTL DEF Spec

(* Every reachable state is well typed; the budget of calls is never exceeded. *)
THEOREM TypeCorrect == Spec => []TypeOK
BY TypesHold, PTL

-----------------------------------------------------------------------------
(* The schedule.                                                            *)

LEMMA StartStep == TypeOK /\ Scheduled /\ StartInv /\ [Next]_vars => StartInv'
<1> SUFFICES ASSUME TypeOK, Scheduled, StartInv, [Next]_vars PROVE StartInv'
  OBVIOUS
<1> USE BoundsAssumption DEF Generations
<1>0. generation \in Nat /\ starts \in [Generations -> Nat]
  BY DEF TypeOK
<1>1. ASSUME starts' = starts, generation' = generation \/ (generation' \in Nat /\ generation' > generation)
      PROVE  StartInv'
  BY <1>0, <1>1 DEF StartInv
<1>2. ASSUME Reschedule PROVE generation' \in Nat /\ generation' > generation
  BY <1>0, <1>2 DEF Reschedule, NextGeneration
<1>3. CASE ReduceNext
  <2>1. Head(queue) \in Event
        /\ (Head(queue).type = "wake" => Head(queue).of \in Generations)
    BY <1>3, HeadIsTyped DEF ReduceNext, TypeOK
  <2>2. CASE Head(queue).type = "wake" /\ ReduceWake(Head(queue).of)
    <3> DEFINE g == Head(queue).of
    <3>1. CASE UNCHANGED <<durable, timer, tasks, history>>
      BY <1>1, <3>1 DEF durable, history
    <3>2. CASE EndSilently /\ UNCHANGED history
      BY <1>1, <1>2, <3>2 DEF EndSilently, history
    <3>3. CASE ~Stale(g) /\ Reschedule /\ starts' = [starts EXCEPT ![g] = @ + 1]
      <4>1. g = generation /\ starts[g] = 0
        BY <1>0, <2>1, <2>2, <3>3 DEF Stale, StartInv
      <4> QED
        BY <1>0, <1>2, <2>1, <2>2, <3>3, <4>1 DEF StartInv
    <3> QED
      BY <2>2, <3>1, <3>2, <3>3 DEF ReduceWake, StartCycle
  <2>3. CASE ReduceResult(Head(queue).of, Head(queue).outcome)
    BY <1>1, <1>2, <2>3 DEF ReduceResult, RecordResult
  <2>4. CASE ReduceTouch
    BY <1>1, <1>2, <2>4 DEF ReduceTouch, history
  <2> QED
    BY <1>3, <2>2, <2>3, <2>4 DEF ReduceNext, Reduce
<1>4. CASE FlushNext
  BY <1>1, <1>4 DEF FlushNext, RecordResult, history
<1>5. CASE Start
  <2>1. generation' \in Nat /\ generation' > generation
    BY <1>0, <1>5 DEF Start, TypeOK
  <2> QED
    BY <1>1, <1>5, <2>1 DEF Start, history
<1>6. CASE \/ Fire \/ SomethingHappens \/ ReduceRaises \/ WindowRolls \/ Stop \/ ProcessEnds
           \/ UNCHANGED vars
  BY <1>1, <1>6 DEF Fire, SomethingHappens, ReduceRaises, WindowRolls, Stop, ProcessEnds,
                    vars, durable, history
<1>7. ASSUME NEW g \in Generations, WorkerEnds(g) PROVE StartInv'
  BY <1>1, <1>7 DEF WorkerEnds, history
<1> QED
  BY <1>3, <1>4, <1>5, <1>6, <1>7 DEF Next

(* A schedule starts at most one cycle, however wakes queue up, other events   *)
(* reschedule and the process ends in between.                               *)
THEOREM OneCyclePerScheduleHolds == Spec => []OneCyclePerSchedule
<1>1. Init => StartInv
  BY DEF Init, StartInv
<1>2. Spec => []StartInv
  BY <1>1, StartStep, TypesHold, PTL DEF Spec
<1>3. StartInv => OneCyclePerSchedule
  BY DEF StartInv, OneCyclePerSchedule
<1> QED
  BY <1>2, <1>3, PTL

-----------------------------------------------------------------------------
(* The chain of wakes.                                                      *)

(* A queued wake stays queued when an event is added, and when one of another *)
(* kind or of another generation is taken.                                   *)
LEMMA WakeStays ==
  ASSUME TypeOK, NEW g \in Queued("wake"),
         \/ queue' = queue
         \/ \E e \in Event : queue' = Append(queue, e)
         \/ /\ queue # <<>> /\ queue' = Tail(queue)
            /\ Head(queue).type # "wake" \/ Head(queue).of # g
  PROVE  g \in Queued("wake")'
<1>0. queue \in Seq(Event) /\ Len(queue) \in Nat
  BY DEF TypeOK
<1>1. PICK i \in 1..Len(queue) : queue[i].type = "wake" /\ queue[i].of = g
  BY DEF Queued
<1>2. ASSUME NEW j \in 1..Len(queue'), queue'[j] = queue[i] PROVE g \in Queued("wake")'
  BY <1>1, <1>2 DEF Queued
<1>3. CASE queue' = queue
  BY <1>2, <1>3
<1>4. ASSUME NEW e \in Event, queue' = Append(queue, e) PROVE g \in Queued("wake")'
  <2>1. i \in 1..Len(queue') /\ queue'[i] = queue[i]
    BY <1>0, <1>4
  <2> QED BY <1>2, <2>1
<1>5. CASE /\ queue # <<>> /\ queue' = Tail(queue)
           /\ Head(queue).type # "wake" \/ Head(queue).of # g
  <2>1. Len(queue) >= 1 /\ Head(queue) = queue[1] /\ Len(queue') = Len(queue) - 1
    BY <1>0, <1>5
  <2>2. i # 1
    BY <1>1, <1>5, <2>1
  <2>3. i - 1 \in 1..Len(queue') /\ (i - 1) + 1 = i
    BY <1>0, <2>1, <2>2
  <2>4. queue'[i - 1] = queue[i]
    BY <1>0, <1>5, <2>3
  <2> QED BY <1>2, <2>3, <2>4
<1> QED BY <1>3, <1>4, <1>5

(* Every reschedule disarms a timer that fired, and only a reduction of the   *)
(* current wake, of a finished cycle or of a touch reschedules; so the wake    *)
(* that fired is in the queue until it is reduced.                           *)
LEMMA WakeStep == TypeOK /\ Scheduled /\ WakeChainAlive /\ [Next]_vars => WakeChainAlive'
<1> SUFFICES ASSUME TypeOK, Scheduled, WakeChainAlive, [Next]_vars,
                    phase' = "running", ~raised', timer' = "fired"
             PROVE  generation' \in Queued("wake")'
  BY DEF WakeChainAlive
<1>1. ASSUME phase = "running", ~raised, timer = "fired", generation' = generation,
             \/ queue' = queue
             \/ \E e \in Event : queue' = Append(queue, e)
             \/ /\ queue # <<>> /\ queue' = Tail(queue)
                /\ Head(queue).type # "wake" \/ Head(queue).of # generation
      PROVE  generation' \in Queued("wake")'
  <2>1. generation \in Queued("wake")
    BY <1>1 DEF WakeChainAlive
  <2> QED BY <1>1, <2>1, WakeStays
<1>2. ~Reschedule
  BY DEF Reschedule
<1>3. CASE Fire
  <2>1. /\ generation' = generation /\ queue' = Append(queue, Wake(generation))
        /\ generation \in Generations /\ queue \in Seq(Event)
    BY <1>3 DEF Fire, durable, TypeOK, Scheduled, Generations
  <2>2. /\ Len(queue) \in Nat /\ Len(queue') = Len(queue) + 1
        /\ queue'[Len(queue) + 1] = Wake(generation)
    BY <2>1, EventsAreTyped
  <2>3. Len(queue) + 1 \in 1..Len(queue')
    BY <2>2
  <2> QED BY <2>1, <2>2, <2>3 DEF Queued, Wake
<1>4. CASE SomethingHappens
  BY <1>1, <1>4, EventsAreTyped DEF SomethingHappens, durable
<1>5. CASE ReduceNext
  <2>1. /\ phase = "running" /\ ~raised /\ queue # <<>> /\ queue' = Tail(queue)
        /\ Reduce(Head(queue))
    BY <1>5 DEF ReduceNext, bounded
  <2>2. CASE Head(queue).type = "wake" /\ ReduceWake(Head(queue).of)
    BY <1>1, <1>2, <2>1, <2>2 DEF ReduceWake, EndSilently, Stale, durable
  <2>3. CASE Head(queue).type = "result" /\ ReduceResult(Head(queue).of, Head(queue).outcome)
    BY <1>1, <1>2, <2>1, <2>3 DEF ReduceResult
  <2>4. CASE ReduceTouch
    BY <1>2, <2>4 DEF ReduceTouch
  <2> QED BY <2>1, <2>2, <2>3, <2>4 DEF Reduce
<1>6. CASE ReduceRaises
  BY <1>6 DEF ReduceRaises
<1>7. ASSUME NEW g \in Generations, WorkerEnds(g) PROVE generation' \in Queued("wake")'
  <2>1. \E e \in Event : queue' = Append(queue, e)
    BY <1>7, EventsAreTyped DEF WorkerEnds
  <2> QED BY <1>1, <1>7, <2>1 DEF WorkerEnds, bounded
<1>8. CASE WindowRolls \/ UNCHANGED vars
  BY <1>1, <1>8 DEF WindowRolls, vars, bounded
<1>9. CASE Stop \/ FlushNext \/ ProcessEnds \/ Start
  BY <1>9 DEF Stop, FlushNext, ProcessEnds, MemoryLost, Start
<1> QED BY <1>3, <1>4, <1>5, <1>6, <1>7, <1>8, <1>9 DEF Next

(* In a session in which no reduction raised the agent always has a next      *)
(* wake: a timer that fired has its wake in the queue, and it is current.     *)
THEOREM WakeChainAliveHolds == Spec => []WakeChainAlive
<1>1. Init => WakeChainAlive
  BY DEF Init, WakeChainAlive
<1> QED BY <1>1, WakeStep, TypesHold, PTL DEF Spec

-----------------------------------------------------------------------------
(* Enrichment.                                                              *)

(* What happens to one memory in one step: nothing, a claim, a release, or an  *)
(* enrichment (or the refusal of one).                                       *)
Claimed(m) ==
  /\ enrichment[m] = "RAW" /\ enrichment'[m] = "PENDING_ENRICHMENT"
  /\ claims'[m] = claims[m] + 1 /\ attempts'[m] = attempts[m]
ReleasedNow(m) ==
  /\ enrichment[m] = "PENDING_ENRICHMENT" /\ enrichment'[m] = Released(attempts[m] + 1)
  /\ claims'[m] = claims[m] /\ attempts'[m] = attempts[m] + 1
Judged(m) ==
  /\ enrichment'[m] \in {"ENRICHED", "DO_NOT_ENRICH"}
  /\ enrichment[m] = "ENRICHED" => enrichment'[m] = "ENRICHED"
  /\ claims'[m] = claims[m]
Untouched(m) ==
  enrichment'[m] = enrichment[m] /\ claims'[m] = claims[m] /\ attempts'[m] = attempts[m]
OneOfThese == \A m \in Memories : Claimed(m) \/ ReleasedNow(m) \/ Judged(m) \/ Untouched(m)

LEMMA RecordIsOneOfThese ==
  ASSUME TypeOK, NEW g \in Generations, NEW o, RecordResult(g, o)
  PROVE  OneOfThese
<1>0. claims' = claims
  BY DEF RecordResult
<1>1. CASE UNCHANGED <<enrichment, attempts>>
  BY <1>0, <1>1 DEF OneOfThese, Untouched
<1>2. CASE FinishProactive(g, o) /\ target[g] \in Memories
  <2> DEFINE m == target[g]
  <2>1. \A n \in Memories \ {m} : Untouched(n)
    BY <1>0, <1>2 DEF FinishProactive, Untouched, TypeOK
  <2>2. /\ enrichment'[m] = IF Proposed(g, o) = "PENDING_ENRICHMENT" THEN Released(attempts[m] + 1)
                             ELSE Proposed(g, o)
        /\ attempts'[m] = IF Proposed(g, o) = "PENDING_ENRICHMENT" THEN attempts[m] + 1 ELSE attempts[m]
    BY <1>2 DEF FinishProactive, StillClaimed, TypeOK
  <2>3. ASSUME o = "enrich" PROVE Judged(m)
    BY <1>0, <1>2, <2>2, <2>3 DEF Proposed, Enriched, Judged
  <2>4. ASSUME o # "enrich" /\ enrichment[m] = "PENDING_ENRICHMENT" PROVE ReleasedNow(m)
    BY <1>0, <1>2, <2>2, <2>4 DEF Proposed, ReleasedNow
  <2>5. ASSUME o # "enrich" /\ enrichment[m] # "PENDING_ENRICHMENT" PROVE Untouched(m)
    BY <1>0, <1>2, <2>2, <2>5 DEF Proposed, Untouched
  <2> QED
    BY <2>1, <2>3, <2>4, <2>5 DEF OneOfThese
<1> QED
  BY <1>1, <1>2 DEF RecordResult, FinishProactive

LEMMA StepIsOneOfThese == TypeOK /\ [Next]_vars => OneOfThese
<1> SUFFICES ASSUME TypeOK, [Next]_vars PROVE OneOfThese
  OBVIOUS
<1>1. ASSUME UNCHANGED <<enrichment, attempts, claims>> PROVE OneOfThese
  BY <1>1 DEF OneOfThese, Untouched
<1>2. ASSUME NEW g \in Generations, NEW c \in Candidates, StartCycle(g, c) PROVE OneOfThese
  <2>1. CASE Claims(c)
    <3>1. c \in Memories /\ enrichment[c] = "RAW"
      BY <2>1, SalientAssumption DEF Claims, NeedsEnrichment
    <3>2. /\ enrichment' = [enrichment EXCEPT ![c] = "PENDING_ENRICHMENT"]
          /\ claims' = [claims EXCEPT ![c] = @ + 1] /\ attempts' = attempts
      BY <1>2, <2>1 DEF StartCycle
    <3> QED
      BY <3>1, <3>2 DEF OneOfThese, Untouched, Claimed, TypeOK
  <2>2. CASE ~Claims(c)
    BY <1>1, <1>2, <2>2 DEF StartCycle
  <2> QED
    BY <2>1, <2>2
<1>3. CASE ReduceNext
  <2>1. Head(queue) \in Event
        /\ (Head(queue).type \in {"wake", "result"} => Head(queue).of \in Generations)
    BY <1>3, HeadIsTyped DEF ReduceNext, TypeOK
  <2>2. CASE Head(queue).type = "wake" /\ ReduceWake(Head(queue).of)
    BY <1>1, <1>2, <2>1, <2>2 DEF ReduceWake, Selectable, durable, history
  <2>3. CASE Head(queue).type = "result" /\ ReduceResult(Head(queue).of, Head(queue).outcome)
    BY <2>1, <2>3, RecordIsOneOfThese DEF ReduceResult
  <2>4. CASE ReduceTouch
    BY <1>1, <2>4 DEF ReduceTouch, history
  <2> QED
    BY <1>3, <2>2, <2>3, <2>4 DEF ReduceNext, Reduce
<1>4. CASE FlushNext
  <2>1. Head(queue).type = "result" => Head(queue).of \in Generations
    BY <1>4, HeadIsTyped DEF FlushNext, TypeOK
  <2> QED
    BY <1>1, <1>4, <2>1, RecordIsOneOfThese DEF FlushNext, history
<1>5. CASE \/ Fire \/ SomethingHappens \/ ReduceRaises \/ WindowRolls \/ Stop \/ ProcessEnds
           \/ Start \/ UNCHANGED vars
  BY <1>1, <1>5 DEF Fire, SomethingHappens, ReduceRaises, WindowRolls, Stop, ProcessEnds, Start,
                    vars, durable, history
<1>6. ASSUME NEW g \in Generations, WorkerEnds(g) PROVE OneOfThese
  BY <1>1, <1>6 DEF WorkerEnds, history
<1> QED
  BY <1>3, <1>4, <1>5, <1>6 DEF Next

LEMMA ClaimStep == TypeOK /\ ClaimInv /\ OneOfThese => ClaimInv'
<1> SUFFICES ASSUME TypeOK, ClaimInv, OneOfThese, NEW m \in Memories
             PROVE  /\ claims'[m] <= Cap
                    /\ enrichment'[m] = "RAW" => claims'[m] <= attempts'[m] /\ attempts'[m] < Cap
                    /\ enrichment'[m] = "PENDING_ENRICHMENT" =>
                         claims'[m] <= attempts'[m] + 1 /\ attempts'[m] < Cap
  BY DEF ClaimInv
<1> USE CapAssumption DEF TypeOK, ClaimInv
<1>1. CASE Claimed(m)
  BY <1>1 DEF Claimed
<1>2. CASE ReleasedNow(m)
  BY <1>2 DEF ReleasedNow, Released
<1>3. CASE Judged(m)
  BY <1>3 DEF Judged
<1>4. CASE Untouched(m)
  BY <1>4 DEF Untouched
<1> QED
  BY <1>1, <1>2, <1>3, <1>4 DEF OneOfThese

(* A memory is claimed for enrichment at most Cap times, over all cycles,      *)
(* releases and restarts.                                                   *)
THEOREM EnrichmentBoundedHolds == Spec => []EnrichmentBounded
<1>1. Init => ClaimInv
  BY CapAssumption DEF Init, ClaimInv
<1>2. TypeOK /\ Scheduled /\ ClaimInv /\ [Next]_vars => ClaimInv'
  BY StepIsOneOfThese, ClaimStep
<1>3. Spec => []ClaimInv
  BY <1>1, <1>2, TypesHold, PTL DEF Spec
<1>4. ClaimInv => EnrichmentBounded
  BY DEF ClaimInv, EnrichmentBounded
<1> QED
  BY <1>3, <1>4, PTL

(* No step, of whatever late or failed cycle, takes ENRICHED from a memory.    *)
THEOREM EnrichedIsFinalHolds == Spec => EnrichedIsFinal
<1>1. OneOfThese =>
        \A m \in Memories : enrichment[m] = "ENRICHED" => enrichment'[m] = "ENRICHED"
  BY DEF OneOfThese, Claimed, ReleasedNow, Judged, Untouched
<1>2. TypeOK /\ [Next]_vars =>
        [\A m \in Memories : enrichment[m] = "ENRICHED" => enrichment'[m] = "ENRICHED"]_vars
  BY <1>1, StepIsOneOfThese
<1> QED
  BY <1>2, TypesHold, PTL DEF Spec, EnrichedIsFinal
=============================================================================
