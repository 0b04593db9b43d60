# A TLA+ verification of the ACA resident agent

This directory models and checks the agent of `src/src/aca`: a resident process that accepts
human messages, thinks with a language model, answers, now and then speaks on its own, and, in a
chat client, speaks and listens aloud.  All source paths below are relative to `src/src/aca`.

## Inventory

| Part | State | Operations | Interacts with | Modelled in |
|---|---|---|---|---|
| Service (`service/service.py`) | event queue, `_running`, timer, session | `start`, `stop`, `ingest_human_message`, `_reducer_loop`, `_process`, `_reduce_remaining`, `_schedule_wake`, heartbeat | every part; owns the one coroutine that writes | `AgentService`, `Lifecycle` |
| Reducer and handlers (`reducer/`) | the database, one transaction per event | one handler per event type | asks the service to dispatch, reschedule, deliver | the module of each question |
| Dispatcher (`service/dispatcher.py`) | worker tasks, leases | `dispatch`, `_run` with retries, `_fail_terminal`, `drain` | results return as events | `AgentService` |
| Recovery (`service/recovery.py`) | none of its own | `bootstrap_identity`, `recover` | runs before the loop | `AgentService`, `Lifecycle` |
| Event, work and outbox stores (`persistence/`) | SQLite tables | accept / reduce, lease / complete / fail, row statuses, turns | written by the reducer, the ingress and the dispatcher | `AgentService`, `Delivery` |
| Delivery pump (`service/delivery.py`) | in-flight set, burst window, lock | `pump`, results | called by the loop and by every connection | `Delivery` |
| IPC server (`ipc/server.py`) | subscribers | chat, subscribe, broadcast, metrics, shutdown | ingress; the pump's sink | `Delivery`, `Lifecycle`, `Traces` |
| Wake timer (`service/timer.py`, `handlers/wake.py`) | scheduler generation | schedule, fire, validate, start a cycle | queue, budgets, memories | `WakeScheduler` |
| Enrichment (`apply_proposals.py`, `llm_result.py`) | `enrichment_status`, attempts | claim, enrich, release | wakes and results | `WakeScheduler`, `Topics` |
| Gates, budgets (`gates.py`, `cognition/budgets.py`) | windowed counters, cooldown | check and charge | wake, pre-outbox, delivery | `Budgets`, `Discourse`, `Delivery` |
| Discourse focus (`discourse.py`, `domain/state.py`) | focus, closed focus, last human message | set, transition, restore, retire | human turns, late results, gates | `Discourse` |
| Topics, intents, continuity (`memory_store.py`, `continuity.py`, `embedding_result.py`, `reconcile.py`) | topics, vectors, intents, expressions | enrich, embed, merge, backfill, suppress | candidates, rows in flight | `Topics` |
| Identity, sessions, lock (`identity_store.py`, `service/lock.py`) | lifecycle, exit kind, observed silence | acquire, mint, classify, open, beat, close | recovery, operating system | `Lifecycle` |
| Traces and metrics (`work_store.py`, `vectors.py`, `conversation_notes.py`) | one row per cycle | insert, finalize, count, classify | every handler writes; metrics and prompts read | `Traces` |
| Speech output and voice input (`tts/`, `voice/`, `cli/main.py`) | speech queue, floor counter, engine thread; capture queue, segmenter, assembler | submit, interrupt, play; gate, segment, transcribe, commit | one audio floor; the chat client | `Voice` |
| Formulas, workers, configuration, evaluation | | | pure functions and input/output | see "Not modelled" |

What makes this hard to test: one asyncio process whose coroutines interleave at every
`await`; a database that survives a crash beside a queue, tasks and an in-flight set that do
not; results that arrive after the world moved on (a newer turn, a merged topic, another hour);
two callers of the same pump; a chain of timers each of which must set the next; two threads
beside the event loop of the voice client.  `PROJECT.json` lists the hazards at their lines.

What makes each part correct:

* pipeline: an acknowledged message makes one turn, at most one answer, and is not lost; work
  always has an owner; settled records stay settled; obligations settle;
* delivery: a turn exists only for what a client took; no double send in a session; one
  proactive row per burst window; nobody starves at the lock;
* spontaneous cognition: one cycle per schedule, the chain goes on, cycles and messages stay in
  budget, enrichment is bounded;
* discourse: the newest turn decides the subject; what the human closed stays closed; no
  unsolicited word while the human talks;
* topics: no live duplicates, nothing attached to a topic that is gone, no evidence lost or
  counted twice, what was voiced stays suppressed under whatever name (but see the departures);
* lifecycle: one identity, a true account of how the last session ended, downtime never taken for
  silence, a stop that ends;
* traces: counts that add up, and a reason for silence that is the real one;
* voice: one holder of the floor, no echo taken for a human, a barge-in obeyed.

## Modules

| Module | Models | Proofs |
|---|---|---|
| `AgentService` | message -> turn, work, obligation, reply; retries, stop, crash, recovery | `AgentServiceProofs` |
| `Conversation` | what a client may rely on; `AgentService` implements it | (the refinement is in `AgentServiceProofs`) |
| `Delivery` | outbox rows, pump passes, connections, delivery results | `DeliveryProofs` |
| `Outbox` | what may become of a message to be said; `Delivery` implements it | (the refinement is in `DeliveryProofs`) |
| `WakeScheduler` | timer, generations, proactive cycles, enrichment claims | `WakeSchedulerProofs` |
| `Discourse` | mode, focus, closed focus; what a proactive message may be about | `DiscourseProofs` |
| `Topics` | topics, their vectors and jobs, intents, merges, suppression | `TopicsProofs` |
| `Subjects` | what may become of what was learned; `Topics` implements it | (the refinement is in `TopicsProofs`) |
| `Lifecycle` | lock, identity, sessions, exit kinds, silence, the order of stopping | `LifecycleProofs` |
| `Budgets` | cycles, their calls and messages per window; retries, restarts, the passes of the pump | `BudgetsProofs` |
| `Voice` | speech controller, engine thread, gate, segmenter, assembler, session | `VoiceProofs` |
| `Traces` | the rows handlers write and rewrite, and the reports read from them | last part of `BudgetsProofs` |
| `MC*` | the instances TLC checks (symmetry sets, resemblances, threads) | |

The modules are views of one program, each with the state its question needs.  Where one leaves a
part to another, it leaves a choice: `AgentService` counts the rows that answer a message and leaves
their transport to `Delivery`; `Delivery` takes the decision to speak as given; `WakeScheduler`
leaves the row of a cycle to `Delivery`, its subject to `Topics` and `Discourse`, the windows of its
budget to `Budgets`; `Lifecycle` says when the service of `AgentService` starts and stops.  Where the
process matters, durable variables survive a crash and process memory does not.

Definitions marked `faulty variant` are not part of the model: each is a plausible bug in the
definition that follows it, with which the property `PROJECT.json` names beside it is violated.
Variables marked `history` record what the code does not; an action reads one only to bound the
instance, or for ids that a snapshot may still hold (`merged` in `Topics`).

### AgentService and Conversation

| TLA+ | Code |
|---|---|
| `stamp`, `reduced` | `events.accepted_at`, `events.reduced_at` |
| `turns` | human rows of `conversation_turns` |
| `work`, `cycle` | `work_items.status`, the `cycle_type` in its snapshot |
| `obligation`, `replies` | `response_obligations.status`, outbound rows that answer a message |
| `queue`, `task` | the `asyncio.Queue`, the dispatcher's tasks |
| `todo`, `replay`, `plan` | `result.dispatch_work_ids`, `plan.replay_events`, `plan.dispatch_work_ids` |
| `Ingest`, `ReduceNext`, `ReduceRaises` | `ingest_human_message`, `_reducer_loop` / `_process` |
| `DispatchNext`, `WorkerReturns`, `RetryAttempt`, `FailTerminal` | `Dispatcher.dispatch`, `_run`, `_fail_terminal` |
| `Stop`, `FinishDrain`, `FlushNext`, `Suspend` | the four stages of `stop()` |
| `Recover`, `ReplayNext`, `Redispatch`, `GoLive` | `recover()`, then `start()` |

One action is one SQLite transaction (or one step in memory), so that a crash can fall between
any two.  asyncio switches only at an `await`: between a reduction and its last `dispatch()`
there is none, so other coroutines need `todo = {}`.  A worker's answer, the classification of
a text, whether an optional reply is wanted and whether a candidate is gone are choices.

`Conversation` has no process: a message is acknowledged, heard once, then answered at most once or
given up on record.  `Promise` maps it onto the tables (`owed` is the PENDING obligations, `answers`
the outbound rows), and `KeepsPromise` says that every step of `AgentService` is one of its steps or
none: two answers, a turn without an acknowledgement, an answer after a recorded failure, or an
obligation settled by silence would each be a step that `Conversation` does not have.

### Delivery

`cpu` is the coroutine that runs; it is released only where the code can really suspend (an
empty queue, a held lock, a client that does not drain).  `pc` is where each coroutine stands,
`pass` the local variables of the pass that holds the lock (the snapshot, the rows left,
`burst_elapsed`, the broadcast in progress).  `waiters` is the FIFO of `asyncio.Lock`, and
`Release` hands the lock over the way `asyncio.Lock.release` and the waiter's wake-up do.
`Start` expires stale proactive rows; `FlushNext` is `_reduce_remaining`.  Time is abstracted to
three events: a TTL ends (`Age`), the cooldown ends, the burst window ends.  Gates other than
TTL and cooldown may refuse a row at any time.

`Outbox` has none of this: a message is due, goes on the air at most once while the service runs,
and then becomes part of the transcript once, or is withheld before it was on the air.  `Speech`
maps it onto the tables (`FateOf` is a row's status, `aired` the rows broadcast in this session,
`transcript` the agent's turns), and `ImplementsOutbox` says that every step of `Delivery` is one
of its steps or none.  What that adds to the invariants is about steps: a new message supersedes the
proactive ones that are due and no other, a mandatory one is never withheld, a superseded one waits
again only if it was not on the air, and between the broadcast of a row and the end of the process
nothing can happen to that row but to become a turn.  `FateIsSealed`, which is proved, says the
same status by status: DELIVERED, EXPIRED and FAILED are final.

### WakeScheduler

A cycle is named by the generation of the wake that started it: `work[g]`, `target[g]`.
`Reschedule` is `_schedule_wake` (bump, persist, replace the timer; an infinite delay sets
none), `Fire` is the timer's callback, `ReduceWake` the wake handler, `ReduceResult` the
result of a proactive cycle with `apply_proposals` and `_release_enrichment_claim`.  A "touch"
is any other event that reschedules (a human message, a topic merge).  An ENRICH_MEMORY
proposal is taken to be about the cycle's own memory, as the prompt asks.

### Discourse

A subject is the provisional memory a turn leaves, named by the turn; `Thread` says which turns are
about the same thing, which stands for the cosine bands of `assess_against`.  `now` is a clock, so
that modes (`infer_mode`) follow from gaps.  `Reduce` is the part of `handle_human_message` that
reads or writes the conversation (close, lull, provisional focus, acknowledgement, snapshot);
`Stale` is `_focus_write_is_stale`; a result applies KEEP, SET or CLEAR; `closed` keeps what CLEAR
closed.  A proactive cycle picks a subject, its row waits, and the pump's gate is asked again at
transport, possibly with a time read before it suspended.  A reduction may raise: the message is
then replayed at the next start, after later ones.

### Topics

A topic is named by the memory it was made from (`source_memory_id`).  `Near` and `Clash` are the
resemblance of vectors and the conflict of polarity; `vector[c]` is the model a stored vector came
from, 0 for none.  `EnrichMemory`, `CreateIntent` and `ResolveIntent` are proposals of
a model result; leases and results of embedding jobs, with the merge of `embedding_result.py` in one
transaction; `Reconcile` and a changed model are the backfill; cycles, rows and expressions are the
path of `continuity.py` and `_reassign` of what is in flight.  A memory that is DO_NOT_ENRICH or
CLAIMED is enriched and competes like a RAW one, so these three are one value.  `stands[m]` is the
history variable behind three properties: the topic that stands for memory `m` now.

`rows[c]` are the PENDING rows about `c`.  A new row supersedes every pending one
(`create_outbound`), also a row that is on the air, in the list of a suspended pass, or whose result
is in the queue; `late[c]` are those.  The result is applied when it comes, whatever the status
(`LateDelivered`, `LateHeld`, `LateDropped`), and names the topic the row was made for, because a
merge reassigns pending rows only: `overtaken` are the topics merged away with such a row under way.
`VoicedStaysSuppressed` excepts them, and `SuppressionFollowsMerge` is the departure.  A restart
loses the results under way.

`Subjects` has no vector, job, row or topic id: memories are gathered into subjects, a thread is left
open about one, and one that was just spoken of is kept quiet about.  `Interests` maps it onto the
tables: a subject is the set of memories a live topic stands for, a thread the intent with the
subject of its topic, quiet the subjects with an expression inside the window.  `KeepsSubjects` says
that every step of `Topics` is one of its steps or none.  What that adds to the invariants is about
steps: only an enrichment adds a memory, once, only a merge unites two subjects, none splits or
vanishes (a memory whose topic is deleted is in another subject at once), the threads and the silence
of both go along in that very step, and only a delivered thought silences a subject.
`IntentsStayAttached`, which is proved, says the part about intents alone.

### Lifecycle

Each process goes through `phase` as drawn in the module's header; each arrow is one transaction or
one step between two.  `end` is the history: when the last session's process was gone, and whether
its heartbeat ran.  `ran` counts served time since the last human turn.  `_run_service` closes the
IPC server before it stops the service, and since Python 3.12.1 `wait_closed()` waits for every open
connection; `Listening` and `clients` model that.  The clock is never set back, and no two sessions
start at one instant (`ORDER BY started_at`).

### Budgets

`hour` is the UTC hour, `DayOf` its day.  `Wake` reads and charges the budget of calls and reads that
of messages; `Call` is a call of the model for the cycle, of which the dispatcher makes up to
`Attempts`, and as many again after every restart that finds the work unfinished; `Speak` reads and
charges messages and supersedes.  `pass` is the local state of the pump pass under the lock: the time
and the rows it read when it began, and the row on the air.  It reads the message budget of its own
hour, not of the current one, and does not look at a row's status again.  `report` is the
`DeliveryResult` under way.

What is charged is the cycle, and the properties say so: `CallsWithinBudget` bounds the cycles started
in a window by the limit, and the calls one life of the process makes for them by `Attempts` times
the limit.  `HeardWithinBudget` counts the messages heard in an hour that its own budget let through,
and at most one besides that an earlier hour's budget did (`carried`).

### Voice

`queue`, `speaker`, `inflight`, `failed` are the `SpeechController`; `cut`, `thread`, `chunk` the
engine and its worker thread; `room` the echo that lasts after the audio; `backlog` the capture
queue; `tail`, `seg`, `turn` the half-duplex gate, the `Segmenter` and the `VoiceTurnAssembler`.  Of
buffered audio the model keeps one bit: whether the agent is heard in it.  Times are counted in
frames.  `session = "run"` is the session's coroutine holding the event loop until it suspends.
Detector and transcriber verdicts are choices; the microphone thread adds frames while the session
is suspended.  The engine's thread looks at the interrupt flag (`Render`) and plays (`Play`) in two
steps; `after` counts the pieces of the message being spoken that were begun after it was dropped.

### Traces

A note is the set of words the readers look for in it, so `LIKE '%w%'` is membership and `=` is
equality.  The actions are the outcomes of the wake, human and result handlers as they write
(`Insert`) or rewrite (`Finalize`, with its `COALESCE`) a row; `Legacy` rows are those of a database
older than the `cycle_type` column.  `verdict` is what really became of the cycle.  The readers are
operators: `TraceMetrics`, `Bucket` (the ordered CASE), `AdvanceRate`, `Dominance` (the greedy
clusters of `vectors.py`) and `OutcomeNote`.  A candidate may have no vector (a hole in the report) or
a zero one (`Blank`: what the default embedding worker makes of a text without a letter a-z, a digit
or an apostrophe), whose cosine is 0 with every vector, its own included; `RepetitionShows` is about
the others.  Under `enrichment_gated` the note of a suppressed wake does not name the gate, and
`ReasonIsTrue` asks only that some gate there was.

## Runs

| Run | Instance | Question |
|---|---|---|
| `AgentServiceSafety` | 2 messages, 2 attempts, 2 crashes, 1 raising reduction | nothing lost, no stranded work, quiescent after a clean stop, settled is final, and `Conversation` is implemented |
| `AgentServiceLive` | 2 messages, 1 attempt, 1 crash | accepted messages are reduced; obligations settle (after a crash: or their work failed for good) |
| `DeliverySafety` | 1 mandatory, 2 proactive rows, 1 client, no raising reduction | turns, sends, statuses, burst window and the in-flight set agree, and `Outbox` is implemented |
| `DeliveryLive` | 2 mandatory rows, 2 clients, 1 raising reduction | a waiter gets its pass; in-flight rows settle, unless the reduction of their outcome raised |
| `WakeSafety` | 1 memory, 5 schedules, `Cap` 1, 2 calls a window, 1 other event or raising reduction | one cycle per schedule, chain alive, claims bounded |
| `Discourse` | 3 turns of 2 threads, 4 ticks, all three modes, 1 raising reduction | whose focus stands; what is remembered as closed; when and about what the agent may speak |
| `Topics` | 3 memories (two near-duplicates, one in conflict), 1 intent, 2 calls, rows and expressions at a time, 2 embedding models | merges in any order lose nothing and leave no duplicate; what was voiced stays suppressed; `Subjects` is implemented |
| `Lifecycle` | 2 processes, 1 client, 3 sessions, 6 ticks, a beat of 2 | one identity, exit kinds, downtime, silence, and a stop that ends |
| `Budgets` | 3 cycles of up to 2 attempts, 4 hours, days of 3, limits 1 / 2 calls and 2 messages | cycles, their calls and messages heard, in every window |
| `Voice` | 2 messages, 2 pieces each, guard 2, echo 1, 3-frame utterances | the floor, echo, barge-in |
| `Traces` | 3 cycles, 5 candidates (a chain of neighbours, one without a vector, one with a zero vector) | do reports add up, and is the reason true |

### A run that expects a violation, and the departures

`LifecycleStop` checks the README's "`aca service stop` # graceful suspension": TLC finds the stop
that waits for ever for a chat client that need not leave (`StopCompletes`).  `StopEnds` in the run
`Lifecycle` is what does hold.

The following properties also state a comment or a line of `docs/DESIGN.md`, and the code departs
from them.  They are defined in their modules and are not part of a run; each is violated on the
instance given here (as INVARIANT unless said otherwise).

| Property | The text it states | What the code does | Instance |
|---|---|---|---|
| `AgentService!NoOrphanedObligation` | `llm_result.py:54`: surfaced "rather than left pending forever" | a crash between `fail_terminal` and the reduction of the failure leaves the obligation PENDING for ever | 1 message, 2 attempts, 1 crash, 0 failures |
| `Delivery!AtMostOneEligible` | `outbound.py:5`: "so at most one remains eligible" | a superseded row is PENDING again after its `no_client` result | rows {}, {p, q}, client c1, 0 failures |
| `Delivery!SupersessionRechecked` (PROPERTY) | DESIGN 29.7: supersession is "checked again" | a pass transports a row superseded while it was suspended | rows {a}, {p, q}, client c1 |
| `Delivery!IdleClientReceives` (PROPERTY, `FairSpec`) | `delivery_result.py:73`: "why an idle client eventually receives it" | an attempt without a client uses up the burst window; the client that then connects is not served, and nothing pumps later | rows {}, {p}, client c1 |
| `WakeScheduler!ClaimHasOwner` | `wake.py:171`: the claim "is released back" | a failed or unparsable cycle never releases its claim | `Cap` 2, 2 calls, 6 schedules, 0 events |
| `WakeScheduler!OneEnrichmentInFlight` | `wake.py:170`: no "two enrichment jobs in flight" | a cycle without the claim releases it, and a second enrichment starts | `Cap` 2, 3 calls, 7 schedules, 0 events |
| `Discourse!LapsedStaysGone` | DESIGN 34.4: a subject survives a lapse "only if a new substantive memory re-establishes one" | the check-in that retires the subject makes a model call, whose KEEP restores it | t1, t2 of one thread, windows 0 and 1, 4 ticks, 0 failures |
| `Topics!SuppressionFollowsMerge` | `embedding_result.py:89`: "Suppression must follow the merge" | a row superseded on the air is not reassigned; its result records the expression for the topic that is gone | that of `Topics.cfg` |
| `Budgets!CallsAreCharged` | `budgets.py:47`: "Whether another proactive generative-LLM call fits the current windows" | the cycle is checked and charged; a retry and the calls after a restart are not | that of `Budgets.cfg` |
| `Budgets!HeardInHour` | `budgets.py:56`: "Whether another proactive *message* fits the current hourly window" | a pass suspended past the full hour sends a superseded row by the budget of the hour before, and its successor is heard too | that of `Budgets.cfg` |
| `Voice!NoPieceAfterBargeIn` | DESIGN 36.5: a line typed while the agent speaks "reclaims the floor immediately" | a barge-in between the thread's look at the flag and `sd.play` stops nothing: that piece is played to its end | that of `Voice.cfg` |
| `Voice!NeverHearsItself` | DESIGN 36.5: own speech "never reaches ingress" | frames wait while an utterance is transcribed and are judged after the floor was released | 1 message, `MaxTurn` 4, `MaxBacklog` 2 |
| `Voice!IngressErrorKeepsListening` | `session.py`: the "capture loop continues" | a commit at the end of a turn gap is outside the handler that reports | the same |
| `Traces!SupersededByMessage` | `conversation_notes.py:18`: "a newer message arrived before the reply" | also said when the reply's candidate was merged or resolved and no message came | that of `Traces.cfg` |
| `Traces!EveryRepetitionShows` | `ipc/server.py:224`: a "near-paraphrase" is a repetition | a candidate with a zero vector voiced twice in a row counts as a switch to a new thread | that of `Traces.cfg` |
| `Traces!DominanceIgnoresOrder` | `ipc/server.py`: "Order is irrelevant here" | which vector opens a cluster decides who joins it | that of `Traces.cfg` |

### Bounds, and why they are enough

*AgentService.* Two messages are the least for which order matters (supersession, FIFO, replay
order); a second crash is the least that can hit a recovery. Two attempts show a retry and an
exhausted retry, where the code has three. *Delivery.* Three contenders for the pump (loop and two
connections, `DeliveryLive`) make the lock's queue longer than one; two proactive rows give
supersession and a second row in a window; a mandatory row before them gives the pass a place to
suspend. With a raising reduction as well that instance has 5.5 million states and the same outcome;
`DeliveryLive` has one, and the proofs hold for any number. *WakeScheduler.* A cycle touches one
memory; five schedules allow two overlapping cycles over it with their results, a second claim after
a release, or a cycle cut off by a crash and dispatched again. *Discourse.* An opening turn, a
second of its thread and one of another make a focus, its close, and a subject that is an orphan;
four ticks with windows 0 and 1 pass through ACTIVE, IDLE and DORMANT. *Topics.* Three memories
allow a merge into a topic that was itself merged into; a second embedding model gives pairs of
topics that were never compared; two of calls, rows and expressions at a time (`MaxOpen`) allow a
second row to supersede the first on the air and a merge before its result, which is what
`SuppressionFollowsMerge` needs; the two near-duplicates differ in nothing but their name
(`Alike`). *Lifecycle.* Three sessions show a clean end and an unclean one
after each other; six ticks are three beats. *Budgets.* Four hours in days of three cross a day's
end with an hour to spare; a third cycle exceeds every limit, two attempts show the retry where the
code has three, and two messages an hour let one row be superseded in flight by another within the
limit. *Voice.* Two messages are the least with a barge-in between, two pieces the least of which
one can be left out; the thresholds are the smallest that keep the order `config.py` demands.
*Traces.* Three rows are the least for which the greedy clusters depend on their neighbours.

`MaxCrashes`, `MaxFailures`, `MaxGeneration`, `MaxEvents`, `MaxTime`, `MaxSessions`, `MaxHour`,
`MaxCycles`, `MaxOpen`, `MaxModels`, `Chunks` and `MaxBacklog` bound what grows without end.
The schedules of `WakeScheduler`, the messages of `Voice` and the cycles of `Traces` run out, so
these runs do not check deadlock; the others do.  Where a property speaks of sessions in which no
reduction raised (`raised`, `failures`), the raising ones are in the instance all the same and the
rest of its properties hold in them.

### Fairness

`AgentService`: the event loop runs ready coroutines, a worker call returns or raises (the
adapters have timeouts), `stop()` and `start()` proceed, and a stopped service is started again
(weak fairness; none for `Ingest`, `Stop`, `Crash`).  Reductions raise at most as often as the
instance says, never in `AgentServiceLive`.  `Delivery`: asyncio's ready queue is FIFO, so a
coroutine that keeps becoming ready runs (strong fairness on each pump and on reductions); the
burst window ends.  `FairSpec` there is a process that stays up (`NextUp`): its lock and in-flight
set are memory, and liveness across a restart has no meaning for them.  `Lifecycle`: a running
process goes on with its start, its stop and its heartbeat (weak fairness); nobody has to start,
stop or kill one, and no client has to leave.  `Voice`: the speaker task runs although other
coroutines keep taking the loop (strong fairness); the engine's thread and the session go on (weak):
a synthesis ends, a transcription and a send return.

## Proofs

Every theorem holds for all values of the constants that the named assumptions of the module
allow.  Types are proved, for all values, rather than checked again in the runs.

| Module | Theorems | Inductive invariant |
|---|---|---|
| `AgentServiceProofs` | `TypeCorrect`, `Invariance`, `EffectivelyOnceHolds`, `AnsweredOnceHolds`, `SettledIsFinalHolds`, `KeepsPromiseHolds`, `HeldInvariance`, `NoAcceptedMessageLostHolds`, `NoStrandedWorkHolds`, `CleanSuspendIsQuiescentHolds` | `IInv`, `HeldInv` |
| `DeliveryProofs` | `TypeCorrect`, `TurnMeansHeardHolds`, `SentOncePerSessionHolds`, `FateIsSealedHolds`, `OneProactivePerWindowHolds`, `InflightIsReportedHolds`, `ImplementsOutboxHolds` | `AInv`, `LockInv`, `WindowInv`, `ReportedInv` |
| `WakeSchedulerProofs` | `TypeCorrect`, `OneCyclePerScheduleHolds`, `EnrichmentBoundedHolds`, `EnrichedIsFinalHolds`, `WakeChainAliveHolds` | `StartInv`, `ClaimInv` |
| `DiscourseProofs` | `TypeCorrect`, `LatestTurnOwnsFocusHolds`, `CloseIsRememberedHolds`, `QuietAfterHumanHolds`, `ResolvedStaysQuietHolds` | `Types`, `FocusInv` |
| `TopicsProofs` | `TypeCorrect`, `UnfinishedIffOpenHolds`, `EvidenceConservedHolds`, `IntentsStayAttachedHolds`, `OneJobPerBlindTopicHolds`, `NoLiveDuplicatesHolds`, `VoicedStaysSuppressedHolds`, `KeepsSubjectsHolds` | `Types`, `GraphInv`, `ItemInv` |
| `LifecycleProofs` | `TypeCorrect`, `IdentityMintedOnceHolds`, `SilenceIsObservedHolds`, `ExitKindIsTrueHolds`, `DowntimeIsBoundedHolds` | `Types`, `MintInv`, `SilenceInv`, `ExitInv`, `DownInv` |
| `BudgetsProofs` | `TypeCorrect`, `EnrichmentStaysSilentHolds`, `CallsWithinBudgetHolds`, `HeardWithinBudgetHolds`; of `Traces`: `ReasonIsTrueHolds`, `ReportReconcilesHolds` | `CycleInv`, `CountInv`, `CarriedInv`, `HeardInv`; `RowsInv`, `WindowOK` |
| `VoiceProofs` | `TypeCorrect`, `FloorIsExactHolds`, `BargeInIsObeyedHolds`, `HearsItselfOnlyLateHolds` | `FloorInv`, `AfterInv`, `EchoInv` |

Why the properties need strengthening, module by module:

* `AgentService`.  That a message has one turn depends on the queue holding no second copy of it,
  which depends on what the queue, the replay plan and the phase may hold together.  `IInv` is
  `PhaseInv` (what memory holds in each phase), `IngressInv` (a waiting message is accepted,
  unreduced and queued once), `AnswerInv` (work, obligation and reply agree) and `OwnerInv` (a work
  item is owned by at most one of dispatch lists, task and queued result).  `HumanStep`, `LLMStep`
  and `EmbeddingStep` treat the reductions once for the loop, the replay and the shutdown.  The
  refinement maps each reduction to a step of `Conversation` and everything else to a stutter.
  That nothing is lost is a second invariant over it, `HeldInv`, about a session in which no
  reduction raised: an accepted message that is not reduced waits in the queue or in the replay plan
  (`SessionInv`, `BacklogInv`), and leased work has a dispatch still to come, a task, or a queued
  result (`LeaseInv`); a finished stop has none of these, which is `CleanSuspendIsQuiescent`.
* `Delivery`.  A row is sent once because the pass only holds rows that are alive, unsent and not
  in flight, because results in the queue are of rows in flight and distinct (`QueueInv`, `PassInv`,
  `SentInv`, `RowsInv`).  That there is one pass at a time is `LockInv`, about the hand-over of the
  lock between release and wake-up; the burst window (`WindowInv`) rests on it.  The refinement needs
  of a result that it says `delivered` exactly when its row was broadcast in this session
  (`EventOK`): otherwise a row on the air could be cancelled or made to wait again.
* `WakeScheduler`.  A schedule that started a cycle has been replaced, so its second wake is stale;
  every claim is paid for by a recorded attempt or by the one it waits for.  That a timer which fired
  has its current wake in the queue (`WakeChainAlive`) is inductive on the types alone.
* `Discourse`.  What makes staleness sound is the order: unreduced turns are newer than reduced ones
  and still queued (`Order`, `Newer`, `Queued`), so the last human message is the newest reduced
  turn, and the one result that may still write carries the closed subject in its snapshot
  (`CarryInv`).  That the agent keeps quiet right after a human turn, and about what was closed, rests
  on the clock: the pump may judge by a time read before it was suspended (`PumpTransports`), but what
  was outside the active window then is outside it now, and what is IDLE now was IDLE then
  (`ModeLater`), so the old reading refuses whatever the present one would.
* `Topics`.  A live topic stands for its own memory, a memory not enriched for none; a topic that is
  gone has no vector, and no row or expression unless it was `overtaken`; counting steps use
  `FiniteSetTheorems`.  The refinement needs of this that live topics stand for disjoint sets, none of
  them empty (`HomeInv`), that no intent names a topic before it exists (`AttachedInv`), and that rows
  and expressions name live topics or overtaken ones (`SuppressInv`): a delivery about the latter is a
  stutter, it silences no subject.  A new topic, a reinforced one and a merge are one lemma there
  (`TopicsBecome`): some topics become one.
* `Lifecycle`.  Whoever does not hold the lock is off; `HolderInv` says phase by phase what the
  plan and the identity of the holder agree on; `RestInv` and `BeatInv` carry the last heartbeat's
  time across a crash.
* `Budgets`.  The counters of `budget_usage` equal the cardinalities of the cycles begun in the
  window (`CountInv`), from which the calls of one life of the process follow (`CallsAreFew`).
  Messages are charged when a row is made and heard hours later, so `HeardInv` bounds what was heard
  in the hour by its own budget, together with the rows that wait or are in the list of a pass of this
  hour, by what the hour was charged, and one more for the row that an earlier hour paid for: at most
  one row waits, unless a superseded one was revived.  What a pass of an earlier hour may still send
  is one row, and while it runs no other is carried into the hour (`CarriedInv`).
* `Traces`.  A row that nothing decided yet still carries the note of its dispatch, so the
  `COALESCE` of `finalize` never keeps an older reason; and the words of a note that mark a class
  exclude each other where the order of the CASE does not (`RowsInv`).  The rest of the report is
  folds over the rows, and what a fold computes is proved by induction over the data: not with the
  library's induction theorems, whose predicate is an operator that no installed prover can be
  given, but with a set (`Induct`, from the least number outside it).  From it follow that the
  recursive function behind a fold exists (`Iterates`, `FoldsLeft`), that the reasons for silence
  add up to the silent cycles (`SumOfParts`), and, one joined candidate at a time (`Gathered`),
  that every voicing of a candidate stands in the first cluster it is near to: a cluster's opener
  never changes, so although who clusters with whom depends on the order, a repeated subject
  always shows in the largest theme.
* `Voice`.  The interrupt flag is set exactly while the message being spoken was dropped, and a piece
  begun in spite of it leaves the flag for the thread's next look (`AfterInv`); the guard always
  outlasts the echo still in the room and the capture queue.

Only model-checked: all liveness, which is outside the prover (`AcceptedIsReduced`,
`ObligationSettles`, `WaiterGetsPass`, `InflightSettles`, `StopEnds`, `FloorIsGivenBack`).  Every
invariant and every other action property of the runs is proved.
The proofs about `Traces` stand in
`BudgetsProofs`, which extends both: they are about the records of the same cycles.

Remarks on what was found to hold.  `HeardWithinBudget` holds because the pump reads a budget
its own row was charged to: the last message of an hour refuses itself until the next hour, and
with a limit of one nothing is delivered in its own hour.  Its exception, and those of
`CallsWithinBudget`, `VoicedStaysSuppressed`, `BargeInIsObeyed` and `ReportReconciles`, are exact: the
same properties without them are departures above.  `HearsItselfOnlyLate` is the exact limit of the
half-duplex gate; without the suspension it is `NeverHearsItself`.

## Not modelled

* Formulas over reals (activation, selection, relevance, hazard rate, mood) and text
  classification: their results are choices.  Cosine similarity is a given relation.
* Prompts, adapters, parsing and acoustic models: a worker's outcome is a choice.
* Configuration, durations, rendering, the command line other than the order of closing and the
  wiring of speech and microphone; read-only IPC operations; framing.
* SQLite is taken to be atomic and durable; the row mapping is the variables themselves.
* Feedback (praise and correction), mood and refractory states: numbers that no property reads.
* The evaluation harness: offline, over fakes.

Assumed throughout: the wall clock is not set back, and one event is reduced in the time it is
stamped with.

## What is left

Abstract specifications of other components (the floor of `Voice`, one cycle per schedule of
`WakeScheduler`) and their refinements; deferred intents as candidates of their own in `Topics`; the
end of the stream in `Voice`; the replans and feedback of the human handler.
