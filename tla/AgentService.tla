---------------------------- MODULE AgentService ----------------------------
(***************************************************************************)
(* The resident service's durable pipeline for human messages:             *)
(*                                                                         *)
(*   ingress --> reducer loop --> work item --> worker task --> result      *)
(*      |             |                                          event      *)
(*      v             v                                            |        *)
(*   events table  turns, obligations, work items, outbox  <-------+        *)
(*                                                                         *)
(* One SQLite transaction per step; everything else (the asyncio queue, the *)
(* worker tasks, the lists of work still to dispatch) is process memory and *)
(* dies with the process.  asyncio runs one coroutine at a time and         *)
(* switches only at an await, so the reducer coroutine's run from reduce()  *)
(* to its last dispatch() is uninterrupted by other coroutines (`todo' is   *)
(* empty whenever another coroutine moves), but a crash can fall between    *)
(* any two transactions of it.                                             *)
(*                                                                         *)
(* Left to other modules: transport of the outbound rows (Delivery), the    *)
(* stochastic wake (WakeScheduler), memories, topics and focus.             *)
(***************************************************************************)
EXTENDS Naturals, Sequences, FiniteSets

CONSTANTS
  Messages,      \* event_ids a client may send as HumanMessage
  MaxAttempts,   \* _MAX_ATTEMPTS of the dispatcher
  MaxCrashes,    \* bound: process deaths in a behaviour
  MaxFailures    \* bound: reductions that raise in the reducer loop

ASSUME AttemptsAssumption == MaxAttempts \in Nat \ {0}
ASSUME BoundsAssumption == MaxCrashes \in Nat /\ MaxFailures \in Nat

VARIABLES
  (* durable: the database *)
  stamp,        \* stamp[m]: acceptance time of m in the events table, 0 if absent
  clock,        \* the last acceptance time given out
  reduced,      \* events whose reduced_at is set
  turns,        \* turns[m]: human rows of conversation_turns with event_id m
  lastHuman,    \* conversation.last_human_message_at
  cycle,        \* cycle[m]: cycle_type in the snapshot of m's generative work
  work,         \* status of each work item
  obligation,   \* status of the response obligation whose source is m
  replies,      \* replies[m]: outbound rows created to answer m
  session,      \* the latest runtime session: open, or closed CLEAN_SUSPEND
  (* process memory *)
  phase,        \* where AgentService.start / stop are
  queue,        \* the asyncio.Queue of events
  task,         \* task[w]: attempt the worker task of w is in, 0 if no task
  todo,         \* work ids _process (or start) still has to dispatch
  replay,       \* plan.replay_events not yet processed
  plan,         \* plan.dispatch_work_ids not yet handed over
  (* history *)
  raised,       \* reductions that raised in this session
  crashes, failures

durable == <<stamp, clock, reduced, turns, lastHuman, cycle, work, obligation,
             replies, session>>
memory  == <<phase, queue, task, todo, replay, plan>>
history == <<raised, crashes, failures>>
vars    == <<stamp, clock, reduced, turns, lastHuman, cycle, work, obligation,
             replies, session, phase, queue, task, todo, replay, plan,
             raised, crashes, failures>>

Kinds    == {"llm", "embed"}
Work     == Messages \X Kinds
LLM(m)   == <<m, "llm">>
Embed(m) == <<m, "embed">>

WorkStatus       == {"none", "PENDING", "RUNNING", "COMPLETED", "FAILED_TERMINAL"}
ObligationStatus == {"none", "PENDING", "SATISFIED", "FAILED"}
CycleType        == {"none", "mandatory", "reactive"}
Phase            == {"down", "starting", "running", "stopping", "flushing"}

(* A generative worker returns a decision to speak, a decision not to, or   *)
(* something parse_decision rejects; "error" is the WORKER_ERROR_KEY result *)
(* the dispatcher itself writes.                                            *)
Decisions == {"speak", "silent", "invalid"}
Outcomes  == Decisions \cup {"error", "vector"}

HumanMessage(m)    == [type |-> "human", msg |-> m, outcome |-> "none"]
LLMResult(m, o)    == [type |-> "llm", msg |-> m, outcome |-> o]
EmbeddingResult(m) == [type |-> "embed", msg |-> m, outcome |-> "vector"]

Event == [type : {"human", "llm", "embed"}, msg : Messages,
          outcome : Outcomes \cup {"none"}]

Accepted == {m \in Messages : stamp[m] > 0}

-----------------------------------------------------------------------------
(* Ingress.  ingest_human_message accepts (INSERT OR IGNORE) and enqueues    *)
(* only a newly inserted event; a client that missed the ACK sends the same  *)
(* event_id again.                                                          *)

(* events.accept inserted a row.                                            *)
Newly(m) == stamp[m] = 0

Ingest(m) ==
  /\ phase \in {"running", "stopping"}
  /\ todo = {}
  /\ IF Newly(m)
       THEN /\ clock' = clock + 1
            /\ stamp' = [stamp EXCEPT ![m] = clock + 1]
            /\ queue' = Append(queue, HumanMessage(m))
       ELSE UNCHANGED <<clock, stamp, queue>>
  /\ UNCHANGED <<reduced, turns, lastHuman, cycle, work, obligation, replies,
                 session, phase, task, todo, replay, plan>>
  /\ UNCHANGED history

-----------------------------------------------------------------------------
(* Reductions.  Each is the one transaction of Reducer.reduce for an event;  *)
(* `todo' receives the work ids the outcome asks to dispatch.               *)

(* handle_human_message: the turn, the conversation clock, an embedding work *)
(* item if the text is embedding-eligible, and then the mandatory path, the  *)
(* optional path that decided to call the model, or silence.                *)
ReduceHuman(m) ==
  /\ reduced' = reduced \cup {m}
  /\ turns' = [turns EXCEPT ![m] = @ + 1]
  /\ lastHuman' = stamp[m]
  /\ \E eligible \in BOOLEAN, path \in CycleType :
       LET created == (IF eligible THEN {Embed(m)} ELSE {})
                        \cup (IF path = "none" THEN {} ELSE {LLM(m)})
       IN  /\ work' = [w \in Work |-> IF w \in created THEN "PENDING" ELSE work[w]]
           /\ cycle' = [cycle EXCEPT ![m] = path]
           /\ obligation' = IF path = "mandatory"
                              THEN [obligation EXCEPT ![m] = "PENDING"]
                              ELSE obligation
           /\ todo' = created
  /\ UNCHANGED <<stamp, clock, replies>>

(* is_superseded: a later human turn was reduced, or the candidate is gone.  *)
Superseded(m, gone) == gone \/ lastHuman > stamp[m]

SilenceSatisfies(m, o) ==   \* faulty variant: a decision not to speak discharges
  IF cycle[m] # "mandatory" THEN obligation[m]
  ELSE IF o \in {"speak", "silent"} THEN "SATISFIED" ELSE "FAILED"
(* The obligation status a result leaves behind: a mandatory cycle is        *)
(* answered by a spoken message and fails on anything else.                 *)
Resolve(m, o) ==
  IF cycle[m] # "mandatory" THEN obligation[m]
  ELSE IF o = "speak" THEN "SATISFIED" ELSE "FAILED"

(* Whether the result of m's cycle creates an outbound row.                  *)
Speaks(m, o, gone) ==
  /\ o = "speak"
  /\ cycle[m] = "reactive" => ~Superseded(m, gone)

(* A worker failure leaves the FAILED_TERMINAL item; every other result      *)
(* completes it.                                                            *)
AfterLLMResult(m, o) == IF o = "error" THEN work[LLM(m)] ELSE "COMPLETED"

(* handle_llm_result for the human cycles.                                   *)
ReduceLLM(m, o) ==
  /\ todo' = {}
  /\ IF work[LLM(m)] \in {"none", "COMPLETED"}
       THEN UNCHANGED <<work, obligation, replies>>
       ELSE /\ work' = [work EXCEPT ![LLM(m)] = AfterLLMResult(m, o)]
            /\ obligation' = [obligation EXCEPT ![m] = Resolve(m, o)]
            /\ \E gone \in BOOLEAN :
                 replies' = IF Speaks(m, o, gone)
                              THEN [replies EXCEPT ![m] = @ + 1]
                              ELSE replies
  /\ UNCHANGED <<stamp, clock, reduced, turns, lastHuman, cycle>>

(* handle_embedding_result for a turn's own memory.                          *)
ReduceEmbedding(m) ==
  /\ todo' = {}
  /\ work' = IF work[Embed(m)] = "none" THEN work
             ELSE [work EXCEPT ![Embed(m)] = "COMPLETED"]
  /\ UNCHANGED <<stamp, clock, reduced, turns, lastHuman, cycle, obligation, replies>>

Reduce(e) ==
  \/ e.type = "human" /\ ReduceHuman(e.msg)
  \/ e.type = "llm"   /\ ReduceLLM(e.msg, e.outcome)
  \/ e.type = "embed" /\ ReduceEmbedding(e.msg)

(* _reducer_loop / _process: take the next event and reduce it; its work is  *)
(* dispatched by DispatchNext before anything else runs.                    *)
ReduceNext ==
  /\ phase = "running" /\ todo = {} /\ queue # <<>>
  /\ Reduce(Head(queue))
  /\ queue' = Tail(queue)
  /\ UNCHANGED <<session, phase, task, replay, plan>>
  /\ UNCHANGED history

(* The handler raises: the transaction rolls back, the loop logs and moves   *)
(* on; the event is no longer in memory.                                    *)
ReduceRaises ==
  /\ phase = "running" /\ todo = {} /\ queue # <<>>
  /\ failures < MaxFailures
  /\ failures' = failures + 1
  /\ raised' = raised + 1
  /\ queue' = Tail(queue)
  /\ UNCHANGED durable
  /\ UNCHANGED <<phase, task, todo, replay, plan, crashes>>

-----------------------------------------------------------------------------
(* The dispatcher.                                                          *)

(* Dispatcher.dispatch: lease the item and spawn its task.                   *)
DispatchNext ==
  /\ \E w \in todo :
       /\ work' = [work EXCEPT ![w] = "RUNNING"]
       /\ task' = [task EXCEPT ![w] = 1]
       /\ todo' = todo \ {w}
  /\ UNCHANGED <<stamp, clock, reduced, turns, lastHuman, cycle, obligation,
                 replies, session, phase, queue, replay, plan>>
  /\ UNCHANGED history

(* Workers run whenever the reducer coroutine is suspended: while the loop   *)
(* waits, and while stop() awaits Dispatcher.drain.                         *)
WorkersRun == phase \in {"running", "stopping"} /\ todo = {}

(* _run: the worker returned; its result event goes to the queue.            *)
WorkerReturns(w) ==
  /\ WorkersRun
  /\ task[w] > 0
  /\ task' = [task EXCEPT ![w] = 0]
  /\ \/ /\ w[2] = "llm"
        /\ \E o \in Decisions : queue' = Append(queue, LLMResult(w[1], o))
     \/ /\ w[2] = "embed"
        /\ queue' = Append(queue, EmbeddingResult(w[1]))
  /\ UNCHANGED durable
  /\ UNCHANGED <<phase, todo, replay, plan>>
  /\ UNCHANGED history

(* attempt < _MAX_ATTEMPTS                                                  *)
MayRetry(w) == task[w] < MaxAttempts

(* _run: an attempt raised and another is left; back off and lease again.    *)
RetryAttempt(w) ==
  /\ WorkersRun
  /\ task[w] > 0 /\ MayRetry(w)
  /\ task' = [task EXCEPT ![w] = @ + 1]
  /\ work' = [work EXCEPT ![w] = "RUNNING"]
  /\ UNCHANGED <<stamp, clock, reduced, turns, lastHuman, cycle, obligation,
                 replies, session, phase, queue, todo, replay, plan>>
  /\ UNCHANGED history

FailSilently(w) == queue   \* faulty variant: failure recorded, not surfaced
(* What _fail_terminal surfaces: a generative failure becomes a result       *)
(* event, an embedding failure is only recorded.                            *)
Surface(w) ==
  IF w[2] = "llm" THEN Append(queue, LLMResult(w[1], "error")) ELSE queue

(* _fail_terminal: the last attempt raised.                                  *)
FailTerminal(w) ==
  /\ WorkersRun
  /\ task[w] = MaxAttempts
  /\ task' = [task EXCEPT ![w] = 0]
  /\ work' = [work EXCEPT ![w] = "FAILED_TERMINAL"]
  /\ queue' = Surface(w)
  /\ UNCHANGED <<stamp, clock, reduced, turns, lastHuman, cycle, obligation,
                 replies, session, phase, todo, replay, plan>>
  /\ UNCHANGED history

-----------------------------------------------------------------------------
(* Shutdown.                                                                *)

(* stop(): no more reductions by the loop; workers are drained.              *)
Stop ==
  /\ phase = "running" /\ todo = {}
  /\ phase' = "stopping"
  /\ UNCHANGED durable
  /\ UNCHANGED <<queue, task, todo, replay, plan>>
  /\ UNCHANGED history

DrainSkipped == TRUE   \* faulty variant: stop() does not await the workers
(* Dispatcher.drain has returned.                                            *)
Drained == \A w \in Work : task[w] = 0

FinishDrain ==
  /\ phase = "stopping" /\ Drained
  /\ phase' = "flushing"
  /\ UNCHANGED durable
  /\ UNCHANGED <<queue, task, todo, replay, plan>>
  /\ UNCHANGED history

(* _reduce_remaining: results are reduced, a HumanMessage is left for the    *)
(* next start; nothing is dispatched.                                       *)
FlushNext ==
  /\ phase = "flushing" /\ queue # <<>>
  /\ queue' = Tail(queue)
  /\ \/ /\ Head(queue).type \in {"llm", "embed"}
        /\ Reduce(Head(queue))
     \/ /\ Head(queue).type = "human"
        /\ UNCHANGED <<stamp, clock, reduced, turns, lastHuman, cycle, work,
                       obligation, replies, todo>>
  /\ UNCHANGED <<session, phase, task, replay, plan>>
  /\ UNCHANGED history

(* The memory of a process that ended.                                      *)
MemoryLost ==
  /\ phase' = "down"
  /\ queue' = <<>>
  /\ task' = [w \in Work |-> 0]
  /\ todo' = {} /\ replay' = {} /\ plan' = {}

(* AgentSuspending, close_session(CLEAN_SUSPEND), lock released.             *)
Suspend ==
  /\ phase = "flushing" /\ queue = <<>>
  /\ MemoryLost
  /\ session' = "CLEAN_SUSPEND"
  /\ UNCHANGED <<stamp, clock, reduced, turns, lastHuman, cycle, work,
                 obligation, replies>>
  /\ UNCHANGED history

(* Process death at any point; also a replay that raises out of start() and  *)
(* a reduction that raises out of stop().                                   *)
Crash ==
  /\ phase # "down"
  /\ crashes < MaxCrashes
  /\ crashes' = crashes + 1
  /\ MemoryLost
  /\ UNCHANGED durable
  /\ UNCHANGED <<raised, failures>>

-----------------------------------------------------------------------------
(* Startup.                                                                 *)

ReclaimNone(w) == work[w]   \* faulty variant: leases outlive their process
(* _reclaim_leases: every RUNNING item of a dead process is requeued.        *)
Reclaim(w) == IF work[w] = "RUNNING" THEN "PENDING" ELSE work[w]

RetryFailedToo(w) == Reclaim(w) \in {"PENDING", "FAILED_TERMINAL"}   \* faulty variant
(* work.pending(), read after the leases are reclaimed.                     *)
Recoverable(w) == Reclaim(w) = "PENDING"

NothingToReplay == {}   \* faulty variant: the events table is not consulted
(* events.unreduced()                                                       *)
Unreduced == Accepted \ reduced

(* recover(): requeue leases, then read the pending work and the accepted    *)
(* but unreduced events.                                                    *)
Recover ==
  /\ phase = "down"
  /\ phase' = "starting"
  /\ work' = [w \in Work |-> Reclaim(w)]
  /\ plan' = {w \in Work : Recoverable(w)}
  /\ replay' = Unreduced
  /\ raised' = 0
  /\ session' = "open"
  /\ UNCHANGED <<stamp, clock, reduced, turns, lastHuman, cycle, obligation,
                 replies, queue, task, todo, crashes, failures>>

(* start(): process the replayed events, oldest accepted first.              *)
ReplayNext ==
  /\ phase = "starting" /\ todo = {}
  /\ \E m \in replay :
       /\ \A n \in replay : stamp[m] <= stamp[n]
       /\ ReduceHuman(m)
       /\ replay' = replay \ {m}
  /\ UNCHANGED <<session, phase, queue, task, plan>>
  /\ UNCHANGED history

(* start(): then dispatch the recovered work.                                *)
Redispatch ==
  /\ phase = "starting" /\ todo = {} /\ replay = {} /\ plan # {}
  /\ todo' = plan
  /\ plan' = {}
  /\ UNCHANGED durable
  /\ UNCHANGED <<phase, queue, task, replay>>
  /\ UNCHANGED history

(* start(): spawn the reducer loop; the IPC server accepts clients.          *)
GoLive ==
  /\ phase = "starting" /\ todo = {} /\ replay = {} /\ plan = {}
  /\ phase' = "running"
  /\ UNCHANGED durable
  /\ UNCHANGED <<queue, task, todo, replay, plan>>
  /\ UNCHANGED history

-----------------------------------------------------------------------------
(* An installed agent that has never run.                                   *)
Init ==
  /\ stamp = [m \in Messages |-> 0]
  /\ clock = 0
  /\ reduced = {}
  /\ turns = [m \in Messages |-> 0]
  /\ lastHuman = 0
  /\ cycle = [m \in Messages |-> "none"]
  /\ work = [w \in Work |-> "none"]
  /\ obligation = [m \in Messages |-> "none"]
  /\ replies = [m \in Messages |-> 0]
  /\ session = "none"
  /\ phase = "down"
  /\ queue = <<>>
  /\ task = [w \in Work |-> 0]
  /\ todo = {} /\ replay = {} /\ plan = {}
  /\ raised = 0
  /\ crashes = 0 /\ failures = 0

Startup  == Recover \/ ReplayNext \/ Redispatch \/ GoLive
Shutdown == FinishDrain \/ FlushNext \/ Suspend
Worker(w) == WorkerReturns(w) \/ RetryAttempt(w) \/ FailTerminal(w)

Next ==
  \/ \E m \in Messages : Ingest(m)
  \/ ReduceNext
  \/ ReduceRaises
  \/ DispatchNext
  \/ \E w \in Work : Worker(w)
  \/ Stop
  \/ Shutdown
  \/ Startup
  \/ Crash

(* The event loop keeps running ready coroutines; a worker call returns or   *)
(* times out; a stopped or crashed service is started again.                *)
Fairness ==
  /\ WF_vars(ReduceNext)
  /\ WF_vars(DispatchNext)
  /\ \A w \in Work : WF_vars(Worker(w))
  /\ WF_vars(Shutdown)
  /\ WF_vars(Startup)

Spec     == Init /\ [][Next]_vars
FairSpec == Spec /\ Fairness

-----------------------------------------------------------------------------
(* The inductive invariant behind the safety properties.                    *)

Contents(q) == {q[i] : i \in 1..Len(q)}

(* No two queued events are of the same type for the same message.          *)
Keyed(q) ==
  \A i, j \in 1..Len(q) :
    i # j => q[i].msg # q[j].msg \/ q[i].type # q[j].type

(* What memory holds in each phase.                                          *)
PhaseInv ==
  /\ phase \in {"down", "starting"} => queue = <<>>
  /\ phase \in {"down", "stopping", "flushing"} => todo = {}
  /\ phase \in {"down", "flushing"} => \A w \in Work : task[w] = 0
  /\ phase # "starting" => replay = {} /\ plan = {}

(* A message waiting to be reduced is accepted and has no turn yet.          *)
IngressInv ==
  /\ Keyed(queue)
  /\ reduced \cup replay \subseteq Accepted
  /\ replay \cap reduced = {}
  /\ \A e \in Contents(queue) : e.type = "human" => stamp[e.msg] > 0 /\ e.msg \notin reduced
  /\ \A m \in Messages : turns[m] = IF m \in reduced THEN 1 ELSE 0

(* Work, obligation and outbound row of a message agree.                     *)
AnswerInv ==
  \A m \in Messages :
    /\ m \notin reduced => /\ work[LLM(m)] = "none" /\ work[Embed(m)] = "none"
                           /\ cycle[m] = "none" /\ obligation[m] = "none"
    /\ replies[m] <= 1
    /\ work[LLM(m)] # "COMPLETED" => replies[m] = 0
    /\ cycle[m] = "mandatory" => (obligation[m] = "SATISFIED" <=> replies[m] = 1)
    /\ cycle[m] = "mandatory" <=> obligation[m] # "none"

(* Each work item is owned by at most one of: the dispatch lists, a worker   *)
(* task, a queued result; and its status says which.                        *)
OwnerInv ==
  /\ todo \cap plan = {}
  /\ \A w \in todo \cup plan : work[w] = "PENDING"
  /\ \A w \in Work : task[w] > 0 => work[w] = "RUNNING"
  /\ \A e \in Contents(queue) : e.type # "human" =>
       /\ work[<<e.msg, e.type>>] = IF e.outcome = "error" THEN "FAILED_TERMINAL" ELSE "RUNNING"
       /\ task[<<e.msg, e.type>>] = 0
       /\ e.type = "llm" => obligation[e.msg] \in {"none", "PENDING"}
       /\ e.type = "embed" => e.outcome # "error"
  /\ \A m \in Messages : obligation[m] \in {"SATISFIED", "FAILED"} =>
       work[LLM(m)] \in {"COMPLETED", "FAILED_TERMINAL"}

IInv == PhaseInv /\ IngressInv /\ AnswerInv /\ OwnerInv

(* An event of this type for m is queued.                                    *)
Waiting(m, type) == \E e \in Contents(queue) : e.msg = m /\ e.type = type

(* While no reduction raised: what a live process still has to do is held in *)
(* its memory.  A live process has its session open, so a clean suspend is   *)
(* recorded only with that memory empty.                                    *)
SessionInv == phase # "down" => session = "open"

BacklogInv ==
  raised = 0 =>
    \A m \in Unreduced :
      /\ phase \in {"running", "stopping"} => Waiting(m, "human")
      /\ phase = "starting" => m \in replay

LeaseInv ==
  (raised = 0 /\ phase # "down") =>
    \A w \in Work :
      /\ work[w] = "RUNNING" => task[w] > 0 \/ Waiting(w[1], w[2])
      /\ work[w] = "PENDING" => w \in todo \cup plan

-----------------------------------------------------------------------------
(* Properties.                                                              *)

TypeOK ==
  /\ stamp \in [Messages -> Nat] /\ clock \in Nat
  /\ reduced \subseteq Messages
  /\ turns \in [Messages -> Nat] /\ lastHuman \in Nat
  /\ cycle \in [Messages -> CycleType]
  /\ work \in [Work -> WorkStatus]
  /\ obligation \in [Messages -> ObligationStatus]
  /\ replies \in [Messages -> Nat]
  /\ session \in {"none", "open", "CLEAN_SUSPEND"} /\ phase \in Phase
  /\ queue \in Seq(Event)
  /\ task \in [Work -> 0..MaxAttempts]
  /\ todo \subseteq Work /\ replay \subseteq Messages /\ plan \subseteq Work
  /\ raised \in 0..failures
  /\ crashes \in 0..MaxCrashes /\ failures \in 0..MaxFailures

(* Effectively-once ingress (event_store.accept, reduce, unreduced): however *)
(* often a message is resent, queued, replayed or cut off by a crash, it     *)
(* makes exactly one turn if it was reduced and none otherwise.             *)
EffectivelyOnce ==
  \A m \in Messages : turns[m] = IF m \in reduced THEN 1 ELSE 0

(* One answer per message, across retries and redispatch after a crash: at   *)
(* most one outbound row answers a message, and an obligation is SATISFIED   *)
(* exactly when its row exists (handle_llm_result commits both and the       *)
(* COMPLETED status in one transaction).                                    *)
AnsweredOnce ==
  \A m \in Messages :
    /\ replies[m] <= 1
    /\ cycle[m] = "mandatory" => (obligation[m] = "SATISFIED" <=> replies[m] = 1)

InQueue(m, type) == {i \in 1..Len(queue) : queue[i].type = type /\ queue[i].msg = m}

(* An acknowledged message is never lost in a session in which no reduction  *)
(* raised: until it is reduced it sits in the queue exactly once, or, while  *)
(* the service starts, in the replay plan.                                  *)
NoAcceptedMessageLost ==
  raised = 0 =>
    \A m \in Accepted \ reduced :
      /\ phase \in {"running", "stopping"} => Cardinality(InQueue(m, "human")) = 1
      /\ phase = "starting" => m \in replay

(* No leased work is stranded in a session in which no reduction raised: a   *)
(* RUNNING item has a live worker task or its result is queued, a PENDING    *)
(* one is about to be dispatched.                                           *)
NoStrandedWork ==
  (raised = 0 /\ phase # "down") =>
    \A w \in Work :
      /\ work[w] = "RUNNING" => task[w] > 0 \/ InQueue(w[1], w[2]) # {}
      /\ work[w] = "PENDING" => w \in todo \cup plan

(* stop() lets nothing run twice: after a clean suspend of a session in      *)
(* which no reduction raised, no work is left that the next start would run  *)
(* again (drain and _reduce_remaining, service.py:147-153).                 *)
CleanSuspendIsQuiescent ==
  (phase = "down" /\ session = "CLEAN_SUSPEND" /\ raised = 0) =>
    \A w \in Work : work[w] \in {"none", "COMPLETED", "FAILED_TERMINAL"}

(* The second invariant: with IInv it is inductive.                          *)
HeldInv == SessionInv /\ BacklogInv /\ LeaseInv /\ CleanSuspendIsQuiescent

(* A settled record is final: completed or terminally failed work is never   *)
(* leased again, and a satisfied or failed obligation is never reopened or   *)
(* flipped (lease() and update_obligation() themselves check nothing).      *)
SettledIsFinal ==
  [][/\ \A w \in Work : work[w] \in {"COMPLETED", "FAILED_TERMINAL"} => work'[w] = work[w]
     /\ \A m \in Messages : obligation[m] \in {"SATISFIED", "FAILED"}
                              => obligation'[m] = obligation[m]]_vars

Promise == INSTANCE Conversation WITH
  acknowledged <- Accepted,
  heard        <- turns,
  owed         <- {m \in Messages : obligation[m] = "PENDING"},
  answers      <- replies,
  abandoned    <- {m \in Messages : obligation[m] = "FAILED"}

(* The service implements the conversation it promises: what a step does to   *)
(* the turns, obligations and outbound rows of a message is one step of       *)
(* Conversation, and retries, redispatch, stops, crashes and recovery show    *)
(* as nothing at all.                                                        *)
KeepsPromise == Promise!Spec

(* A PENDING obligation still has something that will settle it: its work is *)
(* runnable, or the result is queued (the WORKER_ERROR_KEY comment:          *)
(* "surfaced as a failure rather than left pending forever").  Violated by   *)
(* a crash between FAILED_TERMINAL and the reduction of the failure result.  *)
NoOrphanedObligation ==
  \A m \in Messages : obligation[m] = "PENDING" =>
    work[LLM(m)] \in {"PENDING", "RUNNING"} \/ InQueue(m, "llm") # {}

(* Every accepted message is eventually reduced, through any number of       *)
(* stop/start cycles and the crashes of the instance (no reduction raising). *)
AcceptedIsReduced ==
  \A m \in Messages : (stamp[m] > 0) ~> (m \in reduced)

(* A PENDING obligation is eventually SATISFIED or FAILED, through retries,   *)
(* restarts and crashes; after a crash the promise is weaker, for the         *)
(* failure of its work may be all that is left (NoOrphanedObligation).       *)
ObligationSettles ==
  \A m \in Messages : (obligation[m] = "PENDING") ~>
    \/ obligation[m] \in {"SATISFIED", "FAILED"}
    \/ crashes > 0 /\ work[LLM(m)] = "FAILED_TERMINAL"
=============================================================================
