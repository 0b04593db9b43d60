------------------------------ MODULE Lifecycle ------------------------------
(***************************************************************************)
(* The life of an agent across the processes that run it: the instance lock, *)
(* the identity, the runtime sessions, how each start classifies the end of  *)
(* the one before, what counts as observed silence, and how a stop ends.     *)
(*                                                                         *)
(*   off - locked - read - booted - recovering - started - resumed - ready    *)
(*    |                                                                |     *)
(*   off - closed - suspended - draining - closing - serving <---------+     *)
(*                                                                         *)
(* Every step is one transaction of the process, or what it does between two  *)
(* of them; a process may die between any two (start() raising is a death     *)
(* too).  What the service does with events while it serves is AgentService; *)
(* here a turn of the human is reduced at any time.                          *)
(***************************************************************************)
EXTENDS Integers, Sequences

CONSTANTS
  Processes,   \* operating-system processes that run `aca service start'
  Clients,     \* chat clients: they subscribe and leave when they like
  Beat,        \* _HEARTBEAT_SECONDS, in ticks
  MaxTime,     \* bound: ticks in a behaviour
  MaxSessions  \* bound: runtime sessions

ASSUME BeatAssumption == Beat \in Nat \ {0}
ASSUME BoundsAssumption == MaxTime \in Nat \ {0} /\ MaxSessions \in Nat \ {0}
ASSUME NoneAssumption == "none" \notin Processes

VARIABLES
  now,       \* the clock; it is never set back
  (* durable *)
  minted,    \* how often an agent_id was created
  identity,  \* lifecycle_state, current session, exit kind, times
  sessions,  \* runtime_sessions, in the order of insertion
  silence,   \* conversation.active_observed_silence_seconds
  (* the operating system *)
  lock,      \* the process that holds the flock
  clients,   \* clients with an open connection to the serving process
  (* per process *)
  phase,
  isNew,     \* what bootstrap_identity found
  plan,      \* exit kind and downtime in the RecoveryPlan
  beat,      \* ticks since the heartbeat loop last slept
  (* history *)
  ran,       \* ticks of serving since a human turn was last reduced
  end        \* when the last session's process ended, and whether its heartbeat ran

vars == <<now, minted, identity, sessions, silence, lock, clients,
          phase, isNew, plan, beat, ran, end>>
durable == <<minted, identity, sessions, silence>>
history == <<ran, end>>

None    == "none"
Serving == {"serving", "closing"}
Phase   == {"off", "locked", "read", "booted", "recovering", "started", "resumed", "ready",
            "draining", "suspended", "closed"} \cup Serving
Latest(p) == Len(sessions)
NoPlan  == [kind |-> "UNKNOWN", downtime |-> 0]
Floor0(n) == IF n > 0 THEN n ELSE 0

(* The order of the phases of a process; its memory goes with it.            *)
Gone(p) ==
  /\ isNew' = [isNew EXCEPT ![p] = FALSE] /\ plan' = [plan EXCEPT ![p] = NoPlan]
  /\ beat' = [beat EXCEPT ![p] = 0]
Enter(p, from, to) == phase[p] = from /\ phase' = [phase EXCEPT ![p] = to]

-----------------------------------------------------------------------------
(* Start.                                                                   *)

AnyMayStart == TRUE   \* faulty variant: the data directory is not locked
(* flock(LOCK_EX | LOCK_NB); a refused process exits.                        *)
LockFree == lock = None

Acquire(p) ==
  /\ LockFree
  /\ Enter(p, "off", "locked") /\ lock' = p
  /\ UNCHANGED <<now, durable, clients, isNew, plan, beat, history>>

(* bootstrap_identity: load, then insert in a transaction of its own.         *)
ReadIdentity(p) ==
  /\ Enter(p, "locked", "read")
  /\ isNew' = [isNew EXCEPT ![p] = (minted = 0)]
  /\ UNCHANGED <<now, durable, lock, clients, plan, beat, history>>

Bootstrap(p) ==
  /\ Enter(p, "read", "booted")
  /\ minted' = IF isNew[p] THEN minted + 1 ELSE minted
  /\ UNCHANGED <<now, identity, sessions, silence, lock, clients, isNew, plan, beat, history>>

(* latest_session: ORDER BY started_at DESC LIMIT 1                           *)
LatestSessions == {s \in 1..Len(sessions) : \A r \in 1..Len(sessions) :
                     sessions[r].start <= sessions[s].start}

SuspendedMeansClean(s) == identity.lifecycle = "SUSPENDED"   \* faulty variant
ClosedCleanly(s) == sessions[s].exit = "CLEAN_SUSPEND"

SinceStart(s) == Floor0(now - sessions[s].start)   \* faulty variant: no heartbeat
SinceHeartbeat(s) == Floor0(now - identity.heartbeat)

(* _classify_downtime                                                       *)
Classify(s) ==
  IF ClosedCleanly(s)
    THEN [kind |-> "CLEAN_SUSPEND", downtime |-> Floor0(now - identity.cleanSuspend)]
    ELSE [kind |-> "UNCLEAN_INTERRUPTION", downtime |-> SinceHeartbeat(s)]

(* recover(): no two sessions start at one instant.                          *)
Recover(p) ==
  /\ Enter(p, "booted", "recovering")
  /\ Len(sessions) < MaxSessions /\ \A s \in 1..Len(sessions) : sessions[s].start # now
  /\ plan' = [plan EXCEPT ![p] = IF isNew[p] \/ sessions = <<>> THEN NoPlan
                                 ELSE Classify(CHOOSE s \in LatestSessions : TRUE)]
  /\ sessions' = Append(sessions, [start |-> now, exit |-> None])
  /\ identity' = [identity EXCEPT !.lifecycle = "RECOVERING", !.current = Len(sessions) + 1,
                                  !.heartbeat = now]
  /\ UNCHANGED <<now, minted, silence, lock, clients, isNew, beat, history>>

(* handle_agent_started                                                     *)
ReduceStarted(p) ==
  /\ Enter(p, "recovering", "started")
  /\ identity' = [identity EXCEPT !.heartbeat = now]
  /\ UNCHANGED <<now, minted, sessions, silence, lock, clients, isNew, plan, beat, history>>

AddsDowntime(p) == silence + plan[p].downtime   \* faulty variant
(* handle_agent_resumed, handle_runtime_interruption                          *)
SilenceAfterResume(p) == silence

ReduceResumed(p) ==
  /\ Enter(p, "started", "resumed")
  /\ identity' = IF plan[p].kind = "UNCLEAN_INTERRUPTION"
                   THEN [identity EXCEPT !.exitKind = "UNCLEAN_INTERRUPTION"] ELSE identity
  /\ silence' = SilenceAfterResume(p)
  /\ UNCHANGED <<now, minted, sessions, lock, clients, isNew, plan, beat, history>>

(* _set_lifecycle(RUNNING); then start() replays what was accepted.           *)
SetRunning(p) ==
  /\ Enter(p, "resumed", "ready")
  /\ identity' = [identity EXCEPT !.lifecycle = "RUNNING"]
  /\ UNCHANGED <<now, minted, sessions, silence, lock, clients, isNew, plan, beat, history>>

(* The loops are started and the IPC server accepts connections.              *)
GoLive(p) ==
  /\ Enter(p, "ready", "serving")
  /\ beat' = [beat EXCEPT ![p] = 0] /\ end' = [end EXCEPT !.beating = FALSE]
  /\ UNCHANGED <<now, durable, lock, clients, isNew, plan, ran>>

-----------------------------------------------------------------------------
(* While it runs.                                                           *)

(* handle_human_message: a present human resets the observed silence.         *)
ReduceHuman(p) ==
  /\ phase[p] \in Serving \cup {"ready"}
  /\ silence' = 0 /\ ran' = 0
  /\ UNCHANGED <<now, minted, identity, sessions, lock, clients, phase, isNew, plan, beat, end>>

(* _heartbeat                                                               *)
Heartbeat(p) ==
  /\ phase[p] \in Serving /\ beat[p] = Beat
  /\ beat' = [beat EXCEPT ![p] = 0]
  /\ identity' = [identity EXCEPT !.heartbeat = now]
  /\ silence' = silence + Beat
  /\ end' = [end EXCEPT !.beating = TRUE]
  /\ UNCHANGED <<now, minted, sessions, lock, clients, phase, isNew, plan, ran>>

(* A chat client opens its subscription, and ends it when its user quits.     *)
ListensStill(p) == phase[p] \in Serving   \* faulty variant: never stops listening
Listening(p) == phase[p] = "serving"

Subscribe(c) ==
  /\ \E p \in Processes : Listening(p)
  /\ c \notin clients /\ clients' = clients \cup {c}
  /\ UNCHANGED <<now, durable, lock, phase, isNew, plan, beat, history>>
Leave(c) ==
  /\ c \in clients /\ clients' = clients \ {c}
  /\ UNCHANGED <<now, durable, lock, phase, isNew, plan, beat, history>>

-----------------------------------------------------------------------------
(* Stop.                                                                    *)

(* A shutdown request or a signal: _run_service closes the IPC server.        *)
RequestStop(p) ==
  /\ Enter(p, "serving", "closing")
  /\ UNCHANGED <<now, durable, lock, clients, isNew, plan, beat, history>>

(* asyncio.Server.wait_closed, since Python 3.12.1: every connection is gone. *)
ConnectionsGone == clients = {}

(* stop(): timers and loops cancelled; the workers drain.                     *)
Stop(p) ==
  /\ ConnectionsGone
  /\ Enter(p, "closing", "draining")
  /\ UNCHANGED <<now, durable, lock, clients, isNew, plan, beat, history>>

(* handle_agent_suspending                                                   *)
Suspend(p) ==
  /\ Enter(p, "draining", "suspended")
  /\ identity' = [identity EXCEPT !.lifecycle = "SUSPENDED", !.cleanSuspend = now,
                                  !.exitKind = "CLEAN_SUSPEND"]
  /\ UNCHANGED <<now, minted, sessions, silence, lock, clients, isNew, plan, beat, history>>

(* close_session, of the context's session                                   *)
CloseSession(p) ==
  /\ Enter(p, "suspended", "closed")
  /\ sessions' = [sessions EXCEPT ![Latest(p)].exit = "CLEAN_SUSPEND"]
  /\ UNCHANGED <<now, minted, identity, silence, lock, clients, isNew, plan, beat, history>>

Release(p) ==
  /\ Enter(p, "closed", "off")
  /\ lock' = IF lock = p THEN None ELSE lock
  /\ end' = [at |-> now, beating |-> FALSE] /\ Gone(p)
  /\ UNCHANGED <<now, durable, clients, ran>>

(* The process dies: the operating system closes its files and connections.   *)
Crash(p) ==
  /\ phase[p] # "off"
  /\ phase' = [phase EXCEPT ![p] = "off"]
  /\ lock' = IF lock = p THEN None ELSE lock
  /\ clients' = {}
  /\ end' = IF phase[p] \in {"locked", "read", "booted"} THEN end
            ELSE [at |-> now, beating |-> end.beating /\ phase[p] \in Serving]
  /\ Gone(p) /\ UNCHANGED <<now, durable, ran>>

-----------------------------------------------------------------------------
(* The heartbeat timer is on time.                                           *)
Tick ==
  /\ now < MaxTime
  /\ \A p \in Processes : phase[p] \in Serving => beat[p] < Beat
  /\ now' = now + 1
  /\ beat' = [p \in Processes |-> IF phase[p] \in Serving THEN beat[p] + 1 ELSE beat[p]]
  /\ ran' = IF \E p \in Processes : phase[p] \in Serving THEN ran + 1 ELSE ran
  /\ UNCHANGED <<durable, lock, clients, phase, isNew, plan, end>>

-----------------------------------------------------------------------------
Init ==
  /\ now = 1
  /\ minted = 0 /\ sessions = <<>> /\ silence = 0
  /\ identity = [lifecycle |-> "RECOVERING", current |-> 0, exitKind |-> None,
                 heartbeat |-> 0, cleanSuspend |-> 0]
  /\ lock = None /\ clients = {}
  /\ phase = [p \in Processes |-> "off"] /\ isNew = [p \in Processes |-> FALSE]
  /\ plan = [p \in Processes |-> NoPlan] /\ beat = [p \in Processes |-> 0]
  /\ ran = 0 /\ end = [at |-> 0, beating |-> FALSE]

Starts(p) ==
  \/ ReadIdentity(p) \/ Bootstrap(p) \/ Recover(p) \/ ReduceStarted(p)
  \/ ReduceResumed(p) \/ SetRunning(p) \/ GoLive(p)
Stops(p) == Stop(p) \/ Suspend(p) \/ CloseSession(p) \/ Release(p)

Next ==
  \/ \E p \in Processes :
       \/ Acquire(p) \/ Starts(p) \/ ReduceHuman(p) \/ Heartbeat(p)
       \/ RequestStop(p) \/ Stops(p) \/ Crash(p)
  \/ \E c \in Clients : Subscribe(c) \/ Leave(c)
  \/ Tick

Spec == Init /\ [][Next]_vars

(* A process that runs gets on with what it does; nobody has to start one, to *)
(* stop one, to kill one, or to leave the chat.                              *)
Fairness == \A p \in Processes : WF_vars(Starts(p)) /\ WF_vars(Stops(p)) /\ WF_vars(Heartbeat(p))
FairSpec == Spec /\ Fairness

-----------------------------------------------------------------------------
(* Properties.                                                              *)

Time == 0..MaxTime
TypeOK ==
  /\ now \in Time /\ minted \in Nat /\ silence \in Nat /\ ran \in Time
  /\ identity \in [lifecycle : {"RECOVERING", "RUNNING", "SUSPENDED"}, current : 0..MaxSessions,
                   exitKind : {None, "CLEAN_SUSPEND", "UNCLEAN_INTERRUPTION"},
                   heartbeat : Time, cleanSuspend : Time]
  /\ sessions \in Seq([start : Time, exit : {None, "CLEAN_SUSPEND"}])
  /\ Len(sessions) <= MaxSessions
  /\ lock \in Processes \cup {None} /\ clients \subseteq Clients
  /\ phase \in [Processes -> Phase]
  /\ \A p \in Processes : lock # p => phase[p] = "off"
  /\ isNew \in [Processes -> BOOLEAN] /\ beat \in [Processes -> 0..Beat]
  /\ plan \in [Processes -> [kind : {"UNKNOWN", "CLEAN_SUSPEND", "UNCLEAN_INTERRUPTION"},
                             downtime : Time]]
  /\ end \in [at : Time, beating : BOOLEAN]

(* "mint it exactly once" (bootstrap_identity, invariant 29), although the     *)
(* look-up and the insertion are two transactions: whatever processes are     *)
(* started together or die in between, there is at most one agent_id.         *)
IdentityMintedOnce == minted <= 1

(* _classify_downtime and the two handlers that record its verdict: a service *)
(* that runs says how the session before its own ended - clean only if that   *)
(* one was closed, wherever in its stop the process died - and says nothing    *)
(* of an agent that never ran.  The identity names the running session.       *)
ExitKindIsTrue ==
  \A p \in Processes : phase[p] \in Serving =>
    /\ identity.lifecycle = "RUNNING" /\ identity.current = Len(sessions)
    /\ LET previous == Len(sessions) - 1 IN
       identity.exitKind = IF previous = 0 THEN None
                           ELSE IF sessions[previous].exit = "CLEAN_SUSPEND" THEN "CLEAN_SUSPEND"
                           ELSE "UNCLEAN_INTERRUPTION"

(* The downtime a start reports is never less than the time since the last     *)
(* session's process was gone; if that one died with its heartbeat running it  *)
(* is more by at most one beat, and a first start reports none.               *)
DowntimeIsBounded ==
  \A p \in Processes : phase[p] = "recovering" =>
    LET began == sessions[Len(sessions)].start
        down  == began - end.at
    IN IF Len(sessions) = 1 THEN plan[p] = NoPlan
       ELSE /\ plan[p].downtime >= down
            /\ end.beating => plan[p].downtime <= down + Beat

(* Invariant 31: what counts as observed silence is time the service ran since *)
(* the human's last turn, up to the heartbeat under way; no downtime, however *)
(* often the service dies or is stopped in between.                          *)
SilenceIsObserved == silence <= ran + Beat

(* A stop that was asked for ends - drained, suspended, closed, unlocked - once *)
(* no client is connected, and no client can come back to prevent it.         *)
StopEnds == \A p \in Processes : (phase[p] = "closing" /\ clients = {}) ~> phase[p] = "off"

(* README: `aca service stop' is a "graceful suspension".  Violated: the server *)
(* is closed first, and that waits for chat clients that need never leave.     *)
StopCompletes == \A p \in Processes : phase[p] = "closing" ~> phase[p] = "off"
=============================================================================
