--------------------------- MODULE LifecycleProofs ---------------------------
(***************************************************************************)
(* TLAPS proofs about Lifecycle, for any processes and clients, any beat and *)
(* any bounds: type correctness (with the mutual exclusion the lock gives),   *)
(* that an identity is minted once, that only the time the service ran counts *)
(* as observed silence, that a service knows how the one before it ended, and *)
(* that it knows how long it was gone, but for a beat.                        *)
(***************************************************************************)
EXTENDS Lifecycle, TLAPS

Session == [start : Time, exit : {None, "CLEAN_SUSPEND"}]
Identity == [lifecycle : {"RECOVERING", "RUNNING", "SUSPENDED"}, current : 0..MaxSessions,
             exitKind : {None, "CLEAN_SUSPEND", "UNCLEAN_INTERRUPTION"},
             heartbeat : Time, cleanSuspend : Time]
Plan == [kind : {"UNKNOWN", "CLEAN_SUSPEND", "UNCLEAN_INTERRUPTION"}, downtime : Time]

(* The parts of TypeOK, by what a step touches together.                      *)
TimeOK == now \in Time /\ now > 0 /\ ran \in Time /\ ran < now /\ end \in [at : Time, beating : BOOLEAN]
DataOK ==
  /\ minted \in Nat /\ silence \in Nat /\ identity \in Identity
  /\ sessions \in Seq(Session) /\ Len(sessions) <= MaxSessions
ProcOK ==
  /\ lock \in Processes \cup {None} /\ clients \subseteq Clients
  /\ phase \in [Processes -> Phase]
  /\ \A p \in Processes : lock # p => phase[p] = "off"
  /\ beat \in [Processes -> 0..Beat]
  /\ isNew \in [Processes -> BOOLEAN] /\ plan \in [Processes -> Plan]
Types == TimeOK /\ DataOK /\ ProcOK

-----------------------------------------------------------------------------
(* Types.                                                                   *)

LEMMA TypesSuffice == Types => TypeOK
BY SMT DEF Types, TimeOK, DataOK, ProcOK, TypeOK, Session, Identity, Plan

LEMMA InitTypes == Init => Types
<1> SUFFICES ASSUME Init PROVE Types
  OBVIOUS
<1>1. TimeOK
  BY BoundsAssumption DEF Init, TimeOK, Time
<1>2. DataOK
  BY BoundsAssumption DEF Init, DataOK, Identity, Time
<1>3. ProcOK
  BY BeatAssumption, BoundsAssumption DEF Init, ProcOK, Phase, Plan, NoPlan, Time
<1> QED
  BY <1>1, <1>2, <1>3 DEF Types

(* A downtime is a time.                                                     *)
LEMMA ClassifyIsTyped ==
  ASSUME TimeOK, DataOK, NEW s
  PROVE  Classify(s) \in Plan
<1>1. \A t \in Time : Floor0(now - t) \in Time
  BY BoundsAssumption DEF TimeOK, Time, Floor0
<1>2. identity.heartbeat \in Time /\ identity.cleanSuspend \in Time
  BY DEF DataOK, Identity
<1> QED
  BY <1>1, <1>2 DEF Classify, SinceHeartbeat, Plan

LEMMA TimeStep == Types /\ [Next]_vars => TimeOK'
<1> SUFFICES ASSUME Types, [Next]_vars PROVE TimeOK'
  OBVIOUS
<1> USE BoundsAssumption DEF TimeOK, Time
<1>0. TimeOK
  BY DEF Types
<1>1. CASE Tick
  BY <1>0, <1>1 DEF Tick
<1>2. ASSUME NEW p \in Processes, ReduceHuman(p) PROVE TimeOK'
  BY <1>0, <1>2 DEF ReduceHuman
<1>3. ASSUME NEW p \in Processes, Heartbeat(p) PROVE TimeOK'
  BY <1>0, <1>3 DEF Heartbeat
<1>4. ASSUME NEW p \in Processes, GoLive(p) PROVE TimeOK'
  BY <1>0, <1>4 DEF GoLive
<1>5. ASSUME NEW p \in Processes, Release(p) PROVE TimeOK'
  BY <1>0, <1>5 DEF Release
<1>6. ASSUME NEW p \in Processes, Crash(p) PROVE TimeOK'
  <2>1. now' = now /\ ran' = ran
    BY <1>6 DEF Crash
  <2>2. end' \in [at : Time, beating : BOOLEAN]
    BY <1>0, <1>6 DEF Crash
  <2> QED
    BY <1>0, <2>1, <2>2
<1>7. ASSUME UNCHANGED <<now, ran, end>> PROVE TimeOK'
  BY <1>0, <1>7
<1>8. ASSUME NEW p \in Processes,
             \/ Acquire(p) \/ ReadIdentity(p) \/ Bootstrap(p) \/ Recover(p) \/ ReduceStarted(p)
             \/ ReduceResumed(p) \/ SetRunning(p) \/ RequestStop(p) \/ Stop(p) \/ Suspend(p)
             \/ CloseSession(p)
      PROVE  TimeOK'
  BY <1>7, <1>8 DEF Acquire, ReadIdentity, Bootstrap, Recover, ReduceStarted, ReduceResumed,
                    SetRunning, RequestStop, Stop, Suspend, CloseSession, history
<1>9. ASSUME NEW c \in Clients, Subscribe(c) \/ Leave(c) PROVE TimeOK'
  BY <1>7, <1>9 DEF Subscribe, Leave, history
<1>10. CASE UNCHANGED vars
  BY <1>7, <1>10 DEF vars
<1> QED
  BY <1>1, <1>2, <1>3, <1>4, <1>5, <1>6, <1>8, <1>9, <1>10 DEF Next, Starts, Stops

(* Closing a session replaces one entry of the list.                         *)
LEMMA ClosingKeepsSessions ==
  ASSUME NEW q \in Seq(Session), NEW i
  PROVE  LET r == [q EXCEPT ![i].exit = "CLEAN_SUSPEND"]
         IN  r \in Seq(Session) /\ Len(r) = Len(q)
<1> DEFINE r == [q EXCEPT ![i].exit = "CLEAN_SUSPEND"]
<1>1. Len(q) \in Nat /\ q \in [1..Len(q) -> Session]
  OBVIOUS
<1>2. r \in [1..Len(q) -> Session]
  BY <1>1 DEF Session
<1>3. \A n \in Nat : \A f \in [1..n -> Session] : f \in Seq(Session) /\ Len(f) = n
  OBVIOUS
<1> QED
  BY <1>1, <1>2, <1>3

LEMMA DataStep == Types /\ [Next]_vars => DataOK'
<1> SUFFICES ASSUME Types, [Next]_vars PROVE DataOK'
  OBVIOUS
<1>0. DataOK /\ now \in Time
  BY DEF Types, TimeOK
<1>1. ASSUME NEW p \in Processes, Bootstrap(p) PROVE DataOK'
  BY <1>0, <1>1 DEF Bootstrap, DataOK
<1>2. ASSUME NEW p \in Processes, Recover(p) PROVE DataOK'
  <2>1. sessions' \in Seq(Session) /\ Len(sessions') = Len(sessions) + 1
    BY <1>0, <1>2 DEF Recover, DataOK, Session
  <2>2. Len(sessions) + 1 \in 0..MaxSessions
    BY <1>0, <1>2, BoundsAssumption DEF Recover, DataOK
  <2>3. identity' \in Identity
    BY <1>0, <1>2, <2>2 DEF Recover, DataOK, Identity
  <2>4. Len(sessions') <= MaxSessions
    BY <2>1, <2>2, BoundsAssumption
  <2> QED
    BY <1>0, <1>2, <2>1, <2>3, <2>4 DEF Recover, DataOK
<1>3. ASSUME NEW p \in Processes, ReduceStarted(p) PROVE DataOK'
  BY <1>0, <1>3 DEF ReduceStarted, DataOK, Identity
<1>4. ASSUME NEW p \in Processes, ReduceResumed(p) PROVE DataOK'
  BY <1>0, <1>4 DEF ReduceResumed, SilenceAfterResume, DataOK, Identity
<1>5. ASSUME NEW p \in Processes, SetRunning(p) PROVE DataOK'
  BY <1>0, <1>5 DEF SetRunning, DataOK, Identity
<1>6. ASSUME NEW p \in Processes, ReduceHuman(p) PROVE DataOK'
  BY <1>0, <1>6 DEF ReduceHuman, DataOK
<1>7. ASSUME NEW p \in Processes, Heartbeat(p) PROVE DataOK'
  BY <1>0, <1>7, BeatAssumption DEF Heartbeat, DataOK, Identity
<1>8. ASSUME NEW p \in Processes, Suspend(p) PROVE DataOK'
  BY <1>0, <1>8 DEF Suspend, DataOK, Identity
<1>9. ASSUME NEW p \in Processes, CloseSession(p) PROVE DataOK'
  <2>1. sessions' \in Seq(Session) /\ Len(sessions') = Len(sessions)
    BY <1>0, <1>9, ClosingKeepsSessions DEF CloseSession, DataOK, Latest
  <2> QED
    BY <1>0, <1>9, <2>1 DEF CloseSession, DataOK
<1>10. ASSUME UNCHANGED durable PROVE DataOK'
  BY <1>0, <1>10 DEF durable, DataOK
<1>11. ASSUME NEW p \in Processes,
              \/ Acquire(p) \/ ReadIdentity(p) \/ GoLive(p) \/ RequestStop(p) \/ Stop(p)
              \/ Release(p) \/ Crash(p)
       PROVE  DataOK'
  BY <1>10, <1>11 DEF Acquire, ReadIdentity, GoLive, RequestStop, Stop, Release, Crash
<1>12. ASSUME NEW c \in Clients, Subscribe(c) \/ Leave(c) PROVE DataOK'
  BY <1>10, <1>12 DEF Subscribe, Leave
<1>13. CASE Tick \/ UNCHANGED vars
  BY <1>10, <1>13 DEF Tick, vars, durable
<1> QED
  BY <1>1, <1>2, <1>3, <1>4, <1>5, <1>6, <1>7, <1>8, <1>9, <1>11, <1>12, <1>13
     DEF Next, Starts, Stops

(* A process that enters a phase under the lock keeps the lock's promise.     *)
LEMMA EnterIsTyped ==
  ASSUME ProcOK, NEW p \in Processes, NEW from \in Phase \ {"off"}, NEW to \in Phase,
         Enter(p, from, to)
  PROVE  /\ lock = p /\ phase' \in [Processes -> Phase]
         /\ \A q \in Processes : lock # q => phase'[q] = "off"
BY DEF Enter, ProcOK

LEMMA NoPlanIsTyped == NoPlan \in Plan
BY BoundsAssumption DEF NoPlan, Plan, Time

LEMMA ProcStep == Types /\ [Next]_vars => ProcOK'
<1> SUFFICES ASSUME Types, [Next]_vars PROVE ProcOK'
  OBVIOUS
<1>0. ProcOK /\ TimeOK /\ DataOK
  BY DEF Types
<1>1. ASSUME NEW p \in Processes, Acquire(p) PROVE ProcOK'
  <2>1. lock = None /\ lock' = p /\ phase' = [phase EXCEPT ![p] = "locked"]
    BY <1>1 DEF Acquire, LockFree, Enter
  <2>2. \A q \in Processes : phase[q] = "off"
    BY <1>0, <2>1, NoneAssumption DEF ProcOK, None
  <2>3. phase' \in [Processes -> Phase] /\ \A q \in Processes : lock' # q => phase'[q] = "off"
    BY <1>0, <2>1, <2>2 DEF ProcOK, Phase
  <2> QED
    BY <1>0, <1>1, <2>1, <2>3 DEF Acquire, ProcOK
<1>2. ASSUME NEW p \in Processes, ReadIdentity(p) PROVE ProcOK'
  <2>1. /\ phase' \in [Processes -> Phase]
        /\ \A q \in Processes : lock # q => phase'[q] = "off"
    BY <1>0, <1>2, EnterIsTyped DEF ReadIdentity, Phase
  <2>2. isNew' \in [Processes -> BOOLEAN]
    BY <1>0, <1>2 DEF ReadIdentity, ProcOK
  <2> QED
    BY <1>0, <1>2, <2>1, <2>2 DEF ReadIdentity, ProcOK
<1>3. ASSUME NEW p \in Processes, Recover(p) PROVE ProcOK'
  <2>1. /\ phase' \in [Processes -> Phase]
        /\ \A q \in Processes : lock # q => phase'[q] = "off"
    BY <1>0, <1>3, EnterIsTyped DEF Recover, Phase
  <2>2. \A s : Classify(s) \in Plan
    BY <1>0, ClassifyIsTyped
  <2>3. plan' \in [Processes -> Plan]
    <3>1. plan' \in {[plan EXCEPT ![p] = NoPlan],
                     [plan EXCEPT ![p] = Classify(CHOOSE s \in LatestSessions : TRUE)]}
      BY <1>3 DEF Recover
    <3> QED
      BY <1>0, <2>2, <3>1, NoPlanIsTyped DEF ProcOK
  <2> QED
    BY <1>0, <1>3, <2>1, <2>3 DEF Recover, ProcOK
<1>4. ASSUME NEW p \in Processes,
             NEW from \in Phase \ {"off"}, NEW to \in Phase, Enter(p, from, to),
             UNCHANGED <<lock, clients, isNew, plan>>, beat' \in {beat, [beat EXCEPT ![p] = 0]}
      PROVE  ProcOK'
  <2>1. /\ phase' \in [Processes -> Phase]
        /\ \A q \in Processes : lock # q => phase'[q] = "off"
    BY <1>0, <1>4, EnterIsTyped
  <2>2. beat' \in [Processes -> 0..Beat]
    BY <1>0, <1>4, BeatAssumption DEF ProcOK
  <2> QED
    BY <1>0, <1>4, <2>1, <2>2 DEF ProcOK
<1>5. ASSUME NEW p \in Processes,
             \/ Bootstrap(p) \/ ReduceStarted(p) \/ ReduceResumed(p) \/ SetRunning(p)
             \/ GoLive(p) \/ RequestStop(p) \/ Stop(p) \/ Suspend(p) \/ CloseSession(p)
      PROVE  ProcOK'
  <2> USE DEF Phase, Serving
  <2>1. CASE Bootstrap(p)
    BY <1>4, <2>1 DEF Bootstrap
  <2>2. CASE ReduceStarted(p)
    BY <1>4, <2>2 DEF ReduceStarted
  <2>3. CASE ReduceResumed(p)
    BY <1>4, <2>3 DEF ReduceResumed
  <2>4. CASE SetRunning(p)
    BY <1>4, <2>4 DEF SetRunning
  <2>5. CASE GoLive(p)
    BY <1>4, <2>5 DEF GoLive
  <2>6. CASE RequestStop(p)
    BY <1>4, <2>6 DEF RequestStop
  <2>7. CASE Stop(p)
    BY <1>4, <2>7 DEF Stop
  <2>8. CASE Suspend(p)
    BY <1>4, <2>8 DEF Suspend
  <2>9. CASE CloseSession(p)
    BY <1>4, <2>9 DEF CloseSession
  <2> QED
    BY <1>5, <2>1, <2>2, <2>3, <2>4, <2>5, <2>6, <2>7, <2>8, <2>9
<1>6. ASSUME NEW p \in Processes, Release(p) \/ Crash(p) PROVE ProcOK'
  <2>1. phase[p] # "off" /\ phase' = [phase EXCEPT ![p] = "off"]
        /\ lock' = (IF lock = p THEN None ELSE lock) /\ Gone(p)
    BY <1>6 DEF Release, Crash, Enter
  <2>2. lock' = None /\ phase' \in [Processes -> Phase] /\ \A q \in Processes : phase'[q] = "off"
    BY <1>0, <2>1 DEF ProcOK, Phase
  <2>3. /\ beat' \in [Processes -> 0..Beat] /\ isNew' \in [Processes -> BOOLEAN]
        /\ plan' \in [Processes -> Plan]
    BY <1>0, <2>1, NoPlanIsTyped, BeatAssumption DEF ProcOK, Gone
  <2>4. clients' \subseteq Clients
    BY <1>0, <1>6 DEF Release, Crash, ProcOK
  <2> QED
    BY <2>2, <2>3, <2>4 DEF ProcOK
<1>7. ASSUME NEW p \in Processes, Heartbeat(p) PROVE ProcOK'
  BY <1>0, <1>7, BeatAssumption DEF Heartbeat, ProcOK
<1>8. ASSUME NEW p \in Processes, ReduceHuman(p) PROVE ProcOK'
  BY <1>0, <1>8 DEF ReduceHuman, ProcOK
<1>9. ASSUME NEW c \in Clients, Subscribe(c) \/ Leave(c) PROVE ProcOK'
  BY <1>0, <1>9 DEF Subscribe, Leave, ProcOK
<1>10. CASE Tick
  <2>1. \A p \in Processes : beat[p] \in 0..Beat /\ (phase[p] \in Serving => beat[p] < Beat)
    BY <1>0, <1>10 DEF Tick, ProcOK
  <2>2. beat' \in [Processes -> 0..Beat]
    BY <1>10, <2>1, BeatAssumption DEF Tick
  <2> QED
    BY <1>0, <1>10, <2>2 DEF Tick, ProcOK
<1>11. CASE UNCHANGED vars
  BY <1>0, <1>11 DEF vars, ProcOK
<1> QED
  BY <1>1, <1>2, <1>3, <1>5, <1>6, <1>7, <1>8, <1>9, <1>10, <1>11 DEF Next, Starts, Stops

LEMMA TypesHold == Spec => []Types
<1>1. Types /\ [Next]_vars => Types'
  BY TimeStep, DataStep, ProcStep DEF Types
<1> QED
  BY <1>1, InitTypes, PTL DEF Spec

(* Every reachable state is well typed, and whoever does not hold the instance *)
(* lock is off: at most one process runs.                                    *)
THEOREM TypeCorrect == Spec => []TypeOK
BY TypesHold, TypesSuffice, PTL

-----------------------------------------------------------------------------
(* The identity.                                                            *)

(* A process that found no identity is the only one there is, and no other    *)
(* minted one since.                                                        *)
MintInv ==
  /\ minted <= 1
  /\ \A p \in Processes : phase[p] = "read" /\ isNew[p] => minted = 0

LEMMA MintStep == Types /\ MintInv /\ [Next]_vars => MintInv'
<1> SUFFICES ASSUME Types, MintInv, [Next]_vars PROVE MintInv'
  OBVIOUS
<1>0. /\ minted \in Nat /\ phase \in [Processes -> Phase] /\ isNew \in [Processes -> BOOLEAN]
      /\ \A p \in Processes : lock # p => phase[p] = "off"
  BY DEF Types, DataOK, ProcOK
<1>1. ASSUME NEW p \in Processes, ReadIdentity(p) PROVE MintInv'
  <2>1. /\ minted' = minted /\ isNew' = [isNew EXCEPT ![p] = (minted = 0)]
        /\ phase' = [phase EXCEPT ![p] = "read"]
    BY <1>1 DEF ReadIdentity, Enter, durable
  <2> QED
    BY <1>0, <2>1 DEF MintInv
<1>2. ASSUME NEW p \in Processes, Bootstrap(p) PROVE MintInv'
  <2>1. /\ minted' = IF isNew[p] THEN minted + 1 ELSE minted
        /\ isNew' = isNew /\ phase[p] = "read" /\ phase' = [phase EXCEPT ![p] = "booted"]
    BY <1>2 DEF Bootstrap, Enter
  <2>2. \A q \in Processes : phase'[q] # "read"
    BY <1>0, <2>1
  <2>3. minted' <= 1
    BY <1>0, <2>1 DEF MintInv
  <2> QED
    BY <2>2, <2>3 DEF MintInv
<1>3. ASSUME minted' = minted,
             \A p \in Processes : phase'[p] = "read" => phase[p] = "read" /\ isNew'[p] = isNew[p]
      PROVE  MintInv'
  BY <1>3 DEF MintInv
<1>4. ASSUME NEW p \in Processes,
             \/ Acquire(p) \/ Recover(p) \/ ReduceStarted(p) \/ ReduceResumed(p)
             \/ SetRunning(p) \/ GoLive(p) \/ RequestStop(p) \/ Stop(p) \/ Suspend(p)
             \/ CloseSession(p)
      PROVE  MintInv'
  <2>1. minted' = minted /\ isNew' = isNew
    BY <1>4 DEF Acquire, Recover, ReduceStarted, ReduceResumed, SetRunning, GoLive, RequestStop,
                Stop, Suspend, CloseSession, durable
  <2>2. \E to \in Phase \ {"read"} : phase' = [phase EXCEPT ![p] = to]
    BY <1>4 DEF Acquire, Recover, ReduceStarted, ReduceResumed, SetRunning, GoLive, RequestStop,
                Stop, Suspend, CloseSession, Enter, Phase, Serving
  <2> QED
    BY <1>0, <1>3, <2>1, <2>2
<1>5. ASSUME NEW p \in Processes, Release(p) \/ Crash(p) PROVE MintInv'
  <2>1. minted' = minted /\ phase' = [phase EXCEPT ![p] = "off"]
        /\ isNew' = [isNew EXCEPT ![p] = FALSE]
    BY <1>5 DEF Release, Crash, Enter, Gone, durable
  <2> QED
    BY <1>0, <1>3, <2>1
<1>6. ASSUME NEW p \in Processes, ReduceHuman(p) \/ Heartbeat(p) PROVE MintInv'
  BY <1>3, <1>6 DEF ReduceHuman, Heartbeat
<1>7. ASSUME NEW c \in Clients, Subscribe(c) \/ Leave(c) PROVE MintInv'
  BY <1>3, <1>7 DEF Subscribe, Leave, durable
<1>8. CASE Tick \/ UNCHANGED vars
  BY <1>3, <1>8 DEF Tick, vars, durable
<1> QED
  BY <1>1, <1>2, <1>4, <1>5, <1>6, <1>7, <1>8 DEF Next, Starts, Stops

(* However many processes are started together, and whatever dies between the  *)
(* look-up and the insertion, at most one agent_id is ever minted.            *)
THEOREM IdentityMintedOnceHolds == Spec => []IdentityMintedOnce
<1>1. Init => MintInv
  BY DEF Init, MintInv
<1>2. Spec => []MintInv
  BY <1>1, MintStep, TypesHold, PTL DEF Spec
<1>3. MintInv => IdentityMintedOnce
  BY DEF MintInv, IdentityMintedOnce
<1> QED
  BY <1>2, <1>3, PTL

-----------------------------------------------------------------------------
(* Observed silence.                                                        *)

(* The silence recorded and the beat under way are time that was served, up to *)
(* one beat.                                                                *)
SilenceInv ==
  /\ silence <= ran + Beat
  /\ \A p \in Processes : phase[p] \in Serving => silence + beat[p] <= ran + Beat

LEMMA SilenceStep == Types /\ SilenceInv /\ [Next]_vars => SilenceInv'
<1> SUFFICES ASSUME Types, SilenceInv, [Next]_vars PROVE SilenceInv'
  OBVIOUS
<1> USE BeatAssumption
<1>0. /\ silence \in Nat /\ ran \in Nat /\ phase \in [Processes -> Phase]
      /\ beat \in [Processes -> 0..Beat]
  BY BoundsAssumption DEF Types, DataOK, TimeOK, ProcOK, Time
<1>1. CASE Tick
  <2>1. silence' = silence /\ phase' = phase
    BY <1>1 DEF Tick, durable
  <2>2. CASE \E p \in Processes : phase[p] \in Serving
    <3>1. ran' = ran + 1
          /\ \A p \in Processes : phase[p] \in Serving => beat'[p] = beat[p] + 1
      BY <1>1, <2>2 DEF Tick
    <3> QED
      BY <1>0, <2>1, <3>1 DEF SilenceInv
  <2>3. CASE ~ \E p \in Processes : phase[p] \in Serving
    <3>1. ran' = ran
      BY <1>1, <2>3 DEF Tick
    <3> QED
      BY <2>1, <2>3, <3>1 DEF SilenceInv
  <2> QED
    BY <2>2, <2>3
<1>2. ASSUME NEW p \in Processes, Heartbeat(p) PROVE SilenceInv'
  <2>1. /\ phase[p] \in Serving /\ beat[p] = Beat /\ beat' = [beat EXCEPT ![p] = 0]
        /\ silence' = silence + Beat /\ ran' = ran /\ phase' = phase
    BY <1>2 DEF Heartbeat
  <2>2. silence + Beat <= ran + Beat
    BY <2>1 DEF SilenceInv
  <2>3. \A q \in Processes : q # p => lock # p \/ lock # q
    OBVIOUS
  <2>4. \A q \in Processes : q # p => phase[q] \notin Serving
    BY <2>1, <2>3 DEF Types, ProcOK, Serving
  <2> QED
    BY <1>0, <2>1, <2>2, <2>4 DEF SilenceInv
<1>3. ASSUME NEW p \in Processes, ReduceHuman(p) PROVE SilenceInv'
  BY <1>0, <1>3 DEF ReduceHuman, SilenceInv
<1>4. ASSUME NEW p \in Processes, GoLive(p) PROVE SilenceInv'
  <2>1. /\ silence' = silence /\ ran' = ran /\ beat' = [beat EXCEPT ![p] = 0]
        /\ phase' = [phase EXCEPT ![p] = "serving"]
    BY <1>4 DEF GoLive, Enter, durable
  <2> QED
    BY <1>0, <2>1 DEF SilenceInv
<1>5. ASSUME silence' = silence, ran' = ran,
             \A p \in Processes : phase'[p] \in Serving => phase[p] \in Serving /\ beat'[p] = beat[p]
      PROVE  SilenceInv'
  BY <1>5 DEF SilenceInv
<1>6. ASSUME NEW p \in Processes,
             \/ Acquire(p) \/ ReadIdentity(p) \/ Bootstrap(p) \/ Recover(p) \/ ReduceStarted(p)
             \/ ReduceResumed(p) \/ SetRunning(p) \/ Stop(p) \/ Suspend(p) \/ CloseSession(p)
      PROVE  SilenceInv'
  <2>1. silence' = silence /\ ran' = ran /\ beat' = beat
    BY <1>6 DEF Acquire, ReadIdentity, Bootstrap, Recover, ReduceStarted, ReduceResumed,
                SetRunning, Stop, Suspend, CloseSession, SilenceAfterResume, durable, history
  <2>2. \E to \in Phase \ Serving : phase' = [phase EXCEPT ![p] = to]
    BY <1>6 DEF Acquire, ReadIdentity, Bootstrap, Recover, ReduceStarted, ReduceResumed,
                SetRunning, Stop, Suspend, CloseSession, Enter, Phase, Serving
  <2> QED
    BY <1>0, <1>5, <2>1, <2>2
<1>7. ASSUME NEW p \in Processes, RequestStop(p) PROVE SilenceInv'
  <2>1. /\ silence' = silence /\ ran' = ran /\ beat' = beat
        /\ phase[p] = "serving" /\ phase' = [phase EXCEPT ![p] = "closing"]
    BY <1>7 DEF RequestStop, Enter, durable, history
  <2> QED
    BY <1>0, <1>5, <2>1 DEF Serving
<1>8. ASSUME NEW p \in Processes, Release(p) \/ Crash(p) PROVE SilenceInv'
  <2>1. /\ silence' = silence /\ ran' = ran /\ phase' = [phase EXCEPT ![p] = "off"]
        /\ beat' = [beat EXCEPT ![p] = 0]
    BY <1>8 DEF Release, Crash, Enter, Gone, durable
  <2> QED
    BY <1>0, <1>5, <2>1 DEF Serving
<1>9. ASSUME NEW c \in Clients, Subscribe(c) \/ Leave(c) PROVE SilenceInv'
  BY <1>5, <1>9 DEF Subscribe, Leave, durable, history
<1>10. CASE UNCHANGED vars
  BY <1>5, <1>10 DEF vars
<1> QED
  BY <1>1, <1>2, <1>3, <1>4, <1>6, <1>7, <1>8, <1>9, <1>10 DEF Next, Starts, Stops

(* No downtime counts as observed silence, whatever stops and crashes there   *)
(* are between two turns of the human.                                      *)
THEOREM SilenceIsObservedHolds == Spec => []SilenceIsObserved
<1>1. Init => SilenceInv
  BY BeatAssumption DEF Init, SilenceInv, Serving
<1>2. Spec => []SilenceInv
  BY <1>1, SilenceStep, TypesHold, PTL DEF Spec
<1>3. SilenceInv => SilenceIsObserved
  BY DEF SilenceInv, SilenceIsObserved
<1> QED
  BY <1>2, <1>3, PTL

-----------------------------------------------------------------------------
(* How the session before ended.                                            *)

Opening == {"recovering", "started"}
Open    == {"resumed", "ready", "serving", "closing", "draining"}
Running == Open \ {"resumed"}
N == Len(sessions)

(* What the service of the last session must say of the one before it.        *)
Verdict == IF N = 1 THEN None
           ELSE IF sessions[N - 1].exit = "CLEAN_SUSPEND" THEN "CLEAN_SUSPEND"
           ELSE "UNCLEAN_INTERRUPTION"

(* The sessions are in the order of their starts, and the identity never        *)
(* misses that the last one was closed.                                      *)
LogInv ==
  /\ \A r, s \in 1..N : r < s => sessions[r].start < sessions[s].start
  /\ \A s \in 1..N : sessions[s].start <= now
  /\ N > 0 => minted > 0
  /\ N = 0 => identity.exitKind = None
  /\ N > 0 => (sessions[N].exit = "CLEAN_SUSPEND" => identity.exitKind = "CLEAN_SUSPEND")

(* What the process that holds the lock knows, phase by phase: the plan and the *)
(* recorded exit kind may still differ until AgentResumed is reduced.          *)
HolderInv(p) ==
  /\ phase[p] \in {"read", "booted"} /\ isNew[p] => N = 0
  /\ phase[p] = "read" => isNew[p] \/ minted > 0
  /\ phase[p] \notin {"off", "locked", "read"} => minted > 0
  /\ phase[p] \in Opening \cup Open \cup {"suspended", "closed"} =>
       N > 0 /\ identity.current = N
  /\ phase[p] \in Opening \cup Open => sessions[N].exit = None
  /\ phase[p] \in Opening =>
       /\ plan[p].kind = IF Verdict = None THEN "UNKNOWN" ELSE Verdict
       /\ Verdict # "UNCLEAN_INTERRUPTION" => identity.exitKind = Verdict
  /\ phase[p] \in Open => identity.exitKind = Verdict
  /\ phase[p] \in Running => identity.lifecycle = "RUNNING"
  /\ phase[p] \in {"suspended", "closed"} => identity.exitKind = "CLEAN_SUSPEND"

ExitInv == LogInv /\ \A p \in Processes : HolderInv(p)

(* Everybody but the holder of the lock is off, and owes nothing.              *)
LEMMA OthersAreOff ==
  ASSUME Types, NEW p \in Processes, phase[p] # "off", NEW q \in Processes, q # p
  PROVE  phase[q] = "off"
BY DEF Types, ProcOK

LEMMA OffOwesNothing ==
  ASSUME NEW p \in Processes, phase[p] = "off"
  PROVE  HolderInv(p)
BY DEF HolderInv, Opening, Open, Running

(* A step that moves only p is judged by p alone.                             *)
LEMMA HolderMoves ==
  ASSUME Types, NEW p \in Processes, phase[p] # "off", NEW to, phase' = [phase EXCEPT ![p] = to],
         LogInv', HolderInv(p)'
  PROVE  ExitInv'
<1>1. \A q \in Processes : q # p => phase'[q] = "off"
  BY OthersAreOff DEF Types, ProcOK
<1>2. \A q \in Processes : q # p => HolderInv(q)'
  BY <1>1 DEF HolderInv, Opening, Open, Running
<1> QED
  BY <1>2 DEF ExitInv

LEMMA StartsAreTimes ==
  ASSUME DataOK
  PROVE  N \in Nat /\ \A s \in 1..N : sessions[s].start \in Int
<1>1. sessions \in Seq(Session) /\ N = Len(sessions)
  BY DEF DataOK, N
<1>2. N \in Nat /\ \A s \in 1..N : sessions[s] \in Session
  BY <1>1
<1>3. Session = [start : Time, exit : {None, "CLEAN_SUSPEND"}] /\ Time \subseteq Int
  BY BoundsAssumption DEF Session, Time
<1> QED
  BY <1>2, <1>3

(* latest_session finds the last one that was inserted.                       *)
LEMMA LatestIsLast ==
  ASSUME DataOK, LogInv, N > 0
  PROVE  (CHOOSE s \in LatestSessions : TRUE) = N
<1>1. N \in Nat /\ \A s \in 1..N : sessions[s].start \in Int
  BY StartsAreTimes
<1>2. N \in LatestSessions
  BY <1>1 DEF LatestSessions, LogInv, N
<1>3. \A s \in LatestSessions : s = N
  BY <1>1 DEF LatestSessions, LogInv, N
<1> QED
  BY <1>2, <1>3

LEMMA RecoverStep ==
  ASSUME Types, ExitInv, NEW p \in Processes, Recover(p)
  PROVE  ExitInv'
<1> DEFINE new == [start |-> now, exit |-> None]
<1>0. DataOK /\ TimeOK /\ ProcOK /\ LogInv /\ HolderInv(p)
  BY DEF Types, ExitInv
<1>1. /\ phase[p] = "booted" /\ phase' = [phase EXCEPT ![p] = "recovering"]
      /\ minted' = minted /\ now' = now /\ isNew' = isNew
      /\ sessions' = Append(sessions, new)
      /\ \A s \in 1..N : sessions[s].start # now
  BY DEF Recover, Enter, N
<1>2. /\ sessions \in Seq(Session) /\ N \in Nat /\ N' = N + 1
      /\ sessions'[N + 1] = new /\ \A s \in 1..N : sessions'[s] = sessions[s]
  BY <1>0, <1>1 DEF DataOK, N
<1>3. /\ identity'.exitKind = identity.exitKind /\ identity'.current = N + 1
  BY <1>0 DEF Recover, DataOK, Identity, N
<1>4. minted > 0 /\ minted \in Nat
  BY <1>0, <1>1 DEF HolderInv, DataOK
<1>5. now \in Int /\ \A s \in 1..N : sessions[s].start \in Int /\ sessions[s].start <= now
  BY <1>0, BoundsAssumption, StartsAreTimes DEF TimeOK, Time, LogInv
<1>6. \A s \in 1..N : sessions[s].start < now
  BY <1>1, <1>5
<1>7. LogInv'
  <2>1. \A r, s \in 1..N + 1 : r < s => sessions'[r].start < sessions'[s].start
    BY <1>0, <1>2, <1>6 DEF LogInv
  <2>2. \A s \in 1..N + 1 : sessions'[s].start <= now
    BY <1>2, <1>5
  <2>3. sessions'[N + 1].exit # "CLEAN_SUSPEND"
    BY <1>2 DEF None
  <2> QED
    BY <1>1, <1>2, <1>4, <2>1, <2>2, <2>3 DEF LogInv
<1>8. phase'[p] = "recovering"
  BY <1>0, <1>1 DEF ProcOK
<1>9. /\ plan'[p].kind = IF Verdict' = None THEN "UNKNOWN" ELSE Verdict'
      /\ Verdict' # "UNCLEAN_INTERRUPTION" => identity'.exitKind = Verdict'
  <2>1. plan'[p] = IF isNew[p] \/ sessions = <<>> THEN NoPlan
                   ELSE Classify(CHOOSE s \in LatestSessions : TRUE)
    BY <1>0 DEF Recover, ProcOK
  <2>2. CASE N = 0
    <3>1. sessions = <<>>
      BY <1>2, <2>2 DEF N
    <3>2. Verdict' = None
      BY <1>2, <2>2 DEF Verdict
    <3> QED
      BY <1>0, <1>3, <2>1, <2>2, <3>1, <3>2 DEF NoPlan, LogInv, None
  <2>3. CASE N > 0
    <3>1. sessions # <<>> /\ ~isNew[p]
      BY <1>0, <1>1, <2>3 DEF N, HolderInv
    <3>2. plan'[p] = Classify(N)
      BY <1>0, <2>1, <2>3, <3>1, LatestIsLast
    <3>3. Verdict' = IF sessions[N].exit = "CLEAN_SUSPEND" THEN "CLEAN_SUSPEND"
                     ELSE "UNCLEAN_INTERRUPTION"
      BY <1>2, <2>3 DEF Verdict
    <3>4. plan'[p].kind = IF sessions[N].exit = "CLEAN_SUSPEND" THEN "CLEAN_SUSPEND"
                          ELSE "UNCLEAN_INTERRUPTION"
      BY <3>2 DEF Classify, ClosedCleanly
    <3> QED
      BY <1>0, <1>3, <2>3, <3>3, <3>4 DEF LogInv, None
  <2> QED
    BY <1>2, <2>2, <2>3
<1>10. HolderInv(p)'
  BY <1>1, <1>2, <1>3, <1>4, <1>8, <1>9 DEF HolderInv, Opening, Open, Running
<1> QED
  BY <1>1, <1>7, <1>10, HolderMoves


(* Closing the last session: it is the one the identity calls clean.           *)
LEMMA CloseStep ==
  ASSUME Types, ExitInv, NEW p \in Processes, CloseSession(p)
  PROVE  ExitInv'
<1>0. DataOK /\ ProcOK /\ LogInv /\ HolderInv(p)
  BY DEF Types, ExitInv
<1>1. /\ phase[p] = "suspended" /\ phase' = [phase EXCEPT ![p] = "closed"]
      /\ minted' = minted /\ now' = now /\ isNew' = isNew /\ identity' = identity
      /\ sessions' = [sessions EXCEPT ![N].exit = "CLEAN_SUSPEND"]
  BY DEF CloseSession, Enter, N, Latest
<1>2. N \in Nat /\ N' = N /\ \A s \in 1..N : sessions'[s].start = sessions[s].start
  <2>1. sessions \in Seq(Session) /\ sessions \in [1..N -> Session] /\ N \in Nat
    BY <1>0 DEF DataOK, N
  <2>2. Len(sessions') = N
    BY <1>1, <2>1, ClosingKeepsSessions DEF N
  <2>3. \A s \in 1..N : sessions'[s].start = sessions[s].start
    BY <1>1, <2>1 DEF Session
  <2> QED
    BY <2>1, <2>2, <2>3 DEF N
<1>3. identity.exitKind = "CLEAN_SUSPEND" /\ identity.current = N /\ N > 0 /\ minted > 0
  BY <1>0, <1>1 DEF HolderInv
<1>4. LogInv'
  BY <1>0, <1>1, <1>2, <1>3 DEF LogInv
<1>5. phase'[p] = "closed"
  BY <1>0, <1>1 DEF ProcOK
<1>6. HolderInv(p)'
  BY <1>1, <1>2, <1>3, <1>5 DEF HolderInv, Opening, Open, Running
<1> QED
  BY <1>1, <1>4, <1>6, HolderMoves

(* Steps that leave the list of sessions alone.                               *)
LEMMA LogKept ==
  ASSUME LogInv, TimeOK, DataOK, sessions' = sessions, minted' \in {minted, minted + 1},
         now' \in {now, now + 1}, N > 0 => identity'.exitKind \in {identity.exitKind, "CLEAN_SUSPEND"},
         N = 0 => identity'.exitKind = identity.exitKind
  PROVE  LogInv'
<1>1. N' = N /\ minted \in Nat /\ now \in Int /\ \A s \in 1..N : sessions[s].start \in Int
  BY BoundsAssumption, StartsAreTimes DEF N, DataOK, TimeOK, Time
<1> QED
  BY <1>1 DEF LogInv


(* Steps that touch nothing the exit kind depends on.                         *)
LEMMA NothingOfIt ==
  ASSUME Types, ExitInv, sessions' = sessions, minted' = minted, now' \in {now, now + 1},
         phase' = phase, isNew' = isNew, plan' = plan,
         identity' \in {identity, [identity EXCEPT !.heartbeat = now]}
  PROVE  ExitInv'
<1>1. /\ identity'.exitKind = identity.exitKind /\ identity'.current = identity.current
      /\ identity'.lifecycle = identity.lifecycle
  BY DEF Types, DataOK, Identity
<1>2. LogInv'
  BY <1>1, LogKept DEF ExitInv, Types
<1>3. N' = N /\ Verdict' = Verdict
  BY DEF N, Verdict
<1>4. \A p \in Processes : HolderInv(p)'
  BY <1>1, <1>3 DEF ExitInv, HolderInv
<1> QED
  BY <1>2, <1>4 DEF ExitInv

(* The steps of a start and of a stop that neither open nor close a session.   *)
LEMMA PhaseStep ==
  ASSUME Types, ExitInv, NEW p \in Processes,
         \/ ReadIdentity(p) \/ Bootstrap(p) \/ ReduceStarted(p) \/ ReduceResumed(p)
         \/ SetRunning(p) \/ GoLive(p) \/ RequestStop(p) \/ Stop(p) \/ Suspend(p)
  PROVE  ExitInv'
<1>0. TimeOK /\ DataOK /\ ProcOK /\ LogInv /\ HolderInv(p)
  BY DEF Types, ExitInv
<1>1. sessions' = sessions /\ now' = now /\ N' = N /\ Verdict' = Verdict
  <2>1. sessions' = sessions /\ now' = now
    BY DEF ReadIdentity, Bootstrap, ReduceStarted, ReduceResumed, SetRunning, GoLive, RequestStop,
           Stop, Suspend, durable
  <2> QED
    BY <2>1 DEF N, Verdict
<1>2. minted \in Nat /\ N \in Nat
  BY <1>0, StartsAreTimes DEF DataOK
<1>3. ASSUME NEW to, phase[p] # "off", phase' = [phase EXCEPT ![p] = to], LogInv',
             phase'[p] = to => HolderInv(p)'
      PROVE  ExitInv'
  BY <1>0, <1>3, HolderMoves DEF ProcOK
<1> USE DEF Enter, HolderInv, Opening, Open, Running
<1>4. CASE ReadIdentity(p)
  <2>1. identity' = identity /\ minted' = minted /\ isNew'[p] = (minted = 0)
    BY <1>0, <1>4 DEF ReadIdentity, durable, ProcOK
  <2>2. LogInv'
    BY <1>0, <1>1, <2>1, LogKept
  <2>3. minted = 0 => N = 0
    BY <1>0, <1>2 DEF LogInv
  <2>4. (isNew'[p] => N = 0) /\ (isNew'[p] \/ minted > 0)
    <3>1. CASE minted = 0
      BY <2>1, <2>3, <3>1
    <3>2. CASE minted # 0
      <4>1. minted > 0
        BY <1>2, <3>2
      <4>2. ~isNew'[p]
        BY <2>1, <3>2
      <4> QED
        BY <4>1, <4>2
    <3> QED
      BY <3>1, <3>2
  <2>5. phase[p] = "locked" /\ phase' = [phase EXCEPT ![p] = "read"]
    BY <1>4 DEF ReadIdentity
  <2>6. phase'[p] = "read" => HolderInv(p)'
    BY <1>1, <2>1, <2>4
  <2> QED
    BY <1>3, <2>2, <2>5, <2>6
<1>5. CASE Bootstrap(p)
  <2>1. /\ identity' = identity /\ isNew' = isNew
        /\ minted' = IF isNew[p] THEN minted + 1 ELSE minted
    BY <1>5 DEF Bootstrap
  <2>2. phase[p] = "read" /\ phase' = [phase EXCEPT ![p] = "booted"]
    BY <1>5 DEF Bootstrap
  <2>3. LogInv'
    BY <1>0, <1>1, <2>1, LogKept
  <2>4. minted' > 0
    BY <1>0, <1>2, <2>1, <2>2
  <2>5. isNew[p] => N = 0
    BY <1>0, <2>2
  <2>6. phase'[p] = "booted" => HolderInv(p)'
    BY <1>1, <2>1, <2>4, <2>5
  <2> QED
    BY <1>3, <2>2, <2>3, <2>6
<1>6. ASSUME NEW from, NEW to, phase[p] = from, phase' = [phase EXCEPT ![p] = to],
             from \in Opening \cup Open, minted' = minted, isNew' = isNew, plan' = plan,
             identity'.current = identity.current, phase'[p] = to => HolderInv(p)',
             identity'.exitKind \in {identity.exitKind, "CLEAN_SUSPEND"} \/ sessions[N].exit = None
      PROVE  ExitInv'
  <2>1. N > 0 /\ phase[p] # "off"
    BY <1>0, <1>6
  <2>2. LogInv'
    <3>1. CASE identity'.exitKind \in {identity.exitKind, "CLEAN_SUSPEND"}
      BY <1>0, <1>1, <1>2, <1>6, <2>1, <3>1, LogKept
    <3>2. CASE sessions[N].exit = None
      BY <1>0, <1>1, <1>2, <1>6, <2>1, <3>2 DEF LogInv, None
    <3> QED
      BY <1>6, <3>1, <3>2
  <2> QED
    BY <1>3, <1>6, <2>1, <2>2
<1>7. CASE ReduceStarted(p)
  <2>1. /\ phase[p] = "recovering" /\ phase' = [phase EXCEPT ![p] = "started"]
        /\ minted' = minted /\ isNew' = isNew /\ plan' = plan
    BY <1>7 DEF ReduceStarted
  <2>2. identity'.current = identity.current /\ identity'.exitKind = identity.exitKind
    BY <1>0, <1>7 DEF ReduceStarted, DataOK, Identity
  <2>3. phase'[p] = "started" => HolderInv(p)'
    BY <1>0, <1>1, <2>1, <2>2
  <2> QED
    BY <1>6, <2>1, <2>2, <2>3
<1>8. CASE ReduceResumed(p)
  <2>1. /\ phase[p] = "started" /\ phase' = [phase EXCEPT ![p] = "resumed"]
        /\ minted' = minted /\ isNew' = isNew /\ plan' = plan
    BY <1>8 DEF ReduceResumed
  <2>2. /\ identity'.current = identity.current
        /\ identity'.exitKind = IF plan[p].kind = "UNCLEAN_INTERRUPTION"
                                THEN "UNCLEAN_INTERRUPTION" ELSE identity.exitKind
    BY <1>0, <1>8 DEF ReduceResumed, DataOK, Identity
  <2>3. /\ plan[p].kind = IF Verdict = None THEN "UNKNOWN" ELSE Verdict
        /\ Verdict # "UNCLEAN_INTERRUPTION" => identity.exitKind = Verdict
        /\ sessions[N].exit = None
    BY <1>0, <2>1
  <2>4. identity'.exitKind = Verdict
    BY <2>2, <2>3 DEF None
  <2>5. phase'[p] = "resumed" => HolderInv(p)'
    BY <1>0, <1>1, <2>1, <2>2, <2>3, <2>4
  <2> QED
    BY <1>6, <2>1, <2>2, <2>3, <2>5
<1>9. CASE SetRunning(p)
  <2>1. /\ phase[p] = "resumed" /\ phase' = [phase EXCEPT ![p] = "ready"]
        /\ minted' = minted /\ isNew' = isNew /\ plan' = plan
    BY <1>9 DEF SetRunning
  <2>2. /\ identity'.current = identity.current /\ identity'.exitKind = identity.exitKind
        /\ identity'.lifecycle = "RUNNING"
    BY <1>0, <1>9 DEF SetRunning, DataOK, Identity
  <2>3. phase'[p] = "ready" => HolderInv(p)'
    BY <1>0, <1>1, <2>1, <2>2
  <2> QED
    BY <1>6, <2>1, <2>2, <2>3
<1>10. CASE GoLive(p) \/ RequestStop(p) \/ Stop(p)
  <2>1. PICK from \in Running, to \in Running : phase[p] = from /\ phase' = [phase EXCEPT ![p] = to]
    BY <1>10 DEF GoLive, RequestStop, Stop
  <2>2. minted' = minted /\ isNew' = isNew /\ plan' = plan /\ identity' = identity
    BY <1>10 DEF GoLive, RequestStop, Stop, durable
  <2>3. phase'[p] = to => HolderInv(p)'
    BY <1>0, <1>1, <2>1, <2>2
  <2> QED
    BY <1>6, <2>1, <2>2, <2>3
<1>11. CASE Suspend(p)
  <2>1. /\ phase[p] = "draining" /\ phase' = [phase EXCEPT ![p] = "suspended"]
        /\ minted' = minted /\ isNew' = isNew /\ plan' = plan
    BY <1>11 DEF Suspend
  <2>2. identity'.current = identity.current /\ identity'.exitKind = "CLEAN_SUSPEND"
    BY <1>0, <1>11 DEF Suspend, DataOK, Identity
  <2>3. phase'[p] = "suspended" => HolderInv(p)'
    BY <1>0, <1>1, <2>1, <2>2
  <2> QED
    BY <1>6, <2>1, <2>2, <2>3
<1> QED
  BY <1>4, <1>5, <1>7, <1>8, <1>9, <1>10, <1>11

(* A process that is gone, or that takes the lock, knows nothing.              *)
LEMMA EdgeStep ==
  ASSUME Types, ExitInv, NEW p \in Processes, Acquire(p) \/ Release(p) \/ Crash(p)
  PROVE  ExitInv'
<1>1. durable' = durable /\ now' = now
  BY DEF Acquire, Release, Crash
<1>2. LogInv'
  BY <1>1, LogKept DEF durable, ExitInv, Types
<1>3. \A q \in Processes : phase'[q] \in {"off", "locked"}
  <2>1. phase \in [Processes -> Phase] /\ \A q \in Processes : lock # q => phase[q] = "off"
    BY DEF Types, ProcOK
  <2>2. CASE Acquire(p)
    BY <2>1, <2>2, NoneAssumption DEF Acquire, LockFree, Enter, None
  <2>3. CASE Release(p) \/ Crash(p)
    BY <2>1, <2>3 DEF Release, Crash, Enter
  <2> QED
    BY <2>2, <2>3
<1>4. \A q \in Processes : HolderInv(q)'
  BY <1>3 DEF HolderInv, Opening, Open, Running
<1> QED
  BY <1>2, <1>4 DEF ExitInv

LEMMA ExitStep == Types /\ ExitInv /\ [Next]_vars => ExitInv'
<1> SUFFICES ASSUME Types, ExitInv, [Next]_vars PROVE ExitInv'
  OBVIOUS
<1>1. ASSUME NEW p \in Processes, ReduceHuman(p) \/ Heartbeat(p) PROVE ExitInv'
  BY <1>1, NothingOfIt DEF ReduceHuman, Heartbeat
<1>2. ASSUME NEW c \in Clients, Subscribe(c) \/ Leave(c) PROVE ExitInv'
  BY <1>2, NothingOfIt DEF Subscribe, Leave, durable
<1>3. CASE Tick \/ UNCHANGED vars
  BY <1>3, NothingOfIt DEF Tick, vars, durable
<1> QED
  BY <1>1, <1>2, <1>3, RecoverStep, CloseStep, PhaseStep, EdgeStep DEF Next, Starts, Stops

(* A service that runs says truly how the session before its own ended: clean   *)
(* exactly if that session was closed, at whatever point of its stop or start  *)
(* the process before died; and nothing of a session that never was.          *)
THEOREM ExitKindIsTrueHolds == Spec => []ExitKindIsTrue
<1>1. Init => ExitInv
  BY DEF Init, ExitInv, LogInv, HolderInv, N, Opening, Open, Running
<1>2. Spec => []ExitInv
  BY <1>1, ExitStep, TypesHold, PTL DEF Spec
<1>3. Types /\ ExitInv => ExitKindIsTrue
  <2> SUFFICES ASSUME Types, ExitInv, NEW p \in Processes, phase[p] \in Serving
               PROVE  /\ identity.lifecycle = "RUNNING" /\ identity.current = N
                      /\ identity.exitKind = IF N - 1 = 0 THEN None
                            ELSE IF sessions[N - 1].exit = "CLEAN_SUSPEND" THEN "CLEAN_SUSPEND"
                            ELSE "UNCLEAN_INTERRUPTION"
    BY DEF ExitKindIsTrue, N
  <2>1. N \in Nat
    BY StartsAreTimes DEF Types
  <2> QED
    BY <2>1 DEF ExitInv, HolderInv, Serving, Open, Running, Opening, Verdict
<1> QED
  BY <1>2, <1>3, TypesHold, PTL
-----------------------------------------------------------------------------
(* How long it was gone.                                                    *)

Resting == {"off", "locked", "read", "booted"}

(* The stored times are not ahead of the clock.                               *)
ClockInv == identity.heartbeat <= now /\ identity.cleanSuspend <= now /\ end.at <= now
(* Nothing is stored while no session is open, and a session that died with its *)
(* heartbeat running was not closed and had beaten at most one beat before.   *)
RestInv ==
  /\ identity.heartbeat <= end.at /\ identity.cleanSuspend <= end.at
  /\ end.beating => /\ N > 0 /\ sessions[N].exit = None
                     /\ end.at <= identity.heartbeat + Beat
(* While it serves, the last heartbeat was when the beat under way began.     *)
BeatInv(p) == phase[p] \in Serving /\ end.beating => now <= identity.heartbeat + beat[p]
(* What DowntimeIsBounded says of a process.                                  *)
PlanInv(p) ==
  phase[p] = "recovering" =>
    IF N = 1 THEN plan[p] = NoPlan
    ELSE /\ plan[p].downtime >= sessions[N].start - end.at
         /\ end.beating => plan[p].downtime <= sessions[N].start - end.at + Beat

DownInv ==
  /\ ClockInv
  /\ (\A p \in Processes : phase[p] \in Resting) => RestInv
  /\ \A p \in Processes : BeatInv(p) /\ PlanInv(p)

LEMMA TimesAreIntegers ==
  ASSUME Types
  PROVE  /\ now \in Nat /\ end.at \in Nat /\ end.beating \in BOOLEAN
         /\ identity.heartbeat \in Nat /\ identity.cleanSuspend \in Nat
         /\ N \in Nat /\ \A s \in 1..N : sessions[s].start \in Int
         /\ \A p \in Processes : beat[p] \in Nat /\ beat[p] <= Beat
<1>1. Time \subseteq Nat
  BY BoundsAssumption DEF Time
<1>2. TimeOK /\ DataOK /\ ProcOK
  BY DEF Types
<1>3. now \in Nat /\ end.at \in Nat /\ end.beating \in BOOLEAN
  BY <1>1, <1>2 DEF TimeOK
<1>4. identity.heartbeat \in Nat /\ identity.cleanSuspend \in Nat
  BY <1>1, <1>2 DEF DataOK, Identity
<1>5. \A p \in Processes : beat[p] \in Nat /\ beat[p] <= Beat
  <2>1. \A p \in Processes : beat[p] \in 0..Beat
    BY <1>2 DEF ProcOK
  <2>2. \A b \in 0..Beat : b \in Nat /\ b <= Beat
    BY BeatAssumption
  <2> QED
    BY <2>1, <2>2, Zenon
<1> QED
  BY <1>2, <1>3, <1>4, <1>5, StartsAreTimes

(* The holder of the lock alone is up.                                        *)
LEMMA DownMoves ==
  ASSUME Types, NEW p \in Processes, phase[p] # "off", NEW to, phase' = [phase EXCEPT ![p] = to],
         ClockInv', phase'[p] \in Resting => RestInv', BeatInv(p)', PlanInv(p)'
  PROVE  DownInv'
<1>1. \A q \in Processes : q # p => phase'[q] = "off"
  BY OthersAreOff DEF Types, ProcOK
<1>2. \A q \in Processes : q # p => BeatInv(q)' /\ PlanInv(q)'
  BY <1>1 DEF BeatInv, PlanInv, Serving
<1> QED
  BY <1>2 DEF DownInv

(* The verdict of a start on the time since the last session's process ended.  *)
LEMMA DowntimeOfRecover ==
  ASSUME Types, ExitInv, DownInv, NEW p \in Processes, Recover(p)
  PROVE  DownInv'
<1>0. DataOK /\ TimeOK /\ ProcOK /\ LogInv /\ HolderInv(p) /\ ClockInv
  BY DEF Types, ExitInv, DownInv
<1> DEFINE new == [start |-> now, exit |-> None]
<1>1. /\ phase[p] = "booted" /\ phase' = [phase EXCEPT ![p] = "recovering"] /\ phase'[p] = "recovering"
      /\ now' = now /\ end' = end /\ sessions' = Append(sessions, new)
  BY <1>0 DEF Recover, Enter, ProcOK, history
<1>2. RestInv
  BY <1>1, OthersAreOff DEF DownInv, Resting
<1>3. N' = N + 1 /\ sessions'[N + 1] = new /\ N \in Nat
  BY <1>0, <1>1 DEF DataOK, N
<1>4. ClockInv'
  <2>1. identity'.heartbeat = now /\ identity'.cleanSuspend = identity.cleanSuspend
    BY <1>0 DEF Recover, DataOK, Identity
  <2> QED
    BY <1>0, <1>1, <2>1, TimesAreIntegers DEF ClockInv
<1>5. PlanInv(p)'
  <2>1. plan'[p] = IF isNew[p] \/ sessions = <<>> THEN NoPlan
                   ELSE Classify(CHOOSE s \in LatestSessions : TRUE)
    BY <1>0 DEF Recover, ProcOK
  <2>2. CASE N = 0
    <3>1. sessions = <<>>
      BY <1>0, <2>2 DEF N, DataOK
    <3> QED
      BY <1>3, <2>1, <2>2, <3>1 DEF PlanInv
  <2>3. CASE N > 0
    <3>0. sessions # <<>> /\ ~isNew[p]
      BY <1>0, <1>1, <2>3 DEF N, HolderInv
    <3>1. plan'[p] = Classify(N)
      BY <1>0, <2>1, <2>3, <3>0, LatestIsLast
    <3>2. /\ Floor0(now - identity.cleanSuspend) = now - identity.cleanSuspend
          /\ SinceHeartbeat(N) = now - identity.heartbeat
      BY <1>0, TimesAreIntegers DEF Floor0, SinceHeartbeat, ClockInv
    <3>5. ASSUME plan'[p].downtime >= now - end.at,
                 end.beating => plan'[p].downtime <= now - end.at + Beat
          PROVE  PlanInv(p)'
      <4>1. N' # 1
        BY <1>3, <2>3
      <4>2. sessions'[N'] = new /\ end' = end
        BY <1>1, <1>3, Zenon
      <4>3. sessions'[N'].start = now
        BY <4>2
      <4> QED
        BY <3>5, <4>1, <4>2, <4>3 DEF PlanInv
    <3>3. CASE sessions[N].exit = "CLEAN_SUSPEND"
      <4>1. ~end.beating
        BY <1>2, <3>3 DEF RestInv, None
      <4>2. plan'[p].downtime = now - identity.cleanSuspend
        BY <3>1, <3>2, <3>3 DEF Classify, ClosedCleanly
      <4>3. plan'[p].downtime >= now - end.at
        BY <1>2, <4>2, TimesAreIntegers DEF RestInv
      <4> QED
        BY <3>5, <4>1, <4>3
    <3>4. CASE sessions[N].exit # "CLEAN_SUSPEND"
      <4>1. plan'[p].downtime = now - identity.heartbeat
        BY <3>1, <3>2, <3>4 DEF Classify, ClosedCleanly
      <4>2. /\ plan'[p].downtime >= now - end.at
            /\ end.beating => plan'[p].downtime <= now - end.at + Beat
        BY <1>2, <4>1, TimesAreIntegers, BeatAssumption DEF RestInv
      <4> QED
        BY <3>5, <4>2
    <3> QED
      BY <3>3, <3>4
  <2> QED
    BY <1>3, <2>2, <2>3
<1>6. BeatInv(p)' /\ phase'[p] \notin Resting
  BY <1>1 DEF BeatInv, Serving, Resting
<1> QED
  BY <1>1, <1>4, <1>5, <1>6, DownMoves


LEMMA DownStep == Types /\ ExitInv /\ DownInv /\ [Next]_vars => DownInv'
<1> SUFFICES ASSUME Types, ExitInv, DownInv, [Next]_vars PROVE DownInv'
  OBVIOUS
<1> USE DEF Enter
<1>0. phase \in [Processes -> Phase] /\ beat \in [Processes -> 0..Beat]
  BY DEF Types, ProcOK
(* The end of a session, and the phases before one is opened.                 *)
<1>1. ASSUME NEW p \in Processes, Release(p) PROVE DownInv'
  <2>1. /\ phase[p] = "closed" /\ phase' = [phase EXCEPT ![p] = "off"] /\ phase'[p] = "off"
        /\ end' = [at |-> now, beating |-> FALSE] /\ durable' = durable /\ now' = now
    BY <1>0, <1>1 DEF Release
  <2>2. ClockInv' /\ RestInv'
    BY <2>1, TimesAreIntegers DEF DownInv, ClockInv, RestInv, durable
  <2> QED
    BY <2>1, <2>2, DownMoves DEF BeatInv, PlanInv, Serving
<1>2. ASSUME NEW p \in Processes, Crash(p), phase[p] \in Resting PROVE DownInv'
  <2>1. /\ phase[p] # "off" /\ phase' = [phase EXCEPT ![p] = "off"] /\ phase'[p] = "off"
        /\ end' = end /\ durable' = durable /\ now' = now
    BY <1>0, <1>2 DEF Crash, Resting
  <2>2. \A q \in Processes : phase[q] \in Resting
    BY <1>2, <2>1, OthersAreOff DEF Resting
  <2>3. ClockInv' /\ RestInv'
    BY <2>1, <2>2 DEF DownInv, ClockInv, RestInv, durable, N
  <2> QED
    BY <2>1, <2>3, DownMoves DEF BeatInv, PlanInv, Serving
<1>3. ASSUME NEW p \in Processes, Crash(p), phase[p] \notin Resting PROVE DownInv'
  <2>1. /\ phase' = [phase EXCEPT ![p] = "off"] /\ phase'[p] = "off"
        /\ end' = [at |-> now, beating |-> end.beating /\ phase[p] \in Serving]
        /\ durable' = durable /\ now' = now
    BY <1>0, <1>3 DEF Crash, Resting
  <2>2. ClockInv'
    BY <2>1, TimesAreIntegers DEF DownInv, ClockInv, durable
  <2>3. identity.heartbeat <= now /\ identity.cleanSuspend <= now
    BY DEF DownInv, ClockInv
  <2>4. ASSUME end.beating, phase[p] \in Serving
        PROVE  N > 0 /\ sessions[N].exit = None /\ now <= identity.heartbeat + Beat
    <3>1. N > 0 /\ sessions[N].exit = None
      BY <2>4 DEF ExitInv, HolderInv, Open, Opening, Serving
    <3>2. now <= identity.heartbeat + beat[p]
      BY <2>4 DEF DownInv, BeatInv
    <3> QED
      BY <3>1, <3>2, TimesAreIntegers, BeatAssumption
  <2>5. RestInv'
    <3>1. /\ end'.at = now /\ identity' = identity /\ N' = N /\ sessions' = sessions
          /\ end'.beating => end.beating /\ phase[p] \in Serving
      BY <2>1 DEF durable, N
    <3> QED
      BY <2>3, <2>4, <3>1 DEF RestInv
  <2> QED
    BY <1>3, <2>1, <2>2, <2>5, DownMoves DEF BeatInv, PlanInv, Serving, Resting
<1>4. ASSUME NEW p \in Processes, NEW from \in {"off", "locked", "read"},
             NEW to \in Resting, phase[p] = from, phase' = [phase EXCEPT ![p] = to],
             \A q \in Processes \ {p} : phase[q] = "off",
             now' = now, identity' = identity, sessions' = sessions, end' = end
      PROVE  DownInv'
  <2>1. /\ \A q \in Processes : phase[q] \in Resting
        /\ \A q \in Processes : phase'[q] \in Resting
    BY <1>0, <1>4 DEF Resting
  <2>2. ClockInv' /\ RestInv'
    BY <1>4, <2>1 DEF DownInv, ClockInv, RestInv, N
  <2>3. \A q \in Processes : BeatInv(q)' /\ PlanInv(q)'
    BY <2>1 DEF BeatInv, PlanInv, Serving, Resting
  <2> QED
    BY <2>2, <2>3 DEF DownInv
<1>5. ASSUME NEW p \in Processes, Acquire(p) PROVE DownInv'
  <2>1. \A q \in Processes : phase[q] = "off"
    BY <1>5, NoneAssumption DEF Acquire, LockFree, Types, ProcOK, None
  <2> QED
    BY <1>4, <1>5, <2>1 DEF Acquire, Resting, durable, history
<1>6. ASSUME NEW p \in Processes, ReadIdentity(p) \/ Bootstrap(p) PROVE DownInv'
  <2>1. \A q \in Processes \ {p} : phase[q] = "off"
    BY <1>6, OthersAreOff DEF ReadIdentity, Bootstrap
  <2> QED
    BY <1>4, <1>6, <2>1 DEF ReadIdentity, Bootstrap, Resting, durable, history
(* The phases with an open session.                                         *)
<1>7. ASSUME NEW p \in Processes, phase[p] # "off",
             NEW to \in {"started", "resumed", "ready", "serving", "closing", "draining",
                         "suspended", "closed"},
             phase' = [phase EXCEPT ![p] = to], now' = now, end'.at = end.at,
             identity'.heartbeat \in {identity.heartbeat, now},
             identity'.cleanSuspend \in {identity.cleanSuspend, now}, BeatInv(p)'
      PROVE  DownInv'
  <2>1. phase'[p] = to
    BY <1>0, <1>7
  <2>2. ClockInv'
    BY <1>7, TimesAreIntegers DEF DownInv, ClockInv
  <2> QED
    BY <1>7, <2>1, <2>2, DownMoves DEF PlanInv, Resting
<1>8. ASSUME NEW p \in Processes,
             \/ ReduceStarted(p) \/ ReduceResumed(p) \/ SetRunning(p) \/ Stop(p) \/ Suspend(p)
             \/ CloseSession(p)
      PROVE  DownInv'
  <2>1. /\ identity'.heartbeat \in {identity.heartbeat, now}
        /\ identity'.cleanSuspend \in {identity.cleanSuspend, now}
    BY <1>8 DEF ReduceStarted, ReduceResumed, SetRunning, Stop, Suspend, CloseSession, durable,
                Types, DataOK, Identity
  <2>2. now' = now /\ end' = end
    BY <1>8 DEF ReduceStarted, ReduceResumed, SetRunning, Stop, Suspend, CloseSession, history
  <2>3. \E to \in {"started", "resumed", "ready", "draining", "suspended", "closed"} :
          phase[p] # "off" /\ phase' = [phase EXCEPT ![p] = to] /\ phase'[p] = to
    BY <1>0, <1>8 DEF ReduceStarted, ReduceResumed, SetRunning, Stop, Suspend, CloseSession
  <2>4. BeatInv(p)'
    BY <2>3 DEF BeatInv, Serving
  <2> QED
    BY <1>7, <2>1, <2>2, <2>3, <2>4
<1>9. ASSUME NEW p \in Processes, GoLive(p) PROVE DownInv'
  <2>1. /\ phase[p] # "off" /\ phase' = [phase EXCEPT ![p] = "serving"]
        /\ now' = now /\ identity' = identity /\ end' = [end EXCEPT !.beating = FALSE]
    BY <1>9 DEF GoLive, durable
  <2>2. end'.at = end.at /\ ~end'.beating
    BY <2>1 DEF Types, TimeOK
  <2> QED
    BY <1>7, <2>1, <2>2 DEF BeatInv
<1>10. ASSUME NEW p \in Processes, RequestStop(p) PROVE DownInv'
  <2>1. /\ phase[p] = "serving" /\ phase' = [phase EXCEPT ![p] = "closing"]
        /\ now' = now /\ identity' = identity /\ end' = end /\ beat' = beat
    BY <1>10 DEF RequestStop, durable, history
  <2>2. BeatInv(p)'
    BY <2>1 DEF DownInv, BeatInv, Serving
  <2> QED
    BY <1>7, <2>1, <2>2
<1>11. ASSUME NEW p \in Processes, Heartbeat(p) PROVE DownInv'
  <2>1. /\ phase[p] \in Serving /\ phase' = phase /\ now' = now /\ sessions' = sessions
        /\ plan' = plan /\ beat'[p] = 0
    BY <1>0, <1>11 DEF Heartbeat
  <2>2. identity'.heartbeat = now /\ identity'.cleanSuspend = identity.cleanSuspend /\ end'.at = end.at
    BY <1>11 DEF Heartbeat, Types, DataOK, TimeOK, Identity
  <2>3. ClockInv'
    BY <2>1, <2>2, TimesAreIntegers DEF DownInv, ClockInv
  <2>4. \A q \in Processes : q # p => phase[q] = "off"
    BY <2>1, OthersAreOff DEF Serving
  <2>5. BeatInv(p)'
    BY <2>1, <2>2, TimesAreIntegers DEF BeatInv
  <2>6. \A q \in Processes : BeatInv(q)' /\ PlanInv(q)'
    BY <2>1, <2>4, <2>5 DEF BeatInv, PlanInv, Serving
  <2>7. ~ \A q \in Processes : phase'[q] \in Resting
    BY <2>1 DEF Serving, Resting
  <2> QED
    BY <2>3, <2>6, <2>7 DEF DownInv
<1>12. CASE Tick
  <2>1. /\ now' = now + 1 /\ phase' = phase /\ identity' = identity /\ sessions' = sessions
        /\ plan' = plan /\ end' = end /\ N' = N
    BY <1>12 DEF Tick, durable, N
  <2>2. ClockInv'
    BY <2>1, TimesAreIntegers DEF DownInv, ClockInv
  <2>3. \A p \in Processes : phase[p] \in Serving => beat'[p] = beat[p] + 1
    BY <1>12 DEF Tick
  <2>4. \A p \in Processes : BeatInv(p)'
    BY <2>1, <2>3, TimesAreIntegers DEF DownInv, BeatInv
  <2> QED
    BY <2>1, <2>2, <2>4 DEF DownInv, RestInv, PlanInv
<1>13. ASSUME now' = now, phase' = phase, identity' = identity, sessions' = sessions,
              plan' = plan, end' = end, beat' = beat
       PROVE  DownInv'
  BY <1>13 DEF DownInv, ClockInv, RestInv, BeatInv, PlanInv, N
<1>14. ASSUME NEW p \in Processes, ReduceHuman(p) PROVE DownInv'
  BY <1>13, <1>14 DEF ReduceHuman
<1>15. ASSUME NEW c \in Clients, Subscribe(c) \/ Leave(c) PROVE DownInv'
  BY <1>13, <1>15 DEF Subscribe, Leave, durable, history
<1>16. CASE UNCHANGED vars
  BY <1>13, <1>16 DEF vars
<1> QED
  BY <1>1, <1>2, <1>3, <1>5, <1>6, <1>8, <1>9, <1>10, <1>11, <1>12, <1>14, <1>15, <1>16,
     DowntimeOfRecover DEF Next, Starts, Stops

(* The downtime a start reports is at least the time since the last session's   *)
(* process ended, and at most one beat more if that process died serving; a    *)
(* first start reports none.                                                *)
THEOREM DowntimeIsBoundedHolds == Spec => []DowntimeIsBounded
<1>1. Init => DownInv
  BY BeatAssumption DEF Init, DownInv, ClockInv, RestInv, BeatInv, PlanInv, Serving
<1>2. Init => ExitInv
  BY DEF Init, ExitInv, LogInv, HolderInv, N, Opening, Open, Running
<1>3. Spec => [](ExitInv /\ DownInv)
  BY <1>1, <1>2, ExitStep, DownStep, TypesHold, PTL DEF Spec
<1>4. Types /\ ExitInv /\ DownInv => DowntimeIsBounded
  <2> SUFFICES ASSUME Types, DownInv PROVE DowntimeIsBounded
    OBVIOUS
  <2> QED
    BY DEF DownInv, PlanInv, DowntimeIsBounded, N
<1> QED
  BY <1>3, <1>4, TypesHold, PTL
=============================================================================
