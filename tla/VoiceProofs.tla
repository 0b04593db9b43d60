----------------------------- MODULE VoiceProofs -----------------------------
(***************************************************************************)
(* TLAPS proofs about Voice, for any messages, thresholds and bounds: type    *)
(* correctness, that the floor is counted exactly, that a barge-in is obeyed, *)
(* and that the session hears the agent only after a release it slept through.*)
(***************************************************************************)
EXTENDS Voice, TLAPS

SegType == [in : BOOLEAN, run : Nat, len : Nat, count : Nat, trailing : Nat, heard : Heard]
TurnType == [heard : Heard, parts : BOOLEAN, unfinished : BOOLEAN, length : 0..MaxTurn]
UtteranceType == [heard : Heard, length : Nat, silent : BOOLEAN]

(* The state of each part, typed.                                            *)
ControllerOK == /\ queue \in Seq(Messages) /\ speaker \in Messages \cup {"get"}
                /\ inflight \in Nat /\ failed \in BOOLEAN
EngineOK == /\ cut \in BOOLEAN /\ chunk \in 0..Chunks
            /\ thread \in {"off", "render", "about", "play", "ended", "raised"}
MicrophoneOK == room \in 0..Room /\ backlog \in Seq(Frame)
SessionOK == session \in {"wait", "run", "transcribing", "sending", "ended"}
ListeningOK == /\ tail \in 0..Guard /\ context \in Seq(Heard) /\ seg \in SegType
               /\ turn \in TurnType /\ utterance \in UtteranceType /\ silence \in 0..ContinuationGap
HistoryOK == /\ said \subseteq Messages /\ dropped \subseteq said /\ after \in Nat
             /\ {late, own, deaf} \subseteq BOOLEAN
RunningOK == session = "run" => backlog # <<>>

LEMMA Parts ==
  TypeOK <=> ControllerOK /\ EngineOK /\ MicrophoneOK /\ SessionOK /\ ListeningOK /\ HistoryOK
             /\ RunningOK
BY DEF TypeOK, ControllerOK, EngineOK, MicrophoneOK, SessionOK, ListeningOK, HistoryOK, RunningOK,
       SegType, TurnType, UtteranceType

LEMMA PartsNext ==
  (ControllerOK /\ EngineOK /\ MicrophoneOK /\ SessionOK /\ ListeningOK /\ HistoryOK
   /\ RunningOK)' => TypeOK'
BY DEF TypeOK, ControllerOK, EngineOK, MicrophoneOK, SessionOK, ListeningOK, HistoryOK, RunningOK,
       SegType, TurnType, UtteranceType

(* The floor: what is queued or spoken was submitted, what is queued after the  *)
(* last interrupt, and the engine is told to stop exactly what came before it. *)
FloorInv ==
  /\ FloorIsExact
  /\ thread = "off" <=> speaker = "get"
  /\ \A i \in 1..Len(queue) : queue[i] \in said \ dropped
  /\ speaker # "get" => speaker \in said
  /\ thread \in {"render", "about", "play"} => (cut <=> speaker \in dropped)
  /\ thread = "about" => chunk < Chunks
Inv == TypeOK /\ FloorInv

LEMMA InitInv == Init => Inv
<1> SUFFICES ASSUME Init PROVE Inv
  OBVIOUS
<1>0. failed \in BOOLEAN /\ cut \in BOOLEAN /\ {late, own, deaf} \subseteq BOOLEAN
  BY DEF Init
<1>1. ControllerOK /\ HistoryOK /\ SessionOK /\ RunningOK
  BY <1>0 DEF Init, ControllerOK, HistoryOK, SessionOK, RunningOK
<1>2. EngineOK /\ MicrophoneOK
  BY <1>0, BoundsAssumption, EchoAssumption DEF Init, EngineOK, MicrophoneOK
<1>3. ListeningOK
  BY VoiceAssumption, EchoAssumption
     DEF Init, ListeningOK, NoSeg, NoTurn, NoUtterance, SegType, TurnType, UtteranceType, Heard
<1>4. FloorInv
  BY DEF Init, FloorInv, FloorIsExact
<1> QED
  BY <1>1, <1>2, <1>3, <1>4, Parts DEF Inv

(* The controller's steps.                                                   *)
LEMMA ControllerStep ==
  ASSUME Inv, (\E m \in Messages : Submit(m)) \/ Interrupt \/ Take \/ Finish
  PROVE  ControllerOK' /\ EngineOK' /\ HistoryOK' /\ FloorInv'
         /\ UNCHANGED <<room, backlog, session, listening>>
<1>0. /\ ControllerOK /\ EngineOK /\ HistoryOK /\ FloorInv /\ FloorIsExact /\ "get" \notin Messages
      /\ Len(queue) \in Nat /\ Chunks \in Nat
  BY Parts, MessagesAssumption, BoundsAssumption DEF Inv, FloorInv, ControllerOK
<1>1. ASSUME late' = (late \/ (Speaking /\ inflight' = 0 /\ session \in {"transcribing", "sending"}))
      PROVE  late' \in BOOLEAN
  BY <1>1
<1>2. ASSUME NEW m \in Messages, Submit(m) PROVE ControllerOK' /\ EngineOK' /\ HistoryOK' /\ FloorInv'
  <2>1. /\ said' = said \cup {m} /\ m \notin said
        /\ UNCHANGED <<speaker, failed, cut, thread, chunk, dropped, after, late, own, deaf>>
    BY <1>2 DEF Submit, engine
  <2>2. CASE failed /\ UNCHANGED <<queue, inflight>>
    BY <1>0, <2>1, <2>2 DEF ControllerOK, EngineOK, HistoryOK, FloorInv, FloorIsExact, Speaking
  <2>3. CASE queue' = Append(queue, m) /\ inflight' = inflight + 1
    <3>1. queue' \in Seq(Messages) /\ Len(queue') = Len(queue) + 1 /\ inflight' \in Nat
          /\ inflight' > 0
      BY <1>0, <2>3 DEF ControllerOK
    <3>2. \A i \in 1..Len(queue') : queue'[i] = IF i <= Len(queue) THEN queue[i] ELSE m
      BY <1>0, <2>3, <3>1 DEF ControllerOK
    <3>3. m \notin dropped
      BY <1>0, <2>1 DEF HistoryOK
    <3>4. \A i \in 1..Len(queue') : queue'[i] \in said' \ dropped'
      <4> TAKE i \in 1..Len(queue')
      <4>1. CASE i <= Len(queue)
        BY <1>0, <2>1, <3>2, <4>1 DEF FloorInv
      <4>2. CASE ~(i <= Len(queue))
        BY <2>1, <3>2, <3>3, <4>2
      <4> QED
        BY <4>1, <4>2
    <3>5. FloorIsExact'
      BY <1>0, <2>1, <2>3, <3>1 DEF FloorIsExact, Speaking, ControllerOK
    <3> QED
      BY <1>0, <2>1, <3>1, <3>4, <3>5 DEF ControllerOK, EngineOK, HistoryOK, FloorInv
  <2> QED
    BY <1>2, <2>2, <2>3 DEF Submit
<1>3. ASSUME Interrupt PROVE ControllerOK' /\ EngineOK' /\ HistoryOK' /\ FloorInv'
  <2>1. /\ queue' = <<>> /\ inflight' = inflight - Len(queue) /\ cut' = TRUE
        /\ thread' = (IF thread = "play" THEN "render" ELSE thread) /\ dropped' = said
        /\ UNCHANGED <<speaker, failed, chunk, said, after, own, deaf>>
    BY <1>3 DEF Interrupt, BacklogDropped
  <2>2. late' \in BOOLEAN
    BY <1>1, <1>3 DEF Interrupt, NotesRelease
  <2>3. inflight' = (IF speaker = "get" THEN 0 ELSE 1)
    BY <1>0, <2>1 DEF FloorIsExact
  <2>4. FloorIsExact'
    BY <1>0, <2>1, <2>3 DEF FloorIsExact, FloorInv, Speaking, EngineOK
  <2> QED
    BY <1>0, <2>1, <2>2, <2>3, <2>4 DEF ControllerOK, EngineOK, HistoryOK, FloorInv
<1>4. ASSUME Take PROVE ControllerOK' /\ EngineOK' /\ HistoryOK' /\ FloorInv'
  <2>1. /\ speaker = "get" /\ queue # <<>> /\ queue' = Tail(queue)
        /\ UNCHANGED <<failed, said, dropped, after, own, deaf>>
    BY <1>4 DEF Take
  <2>2. late' \in BOOLEAN
    BY <1>1, <1>4 DEF Take, NotesRelease
  <2>3. /\ queue' \in Seq(Messages) /\ Len(queue') = Len(queue) - 1 /\ Len(queue) > 0
        /\ Head(queue) \in Messages /\ Head(queue) = queue[1]
        /\ \A i \in 1..Len(queue') : queue'[i] = queue[i + 1] /\ i + 1 \in 1..Len(queue)
    BY <1>0, <2>1 DEF ControllerOK
  <2>4. \A i \in 1..Len(queue') : queue'[i] \in said' \ dropped'
    BY <1>0, <2>1, <2>3 DEF FloorInv
  <2>5. CASE inflight' = inflight - 1 /\ UNCHANGED <<speaker, engine>>
    <3>1. inflight' = Len(queue') /\ inflight' \in Nat /\ thread = "off"
      BY <1>0, <2>1, <2>3, <2>5 DEF FloorIsExact, FloorInv
    <3>2. FloorIsExact'
      BY <2>1, <2>5, <3>1 DEF FloorIsExact, engine
    <3> QED
      BY <1>0, <2>1, <2>2, <2>3, <2>4, <2>5, <3>1, <3>2
         DEF ControllerOK, EngineOK, HistoryOK, FloorInv, engine
  <2>6. CASE /\ speaker' = Head(queue) /\ cut' = FALSE /\ thread' = "render" /\ chunk' = 0
             /\ UNCHANGED inflight
    <3>1. speaker' # "get" /\ speaker' \in said \ dropped
      BY <1>0, <2>3, <2>6 DEF FloorInv
    <3>2. inflight' = Len(queue') + 1 /\ inflight' \in Nat /\ inflight' > 0
      BY <1>0, <2>1, <2>3, <2>6 DEF FloorIsExact
    <3>3. FloorIsExact'
      BY <3>1, <3>2 DEF FloorIsExact, Speaking
    <3>4. ControllerOK' /\ HistoryOK'
      BY <1>0, <2>1, <2>2, <2>3, <2>6, <3>2 DEF ControllerOK, HistoryOK
    <3>5. EngineOK'
      <4>1. cut' \in BOOLEAN
        BY <2>6
      <4>2. chunk' \in 0..Chunks
        BY <1>0, <2>6
      <4>3. thread' \in {"off", "render", "about", "play", "ended", "raised"}
        BY <2>6
      <4> QED
        BY <4>1, <4>2, <4>3 DEF EngineOK
    <3>6. FloorInv'
      BY <1>0, <2>1, <2>3, <2>4, <2>6, <3>1, <3>3 DEF FloorInv
    <3> QED
      BY <3>4, <3>5, <3>6
  <2> QED
    BY <1>4, <2>5, <2>6 DEF Take, LatchedDrops, FreshUtterance
<1>5. ASSUME Finish PROVE ControllerOK' /\ EngineOK' /\ HistoryOK' /\ FloorInv'
  <2>1. /\ thread \in {"ended", "raised"} /\ speaker' = "get" /\ inflight' = inflight - 1
        /\ thread' = "off" /\ chunk' = 0 /\ after' = 0
        /\ UNCHANGED <<queue, cut, said, dropped, own, deaf>>
    BY <1>5 DEF Finish
  <2>2. late' \in BOOLEAN
    BY <1>1, <1>5 DEF Finish, NotesRelease
  <2>3. failed' \in BOOLEAN
    BY <1>5 DEF Finish
  <2>4. inflight' = Len(queue) /\ inflight' \in Nat
    BY <1>0, <2>1 DEF FloorIsExact, FloorInv
  <2>5. FloorIsExact'
    BY <2>1, <2>4 DEF FloorIsExact
  <2> QED
    BY <1>0, <2>1, <2>2, <2>3, <2>4, <2>5 DEF ControllerOK, EngineOK, HistoryOK, FloorInv
<1>6. UNCHANGED <<room, backlog, session, listening>>
  BY DEF Submit, Interrupt, Take, Finish
<1> QED
  BY <1>2, <1>3, <1>4, <1>5, <1>6

(* The engine's thread.                                                      *)
LEMMA ThreadStep ==
  ASSUME Inv, Thread
  PROVE  EngineOK' /\ FloorInv' /\ after' \in Nat
         /\ UNCHANGED <<controller, room, backlog, session, listening, said, dropped, late, own, deaf>>
<1>0. EngineOK /\ FloorInv /\ Chunks \in Nat
  BY Parts, BoundsAssumption DEF Inv
<1>1. UNCHANGED <<queue, speaker, inflight, failed, cut, said, dropped>>
  BY DEF Thread, Render, Play, ChunkEnds, controller
<1> DEFINE Frames == UNCHANGED <<controller, room, backlog, session, listening, said, dropped, late, own, deaf>>
<1>2. Frames
  BY DEF Thread, Render, Play, ChunkEnds
<1>6. after' \in Nat
  BY Parts DEF Inv, HistoryOK, Thread, Render, Play, ChunkEnds
<1>3. CASE Render
  <2>1. thread = "render" /\ chunk' = chunk /\ thread' \in {"about", "ended", "raised"}
        /\ (thread' = "about" => chunk < Chunks)
    BY <1>3 DEF Render
  <2>2. EngineOK'
    BY <1>0, <1>1, <2>1 DEF EngineOK, FloorInv
  <2>3. FloorIsExact'
    BY <1>0, <1>1, <2>1 DEF FloorInv, FloorIsExact, Speaking
  <2>4. thread' \in {"render", "about", "play"} => (cut' <=> speaker' \in dropped')
    BY <1>0, <1>1, <2>1 DEF FloorInv
  <2>5. /\ \A i \in 1..Len(queue') : queue'[i] \in said' \ dropped'
        /\ speaker' # "get" => speaker' \in said'
        /\ thread' = "off" <=> speaker' = "get"
        /\ thread' = "about" => chunk' < Chunks
    BY <1>0, <1>1, <2>1 DEF FloorInv
  <2> QED
    BY <1>2, <1>6, <2>2, <2>3, <2>4, <2>5 DEF FloorInv
<1>4. CASE Play
  <2>1. thread = "about" /\ thread' = "play" /\ chunk' = chunk + 1
    BY <1>4 DEF Play
  <2>2. EngineOK'
    BY <1>0, <1>1, <2>1 DEF EngineOK, FloorInv
  <2>3. FloorIsExact'
    BY <1>0, <1>1, <2>1 DEF FloorInv, FloorIsExact, Speaking
  <2>4. thread' \in {"render", "about", "play"} => (cut' <=> speaker' \in dropped')
    BY <1>0, <1>1, <2>1 DEF FloorInv
  <2>5. /\ \A i \in 1..Len(queue') : queue'[i] \in said' \ dropped'
        /\ speaker' # "get" => speaker' \in said'
        /\ thread' = "off" <=> speaker' = "get"
        /\ thread' = "about" => chunk' < Chunks
    BY <1>0, <1>1, <2>1 DEF FloorInv
  <2> QED
    BY <1>2, <1>6, <2>2, <2>3, <2>4, <2>5 DEF FloorInv
<1>5. CASE ChunkEnds
  <2>1. thread = "play" /\ thread' = "render" /\ chunk' = chunk
    BY <1>5 DEF ChunkEnds
  <2>2. EngineOK'
    BY <1>0, <1>1, <2>1 DEF EngineOK, FloorInv
  <2>3. FloorIsExact'
    BY <1>0, <1>1, <2>1 DEF FloorInv, FloorIsExact, Speaking
  <2>4. thread' \in {"render", "about", "play"} => (cut' <=> speaker' \in dropped')
    BY <1>0, <1>1, <2>1 DEF FloorInv
  <2>5. /\ \A i \in 1..Len(queue') : queue'[i] \in said' \ dropped'
        /\ speaker' # "get" => speaker' \in said'
        /\ thread' = "off" <=> speaker' = "get"
        /\ thread' = "about" => chunk' < Chunks
    BY <1>0, <1>1, <2>1 DEF FloorInv
  <2> QED
    BY <1>2, <1>6, <2>2, <2>3, <2>4, <2>5 DEF FloorInv
<1> QED
  BY <1>3, <1>4, <1>5 DEF Thread

-----------------------------------------------------------------------------
(* The session.                                                             *)

(* The part of the floor the session reads only.                             *)
LEMMA FloorFrame ==
  ASSUME FloorInv, UNCHANGED <<controller, engine, said, dropped>>
  PROVE  FloorInv'
<1>1. UNCHANGED <<queue, speaker, inflight, failed, cut, thread, chunk>>
  BY DEF controller, engine
<1> QED
  BY <1>1 DEF FloorInv, FloorIsExact, Speaking

LEMMA HeardUnion ==
  ASSUME NEW s \in Seq(Heard)
  PROVE  UNION ToSet(s) \in Heard
BY DEF ToSet, Heard

LEMMA AgentsHeard == \A f : Agents(f) \in Heard
BY DEF Agents, Heard

LEMMA RecentTyped ==
  ASSUME context \in Seq(Heard), NEW f
  PROVE  Recent(f) \in Seq(Heard)
<1>1. Append(context, Agents(f)) \in Seq(Heard) /\ Append(context, Agents(f)) # <<>>
  BY AgentsHeard
<1>2. Tail(Append(context, Agents(f))) \in Seq(Heard)
  BY <1>1
<1> QED
  BY <1>1, <1>2 DEF Recent

LEMMA OnsetTyped ==
  ASSUME context \in Seq(Heard), seg \in SegType, NEW f, NEW speech \in BOOLEAN
  PROVE  Onset(f, speech) \in SegType
<1>1. (IF speech THEN seg.run + 1 ELSE 0) \in Nat
  BY DEF SegType
<1>2. \A r \in Nat : [seg EXCEPT !.run = r] \in SegType
  BY DEF SegType
<1>3. Len(Recent(f)) \in Nat /\ UNION ToSet(Recent(f)) \in Heard
  BY RecentTyped, HeardUnion
<1>4. \A r \in Nat : [in |-> TRUE, run |-> r, len |-> Len(Recent(f)), count |-> r, trailing |-> 0,
                      heard |-> UNION ToSet(Recent(f))] \in SegType
  BY <1>3 DEF SegType
<1> QED
  BY <1>1, <1>2, <1>4 DEF Onset

LEMMA ExtendedTyped ==
  ASSUME seg \in SegType, NEW f, NEW speech \in BOOLEAN
  PROVE  Extended(f, speech) \in SegType
<1>1. seg.heard \cup Agents(f) \in Heard
  BY DEF SegType, Heard, Agents
<1>2. (IF speech THEN seg.count + 1 ELSE seg.count) \in Nat /\ seg.len + 1 \in Nat
      /\ (IF speech THEN 0 ELSE seg.trailing + 1) \in Nat
  BY DEF SegType
<1>3. seg.run \in Nat
  BY DEF SegType
<1> QED
  BY <1>1, <1>2, <1>3 DEF Extended, SegType

LEMMA Blank == NoSeg \in SegType /\ NoTurn \in TurnType /\ NoUtterance \in UtteranceType
BY VoiceAssumption DEF NoSeg, NoTurn, NoUtterance, SegType, TurnType, UtteranceType, Heard

LEMMA TailOK == Inv => MuteTail \in 0..Guard
BY Parts, EchoAssumption DEF Inv, ListeningOK, MuteTail

(* Capture, and the session's steps.                                         *)
LEMMA SessionStep ==
  ASSUME Inv, Capture \/ Session
  PROVE  Inv'
<1>0. /\ ControllerOK /\ EngineOK /\ MicrophoneOK /\ SessionOK /\ ListeningOK /\ HistoryOK
      /\ RunningOK /\ FloorInv
  BY Parts DEF Inv
<1>1. UNCHANGED <<controller, engine, said, dropped, after, late>>
  BY DEF Capture, Session, Listen, DropFrame, Hear, Transcribed, Sent
<1>2. FloorInv' /\ ControllerOK' /\ EngineOK'
  BY <1>0, <1>1, FloorFrame DEF ControllerOK, EngineOK, controller, engine
<1>3. ASSUME MicrophoneOK', SessionOK', ListeningOK', own' \in BOOLEAN, deaf' \in BOOLEAN, RunningOK'
      PROVE  Inv'
  <2>1. HistoryOK'
    BY <1>0, <1>1, <1>3 DEF HistoryOK
  <2> QED
    BY <1>2, <1>3, <2>1, PartsNext DEF Inv
<1>4. own \in BOOLEAN /\ deaf \in BOOLEAN
  BY <1>0 DEF HistoryOK
<1>5. CASE Capture
  <2>1. PICK f \in Frame : backlog' = Append(backlog, f)
    BY <1>5 DEF Capture
  <2>2. room' \in 0..Room
    BY <1>0, <1>5, EchoAssumption DEF Capture, MicrophoneOK
  <2>3. backlog' \in Seq(Frame)
    BY <1>0, <2>1 DEF MicrophoneOK
  <2>4. session' = session /\ session # "run" /\ own' = own /\ deaf' = deaf
        /\ UNCHANGED <<tail, context, seg, silence, utterance, turn>>
    BY <1>5 DEF Capture, LoopFree, listening
  <2>5. ListeningOK'
    BY <1>0, <2>4 DEF ListeningOK
  <2> QED
    BY <1>0, <1>3, <1>4, <2>2, <2>3, <2>4, <2>5 DEF MicrophoneOK, SessionOK, RunningOK
<1>6. CASE Listen
  <2>1. session' = "run" /\ backlog' = backlog /\ backlog # <<>> /\ room' = room
        /\ own' = own /\ deaf' = deaf /\ UNCHANGED <<tail, context, seg, silence, utterance, turn>>
    BY <1>6 DEF Listen, listening
  <2>2. ListeningOK'
    BY <1>0, <2>1 DEF ListeningOK
  <2> QED
    BY <1>0, <1>3, <1>4, <2>1, <2>2 DEF MicrophoneOK, SessionOK, RunningOK
<1>7. ASSUME backlog # <<>>, backlog' = Tail(backlog), room' = room
      PROVE  MicrophoneOK' /\ (Resume => SessionOK' /\ RunningOK')
  <2>1. backlog' \in Seq(Frame) /\ (Len(backlog) > 1 => backlog' # <<>>)
    <3>1. backlog \in Seq(Frame)
      BY <1>0 DEF MicrophoneOK
    <3>2. Tail(backlog) \in Seq(Frame) /\ Len(Tail(backlog)) = Len(backlog) - 1 /\ Len(backlog) \in Nat
      BY <1>7, <3>1
    <3>3. Len(backlog) > 1 => Len(Tail(backlog)) # 0
      BY <3>2
    <3>4. Len(<<>>) = 0
      OBVIOUS
    <3>5. Len(backlog) > 1 => Tail(backlog) # <<>>
      BY <3>3, <3>4
    <3> QED
      BY <1>7, <3>2, <3>5
  <2> QED
    BY <1>0, <1>7, <2>1 DEF MicrophoneOK, Resume, SessionOK, RunningOK
<1>8. CASE DropFrame
  <2>1. /\ session = "run" /\ backlog' = Tail(backlog) /\ Resume /\ tail' = MuteTail
        /\ seg' = NoSeg /\ context' = <<>> /\ turn' = NoTurn /\ silence' = 0
        /\ UNCHANGED <<room, utterance, own, deaf>>
    BY <1>8 DEF DropFrame
  <2>2. ListeningOK'
    BY <1>0, <2>1, Blank, TailOK, VoiceAssumption DEF Inv, ListeningOK
  <2> QED
    BY <1>0, <1>3, <1>4, <1>7, <2>1, <2>2 DEF RunningOK
<1>9. ASSUME NEW t \in TurnType, Commit(t)
      PROVE  SessionOK' /\ RunningOK' /\ turn' \in TurnType /\ own' \in BOOLEAN
  BY <1>9, Blank DEF Commit, SessionOK, RunningOK
<1>10. CASE Hear
  <2>0. /\ session = "run" /\ backlog' = Tail(backlog) /\ tail' = MuteTail
        /\ UNCHANGED <<room, deaf>>
    BY <1>10 DEF Hear
  <2>1. MicrophoneOK' /\ (Resume => SessionOK' /\ RunningOK')
    BY <1>0, <1>7, <2>0 DEF RunningOK
  <2>2. PICK speech \in BOOLEAN :
          /\ silence' = IF speech THEN 0 ELSE Capped(silence + 1, ContinuationGap)
          /\ LET f == Head(backlog)
                 s == IF seg.in THEN Extended(f, speech) ELSE Onset(f, speech)
                 over == seg.in /\ Closes(s)
                 whole == over /\ s.count >= MinSpeech
             IN /\ seg' = IF over THEN NoSeg ELSE s
                /\ context' = IF seg.in THEN IF over THEN <<>> ELSE context ELSE Recent(f)
                /\ utterance' = IF whole THEN [heard |-> s.heard, length |-> s.len, silent |-> ~speech]
                                ELSE NoUtterance
                /\ IF whole THEN session' = "transcribing" /\ UNCHANGED <<turn, own>>
                   ELSE IF ~speech /\ Yielded(turn, silence') THEN Commit(turn)
                   ELSE Resume /\ UNCHANGED <<turn, own>>
    BY <1>10 DEF Hear
  <2> DEFINE f == Head(backlog)
             s == IF seg.in THEN Extended(f, speech) ELSE Onset(f, speech)
  <2>3. s \in SegType
    BY <1>0, ExtendedTyped, OnsetTyped DEF ListeningOK
  <2>4. silence' \in 0..ContinuationGap
    BY <1>0, <2>2, VoiceAssumption DEF ListeningOK, Capped
  <2>5. seg' \in SegType
    BY <2>2, <2>3, Blank
  <2>6. context' \in Seq(Heard)
    <3>1. <<>> \in Seq(Heard) /\ context \in Seq(Heard) /\ Recent(f) \in Seq(Heard)
      BY <1>0, RecentTyped DEF ListeningOK
    <3> HIDE DEF s, f
    <3> QED
      BY <2>2, <3>1 DEF f
  <2>7. utterance' \in UtteranceType
    <3>1. [heard |-> s.heard, length |-> s.len, silent |-> ~speech] \in UtteranceType
      BY <2>3 DEF SegType, UtteranceType
    <3> QED
      BY <2>2, <3>1, Blank
  <2>8. SessionOK' /\ RunningOK' /\ turn' \in TurnType /\ own' \in BOOLEAN
    <3>1. turn \in TurnType
      BY <1>0 DEF ListeningOK
    <3>2. CASE session' = "transcribing" /\ UNCHANGED <<turn, own>>
      BY <1>4, <3>1, <3>2 DEF SessionOK, RunningOK
    <3>3. CASE Commit(turn)
      BY <1>9, <3>1, <3>3
    <3>4. CASE Resume /\ UNCHANGED <<turn, own>>
      BY <1>4, <2>1, <3>1, <3>4
    <3> QED
      BY <2>2, <3>2, <3>3, <3>4
  <2>9. tail' \in 0..Guard
    BY <2>0, TailOK DEF Inv
  <2>10. ListeningOK'
    BY <2>4, <2>5, <2>6, <2>7, <2>8, <2>9 DEF ListeningOK
  <2> QED
    BY <1>3, <1>4, <2>0, <2>1, <2>8, <2>10
<1>11. ASSUME Continue, backlog' = backlog PROVE SessionOK' /\ RunningOK'
  BY <1>11 DEF Continue, SessionOK, RunningOK
<1>12. CASE Transcribed
  <2>0. utterance' = NoUtterance /\ UNCHANGED <<room, backlog, tail, context, seg, silence, deaf>>
    BY <1>12 DEF Transcribed
  <2>1. PICK text \in BOOLEAN, unfinished \in BOOLEAN :
          LET t == IF ~text THEN turn
                   ELSE [heard |-> turn.heard \cup utterance.heard, parts |-> TRUE,
                         unfinished |-> unfinished,
                         length |-> Capped(turn.length + utterance.length, MaxTurn)]
          IN IF utterance.silent /\ Yielded(t, silence) THEN Commit(t)
             ELSE turn' = t /\ Continue /\ UNCHANGED own
    BY <1>12 DEF Transcribed
  <2> DEFINE t == IF ~text THEN turn
                  ELSE [heard |-> turn.heard \cup utterance.heard, parts |-> TRUE,
                        unfinished |-> unfinished,
                        length |-> Capped(turn.length + utterance.length, MaxTurn)]
  <2>2. t \in TurnType
    <3>1. turn \in TurnType /\ utterance \in UtteranceType /\ MaxTurn \in Nat
      BY <1>0, VoiceAssumption DEF ListeningOK
    <3>2. Capped(turn.length + utterance.length, MaxTurn) \in 0..MaxTurn
      BY <3>1 DEF TurnType, UtteranceType, Capped
    <3>3. turn.heard \cup utterance.heard \in Heard
      BY <3>1 DEF TurnType, UtteranceType, Heard
    <3> QED
      BY <3>1, <3>2, <3>3 DEF TurnType
  <2>3. SessionOK' /\ RunningOK' /\ turn' \in TurnType /\ own' \in BOOLEAN
    <3> HIDE DEF t
    <3>1. Commit(t) \/ (turn' = t /\ Continue /\ UNCHANGED own)
      BY <2>1 DEF t
    <3> QED
      BY <1>4, <1>9, <1>11, <2>0, <2>2, <3>1
  <2>4. ListeningOK' /\ MicrophoneOK'
    BY <1>0, <2>0, <2>3, Blank DEF ListeningOK, MicrophoneOK
  <2> QED
    BY <1>3, <1>4, <2>0, <2>3, <2>4
<1>13. CASE Sent
  <2>0. UNCHANGED <<room, backlog, tail, context, seg, silence, utterance, turn, own>>
    BY <1>13 DEF Sent, listening
  <2>1. SessionOK' /\ RunningOK' /\ deaf' \in BOOLEAN
    <3>1. CASE Continue /\ UNCHANGED deaf
      BY <1>4, <1>11, <2>0, <3>1
    <3>2. CASE EndsSession
      BY <3>2 DEF EndsSession, SessionOK, RunningOK
    <3> QED
      BY <1>13, <3>1, <3>2 DEF Sent
  <2>2. ListeningOK' /\ MicrophoneOK'
    BY <1>0, <2>0 DEF ListeningOK, MicrophoneOK
  <2> QED
    BY <1>3, <1>4, <2>0, <2>1, <2>2
<1> QED
  BY <1>5, <1>6, <1>8, <1>10, <1>12, <1>13 DEF Session

LEMMA StepInv == Inv /\ [Next]_vars => Inv'
<1> SUFFICES ASSUME Inv, [Next]_vars PROVE Inv'
  OBVIOUS
<1>0. /\ ControllerOK /\ EngineOK /\ MicrophoneOK /\ SessionOK /\ ListeningOK /\ HistoryOK
      /\ RunningOK /\ FloorInv
  BY Parts DEF Inv
<1>1. ASSUME ControllerOK', EngineOK', HistoryOK', FloorInv',
             UNCHANGED <<room, backlog, session, listening>>
      PROVE  Inv'
  <2>1. MicrophoneOK' /\ SessionOK' /\ RunningOK'
    BY <1>0, <1>1 DEF MicrophoneOK, SessionOK, RunningOK
  <2>2. ListeningOK'
    BY <1>0, <1>1 DEF ListeningOK, listening
  <2> QED
    BY <1>1, <2>1, <2>2, PartsNext DEF Inv
<1>2. CASE (\E m \in Messages : Submit(m)) \/ Interrupt \/ Speaker
  BY <1>1, <1>2, ControllerStep DEF Speaker
<1>3. CASE Thread
  <2>1. EngineOK' /\ FloorInv' /\ after' \in Nat
        /\ UNCHANGED <<controller, room, backlog, session, listening, said, dropped, late, own, deaf>>
    BY <1>3, ThreadStep
  <2>2. ControllerOK' /\ HistoryOK'
    BY <1>0, <2>1 DEF ControllerOK, HistoryOK, controller
  <2> QED
    BY <1>1, <2>1, <2>2
<1>4. CASE Capture \/ Session
  BY <1>4, SessionStep
<1>5. CASE UNCHANGED vars
  <2>1. UNCHANGED <<controller, engine, room, backlog, session, listening, said, dropped, after,
                    late, own, deaf>>
    BY <1>5 DEF vars
  <2>2. ControllerOK' /\ EngineOK' /\ HistoryOK' /\ FloorInv'
    BY <1>0, <2>1, FloorFrame DEF ControllerOK, EngineOK, HistoryOK, controller, engine
  <2> QED
    BY <1>1, <2>1, <2>2
<1> QED
  BY <1>2, <1>3, <1>4, <1>5 DEF Next

LEMMA InvHolds == Spec => []Inv
BY InitInv, StepInv, PTL DEF Spec

(* Every reachable state is well typed.                                      *)
THEOREM TypeCorrect == Spec => []TypeOK
<1>1. Inv => TypeOK
  BY DEF Inv
<1> QED
  BY <1>1, InvHolds, PTL

(* `speaking' says exactly who holds the floor, through any interrupts,        *)
(* failures and the latch.                                                  *)
THEOREM FloorIsExactHolds == Spec => []FloorIsExact
<1>1. Inv => FloorIsExact
  BY DEF Inv, FloorInv
<1> QED
  BY <1>1, InvHolds, PTL

(* What was begun of a message since a barge-in is the piece that was about to *)
(* be played then; the worker's next look at the flag ends it.                *)
AfterInv == after = 0 \/ (after = 1 /\ cut /\ thread \in {"play", "render", "ended", "raised"})

LEMMA InitAfter == Init => AfterInv
BY DEF Init, AfterInv

LEMMA StepAfter == Inv /\ AfterInv /\ [Next]_vars => AfterInv'
<1> SUFFICES ASSUME Inv, AfterInv, [Next]_vars PROVE AfterInv'
  OBVIOUS
<1>0. /\ thread = "off" <=> speaker = "get"
      /\ thread \in {"render", "about", "play"} => (cut <=> speaker \in dropped)
  BY DEF Inv, FloorInv
<1>1. CASE Interrupt
  BY <1>1 DEF Interrupt, AfterInv
<1>2. CASE Take
  BY <1>0, <1>2 DEF Take, AfterInv
<1>3. CASE Finish
  BY <1>3 DEF Finish, AfterInv
<1>4. CASE Render
  BY <1>4 DEF Render, Abandoned, AfterInv
<1>5. CASE Play
  BY <1>0, <1>5 DEF Play, AfterInv
<1>6. CASE ChunkEnds
  BY <1>6 DEF ChunkEnds, AfterInv
<1>7. ASSUME (\E m \in Messages : Submit(m)) \/ Capture \/ Session \/ UNCHANGED vars
      PROVE  AfterInv'
  BY <1>7 DEF Submit, Capture, Session, Listen, DropFrame, Hear, Transcribed, Sent, vars, engine, AfterInv
<1> QED
  BY <1>1, <1>2, <1>3, <1>4, <1>5, <1>6, <1>7 DEF Next, Speaker, Thread

(* After a barge-in at most the piece that was about to be played is begun of  *)
(* a message submitted before it, and no later message is abandoned for it.    *)
THEOREM BargeInIsObeyedHolds == Spec => []BargeInIsObeyed
<1>1. Inv /\ AfterInv => BargeInIsObeyed
  BY DEF Inv, FloorInv, AfterInv, BargeInIsObeyed
<1>2. Spec => []AfterInv
  BY InvHolds, InitAfter, StepAfter, PTL DEF Spec
<1> QED
  BY <1>1, <1>2, InvHolds, PTL

-----------------------------------------------------------------------------
(* The echo.                                                                *)

(* Nothing of the agent has been heard.                                      *)
CleanInv == /\ own = FALSE /\ seg.heard = {} /\ turn.heard = {} /\ utterance.heard = {}
            /\ \A i \in 1..Len(context) : context[i] = {}
(* The frames waiting will be dropped because the agent holds the floor.      *)
Held == IF session = "wait" THEN thread # "off" ELSE Speaking
(* Otherwise the guard outlasts every echo waiting, and the one in the room.   *)
GuardInv == /\ room > 0 => (Held /\ backlog # <<>>) \/ tail > room + Len(backlog)
            /\ \A i \in 1..Len(backlog) : backlog[i] = "echo" => Held \/ tail > i
EchoInv == late \/ (CleanInv /\ (session = "ended" \/ GuardInv))

LEMMA InitEcho == Init => EchoInv
<1> SUFFICES ASSUME Init PROVE CleanInv /\ GuardInv
  BY DEF EchoInv
<1>1. CleanInv
  BY DEF Init, CleanInv, NoSeg, NoTurn, NoUtterance
<1>2. GuardInv
  BY DEF Init, GuardInv
<1> QED
  BY <1>1, <1>2

LEMMA CleanRecent ==
  ASSUME context \in Seq(Heard), \A i \in 1..Len(context) : context[i] = {}, NEW f, f # "echo"
  PROVE  /\ \A i \in 1..Len(Recent(f)) : Recent(f)[i] = {}
         /\ UNION ToSet(Recent(f)) = {}
<1> DEFINE all == Append(context, Agents(f))
<1>1. all \in Seq(Heard) /\ Len(all) = Len(context) + 1 /\ Len(context) \in Nat /\ Agents(f) = {}
  BY AgentsHeard DEF Agents
<1>2. \A i \in 1..Len(all) : all[i] = {}
  BY <1>1
<1>3. \A i \in 1..Len(Tail(all)) : Tail(all)[i] = {}
  <2>1. Len(Tail(all)) = Len(all) - 1 /\ \A i \in 1..Len(Tail(all)) : Tail(all)[i] = all[i + 1]
    BY <1>1
  <2> QED
    BY <1>1, <1>2, <2>1
<1>4. \A i \in 1..Len(Recent(f)) : Recent(f)[i] = {}
  BY <1>2, <1>3 DEF Recent
<1>5. UNION ToSet(Recent(f)) = {}
  BY <1>4, RecentTyped DEF ToSet
<1> QED
  BY <1>4, <1>5

(* The controller's and the thread's steps release no floor over an echo.      *)
LEMMA FloorEcho ==
  ASSUME Inv, Inv', EchoInv,
         (\E m \in Messages : Submit(m)) \/ Interrupt \/ Speaker \/ Thread
  PROVE  EchoInv'
<1>1. UNCHANGED <<room, backlog, session, tail, context, seg, silence, utterance, turn, own>>
  BY DEF Submit, Interrupt, Speaker, Take, Finish, Thread, Render, Play, ChunkEnds, listening
<1>2. \/ late' = (late \/ (Speaking /\ inflight' = 0 /\ session \in {"transcribing", "sending"}))
      \/ late' = late /\ (Speaking => inflight' > 0)
  <2>1. inflight \in Nat
    BY Parts DEF Inv, ControllerOK
  <2>2. ASSUME NEW m \in Messages, Submit(m) PROVE late' = late /\ (Speaking => inflight' > 0)
    BY <2>1, <2>2 DEF Submit, Speaking
  <2>3. CASE Thread
    BY <2>3 DEF Thread, Render, Play, ChunkEnds, controller, Speaking
  <2> QED
    BY <2>2, <2>3 DEF Interrupt, Speaker, Take, Finish, NotesRelease
<1>3. SUFFICES ASSUME ~late', session # "ended" PROVE EchoInv'
  <2>1. ASSUME session = "ended" PROVE EchoInv'
    BY <1>1, <1>2, <2>1 DEF EchoInv, CleanInv
  <2> QED
    BY <2>1 DEF EchoInv
<1>4. ~late /\ CleanInv /\ GuardInv
  <2>1. ~late
    BY <1>2, <1>3
  <2> QED
    BY <1>3, <2>1 DEF EchoInv
<1>5. inflight \in Nat /\ inflight' \in Nat
  BY DEF Inv, TypeOK
<1>6. Held => Held' \/ (session = "wait" /\ backlog = <<>>)
  <2>1. CASE session = "wait"
    <3>1. ASSUME thread # "off" PROVE thread' # "off" \/ Finish
      BY <3>1 DEF Submit, Interrupt, Speaker, Take, Thread, Render, Play, ChunkEnds, engine, Inv,
                  FloorInv
    <3>2. Finish => backlog = <<>>
      BY <2>1 DEF Finish
    <3> QED
      BY <1>1, <2>1, <3>1, <3>2 DEF Held
  <2>2. CASE session # "wait"
    <3>1. CASE Thread
      BY <1>1, <2>2, <3>1 DEF Thread, Render, Play, ChunkEnds, controller, Held, Speaking
    <3>2. CASE ~Thread
      <4>1. session # "run"
        BY <3>2 DEF Submit, Interrupt, Speaker, Take, Finish, LoopFree
      <4>2. session \in {"transcribing", "sending"}
        <5>1. SessionOK
          BY Parts DEF Inv
        <5> QED
          BY <1>3, <2>2, <4>1, <5>1 DEF SessionOK
      <4>3. ASSUME Speaking, inflight' = 0 PROVE FALSE
        <5>1. (late \/ (Speaking /\ inflight' = 0 /\ session \in {"transcribing", "sending"})) = TRUE
          BY <4>2, <4>3
        <5>2. CASE late' = (late \/ (Speaking /\ inflight' = 0 /\ session \in {"transcribing", "sending"}))
          BY <1>3, <5>1, <5>2
        <5>3. CASE late' = late /\ (Speaking => inflight' > 0)
          BY <4>3, <5>3
        <5> QED
          BY <1>2, <5>2, <5>3
      <4>4. Speaking => inflight' > 0
        BY <1>5, <4>3
      <4> QED
        BY <1>1, <2>2, <4>4 DEF Held, Speaking
    <3> QED
      BY <3>1, <3>2
  <2> QED
    BY <2>1, <2>2
<1>7. GuardInv'
  <2>1. CASE Held => Held'
    BY <1>1, <1>4, <2>1 DEF GuardInv
  <2>2. CASE session = "wait" /\ backlog = <<>>
    BY <1>1, <1>4, <2>2 DEF GuardInv
  <2> QED
    BY <1>6, <2>1, <2>2
<1> QED
  BY <1>1, <1>4, <1>7 DEF EchoInv, CleanInv

(* The microphone adds an echo only under the floor or within the guard.       *)
LEMMA CaptureEcho ==
  ASSUME Inv, EchoInv, Capture
  PROVE  EchoInv'
<1>1. /\ session # "ended" /\ UNCHANGED <<controller, engine, session, listening, late, own>>
      /\ room' = (IF thread = "play" THEN Room ELSE IF room > 0 THEN room - 1 ELSE 0)
  BY DEF Capture
<1>2. PICK f \in Frame : /\ f = "echo" <=> (thread = "play" \/ room > 0)
                         /\ backlog' = Append(backlog, f)
  BY DEF Capture
<1>3. backlog \in Seq(Frame) /\ room \in Nat /\ Room \in Nat /\ tail \in Nat /\ Guard \in Nat
  <2>1. MicrophoneOK /\ ListeningOK
    BY Parts DEF Inv
  <2> QED
    BY <2>1, EchoAssumption DEF MicrophoneOK, ListeningOK
<1>4. Len(backlog) \in Nat /\ Len(backlog') = Len(backlog) + 1 /\ backlog' # <<>>
  BY <1>2, <1>3
<1>5. \A i \in 1..Len(backlog') : backlog'[i] = IF i <= Len(backlog) THEN backlog[i] ELSE f
  BY <1>2, <1>3, <1>4
<1>6. Held' = Held /\ (thread = "play" => Held)
  <2>1. thread = "play" => Speaking
    BY DEF Inv, FloorInv, FloorIsExact
  <2>2. Held' = Held
    BY <1>1 DEF Held, Speaking, controller, engine
  <2> QED
    BY <2>1, <2>2 DEF Held
<1>7. SUFFICES ASSUME ~late PROVE (CleanInv /\ GuardInv)'
  BY <1>1, <1>7 DEF EchoInv
<1>8. CleanInv /\ GuardInv
  BY <1>1, <1>7 DEF EchoInv
<1>9. CleanInv'
  BY <1>1, <1>8 DEF CleanInv, listening
<1>10. GuardInv'
  <2>1. CASE Held
    BY <1>4, <1>6, <2>1 DEF GuardInv
  <2>2. CASE ~Held
    <3>1. thread # "play" /\ tail' = tail /\ room' = (IF room > 0 THEN room - 1 ELSE 0)
      BY <1>1, <1>6, <2>2 DEF listening
    <3>2. room > 0 => tail > room + Len(backlog)
      BY <1>8, <2>2 DEF GuardInv
    <3>3. room' > 0 => tail' > room' + Len(backlog')
      BY <1>3, <1>4, <3>1, <3>2
    <3>4. \A i \in 1..Len(backlog') : backlog'[i] = "echo" => tail' > i
      <4> TAKE i \in 1..Len(backlog')
      <4>1. CASE i <= Len(backlog)
        <5>1. i \in 1..Len(backlog) /\ backlog'[i] = backlog[i]
          BY <1>4, <1>5, <4>1
        <5> QED
          BY <1>8, <2>2, <3>1, <5>1 DEF GuardInv
      <4>2. CASE ~(i <= Len(backlog))
        <5>1. i = Len(backlog) + 1 /\ backlog'[i] = f
          BY <1>4, <1>5, <4>2
        <5>2. f = "echo" => room > 0
          BY <1>2, <3>1
        <5> QED
          BY <1>3, <1>4, <3>1, <3>2, <5>1, <5>2
      <4> QED
        BY <4>1, <4>2
    <3> QED
      BY <3>3, <3>4 DEF GuardInv
  <2> QED
    BY <2>1, <2>2
<1> QED
  BY <1>9, <1>10

(* A frame dropped under the floor renews the guard; one dropped for the guard *)
(* shortens both by a frame.                                                 *)
LEMMA DropEcho ==
  ASSUME Inv, EchoInv, DropFrame
  PROVE  EchoInv'
<1>1. /\ session = "run" /\ Muted /\ backlog' = Tail(backlog) /\ Resume /\ tail' = MuteTail
      /\ seg' = NoSeg /\ context' = <<>> /\ turn' = NoTurn
      /\ UNCHANGED <<inflight, thread, room, utterance, late, own>>
  BY DEF DropFrame, controller, engine
<1>2. /\ backlog \in Seq(Frame) /\ room \in 0..Room /\ tail \in Nat /\ backlog # <<>>
      /\ Room \in Nat /\ Guard \in Nat /\ Room < Guard
  <2>1. MicrophoneOK /\ ListeningOK /\ RunningOK
    BY Parts DEF Inv
  <2> QED
    BY <1>1, <2>1, EchoAssumption DEF MicrophoneOK, ListeningOK, RunningOK
<1>3. SUFFICES ASSUME ~late PROVE (CleanInv /\ GuardInv)'
  BY <1>1, <1>3 DEF EchoInv
<1>4. CleanInv /\ GuardInv
  BY <1>1, <1>3 DEF EchoInv
<1>5. CleanInv'
  BY <1>1, <1>4 DEF CleanInv, NoSeg, NoTurn
<1>6. /\ Len(backlog) \in Nat \ {0} /\ Len(backlog') = Len(backlog) - 1
      /\ backlog' \in Seq(Frame)
      /\ \A i \in 1..Len(backlog') : backlog'[i] = backlog[i + 1] /\ i + 1 \in 1..Len(backlog)
  BY <1>1, <1>2
<1>7. GuardInv'
  <2>1. CASE Speaking
    <3>1. tail' = Guard /\ Speaking'
      BY <1>1, <2>1 DEF MuteTail, Speaking
    <3>2. CASE Len(backlog) > 1
      <4>1. session' = "run" /\ backlog' # <<>>
        <5>1. Len(backlog') # 0 /\ Len(<<>>) = 0
          BY <1>6, <3>2
        <5> QED
          BY <1>1, <3>2, <5>1 DEF Resume
      <4> QED
        BY <3>1, <4>1 DEF GuardInv, Held
    <3>3. CASE ~(Len(backlog) > 1)
      <4>1. Len(backlog') = 0
        BY <1>6, <3>3
      <4>2. tail' > room' + Len(backlog')
        BY <1>1, <1>2, <3>1, <4>1
      <4> QED
        BY <4>1, <4>2 DEF GuardInv
    <3> QED
      BY <3>2, <3>3
  <2>2. CASE ~Speaking
    <3>1. ~Held
      BY <1>1, <2>2 DEF Held
    <3>2. tail > 0 /\ tail' = tail - 1
      BY <1>1, <1>2, <2>2 DEF Muted, MuteTail
    <3>3. room' > 0 => tail' > room' + Len(backlog')
      <4>1. room > 0 => tail > room + Len(backlog)
        BY <1>4, <3>1 DEF GuardInv
      <4> QED
        BY <1>1, <1>2, <1>6, <3>2, <4>1
    <3>4. ASSUME NEW i \in 1..Len(backlog'), backlog'[i] = "echo" PROVE tail' > i
      <4>1. backlog[i + 1] = "echo" /\ i + 1 \in 1..Len(backlog)
        BY <1>6, <3>4
      <4>2. tail > i + 1
        BY <1>4, <3>1, <4>1 DEF GuardInv
      <4> QED
        BY <1>2, <3>2, <4>2
    <3> QED
      BY <3>3, <3>4 DEF GuardInv
  <2> QED
    BY <2>1, <2>2
<1> QED
  BY <1>5, <1>7

(* A frame is heard only when neither it, nor a waiting one, nor the room echoes. *)
LEMMA HearEcho ==
  ASSUME Inv, EchoInv, Hear
  PROVE  EchoInv'
<1>1. /\ session = "run" /\ ~Muted /\ backlog' = Tail(backlog)
      /\ UNCHANGED <<room, late>>
  BY DEF Hear
<1>2. /\ backlog \in Seq(Frame) /\ room \in Nat /\ tail \in Nat /\ backlog # <<>>
      /\ context \in Seq(Heard) /\ seg \in SegType
  <2>1. MicrophoneOK /\ ListeningOK /\ RunningOK
    BY Parts DEF Inv
  <2> QED
    BY <1>1, <2>1, EchoAssumption DEF MicrophoneOK, ListeningOK, RunningOK
<1>3. SUFFICES ASSUME ~late PROVE (CleanInv /\ GuardInv)'
  BY <1>1, <1>3 DEF EchoInv
<1>4. CleanInv /\ GuardInv
  BY <1>1, <1>3 DEF EchoInv
<1>5. ~Held /\ tail <= 1
  BY <1>1, <1>2 DEF Held, Muted, MuteTail
<1>6. /\ Len(backlog) \in Nat \ {0} /\ backlog' \in Seq(Frame) /\ Head(backlog) = backlog[1]
      /\ \A i \in 1..Len(backlog') : backlog'[i] = backlog[i + 1] /\ i + 1 \in 1..Len(backlog)
  BY <1>1, <1>2
<1>7. room = 0
  BY <1>2, <1>4, <1>5, <1>6 DEF GuardInv
<1>8. \A i \in 1..Len(backlog) : backlog[i] # "echo"
  <2> SUFFICES ASSUME NEW i \in 1..Len(backlog), backlog[i] = "echo" PROVE FALSE
    OBVIOUS
  <2>1. tail > i
    BY <1>4, <1>5 DEF GuardInv
  <2> QED
    BY <1>2, <1>5, <1>6, <2>1
<1>9. GuardInv'
  <2>1. room' = 0
    BY <1>1, <1>7
  <2>2. \A i \in 1..Len(backlog') : backlog'[i] # "echo"
    BY <1>6, <1>8
  <2> QED
    BY <2>1, <2>2 DEF GuardInv
<1>10. CleanInv'
  <2>1. Head(backlog) # "echo"
    BY <1>6, <1>8
  <2> DEFINE f == Head(backlog)
  <2>2. PICK speech \in BOOLEAN :
          LET s == IF seg.in THEN Extended(f, speech) ELSE Onset(f, speech)
              over == seg.in /\ Closes(s)
              whole == over /\ s.count >= MinSpeech
          IN /\ seg' = IF over THEN NoSeg ELSE s
             /\ context' = IF seg.in THEN IF over THEN <<>> ELSE context ELSE Recent(f)
             /\ utterance' = IF whole THEN [heard |-> s.heard, length |-> s.len, silent |-> ~speech]
                             ELSE NoUtterance
             /\ IF whole THEN session' = "transcribing" /\ UNCHANGED <<turn, own>>
                ELSE IF ~speech /\ Yielded(turn, silence') THEN Commit(turn)
                ELSE Resume /\ UNCHANGED <<turn, own>>
    BY DEF Hear
  <2> DEFINE s == IF seg.in THEN Extended(f, speech) ELSE Onset(f, speech)
  <2>3. \A i \in 1..Len(context) : context[i] = {}
    BY <1>4 DEF CleanInv
  <2>4. /\ \A i \in 1..Len(Recent(f)) : Recent(f)[i] = {}
        /\ UNION ToSet(Recent(f)) = {}
    BY <1>2, <2>1, <2>3, CleanRecent
  <2>5. s.heard = {}
    <3>1. seg.heard = {} /\ Agents(f) = {}
      BY <1>4, <2>1 DEF CleanInv, Agents
    <3>2. Extended(f, speech).heard = {}
      BY <3>1 DEF Extended
    <3>3. Onset(f, speech).heard = {}
      <4>1. \A r : [seg EXCEPT !.run = r].heard = {}
        BY <1>2, <3>1 DEF SegType
      <4> QED
        BY <2>4, <4>1 DEF Onset
    <3> QED
      BY <3>2, <3>3
  <2> HIDE DEF s, f
  <2>6. seg'.heard = {}
    BY <2>2, <2>5 DEF NoSeg, s
  <2>7. \A i \in 1..Len(context') : context'[i] = {}
    <3>1. context' = <<>> \/ context' = context \/ context' = Recent(f)
      BY <2>2
    <3> QED
      BY <2>3, <2>4, <3>1
  <2>8. utterance'.heard = {}
    BY <2>2, <2>5 DEF NoUtterance, s
  <2>9. own' = FALSE /\ turn'.heard = {}
    BY <1>4, <2>2 DEF Commit, CleanInv, NoTurn
  <2> QED
    BY <2>6, <2>7, <2>8, <2>9 DEF CleanInv
<1> QED
  BY <1>9, <1>10

(* The session goes on where the waiting frames are judged as before.          *)
LEMMA ResumeEcho ==
  ASSUME Inv, EchoInv, Listen \/ Transcribed \/ Sent
  PROVE  EchoInv'
<1>1. UNCHANGED <<inflight, thread, room, backlog, tail, late>>
  BY DEF Listen, Transcribed, Sent, controller, engine, listening
<1>2. /\ session # "ended"
      /\ \/ session' \in {"run", "sending", "ended"}
         \/ session' = "wait" /\ backlog = <<>>
  BY DEF Listen, Transcribed, Sent, Commit, Continue, EndsSession
<1>3. SUFFICES ASSUME ~late PROVE CleanInv' /\ (session' = "ended" \/ GuardInv')
  BY <1>1, <1>3 DEF EchoInv
<1>4. CleanInv /\ GuardInv
  BY <1>1, <1>2, <1>3 DEF EchoInv
<1>5. CleanInv'
  <2>1. CASE Listen \/ Sent
    BY <1>4, <2>1 DEF Listen, Sent, listening, CleanInv
  <2>2. CASE Transcribed
    <3>1. PICK text \in BOOLEAN, unfinished \in BOOLEAN :
            LET t == IF ~text THEN turn
                     ELSE [heard |-> turn.heard \cup utterance.heard, parts |-> TRUE,
                           unfinished |-> unfinished, length |-> Capped(turn.length + utterance.length, MaxTurn)]
            IN IF utterance.silent /\ Yielded(t, silence) THEN Commit(t)
               ELSE turn' = t /\ Continue /\ UNCHANGED own
      BY <2>2 DEF Transcribed
    <3> DEFINE t == IF ~text THEN turn
                    ELSE [heard |-> turn.heard \cup utterance.heard, parts |-> TRUE,
                          unfinished |-> unfinished, length |-> Capped(turn.length + utterance.length, MaxTurn)]
    <3>2. t.heard = {}
      BY <1>4 DEF CleanInv
    <3>5. Commit(t) \/ (turn' = t /\ own' = own)
      BY <3>1
    <3> HIDE DEF t
    <3>3. own' = FALSE /\ turn'.heard = {}
      <4>1. own = FALSE /\ turn.heard = {}
        BY <1>4 DEF CleanInv
      <4>2. CASE Commit(t)
        <5>1. turn' = NoTurn /\ own' = (own \/ t.heard # {})
          BY <4>2 DEF Commit
        <5>2. turn'.heard = {}
          BY <5>1 DEF NoTurn
        <5>3. (own \/ t.heard # {}) = FALSE
          BY <3>2, <4>1
        <5> QED
          BY <5>1, <5>2, <5>3
      <4>3. CASE turn' = t /\ own' = own
        BY <3>2, <4>1, <4>3
      <4> QED
        BY <3>5, <4>2, <4>3
    <3>4. UNCHANGED <<context, seg>> /\ utterance' = NoUtterance
      BY <2>2 DEF Transcribed
    <3> QED
      BY <1>4, <3>3, <3>4 DEF CleanInv, NoUtterance
  <2> QED
    BY <2>1, <2>2
<1>6. CASE session' = "ended"
  BY <1>5, <1>6
<1>7. CASE session' = "wait" /\ backlog = <<>>
  BY <1>1, <1>4, <1>5, <1>7 DEF GuardInv
<1>8. CASE session' \in {"run", "sending"}
  <2>1. Held => Held'
    BY <1>1, <1>8 DEF Held, Speaking, Inv, FloorInv, FloorIsExact
  <2> QED
    BY <1>1, <1>4, <1>5, <2>1 DEF GuardInv
<1> QED
  BY <1>2, <1>6, <1>7, <1>8

(* The session hears the agent only after a release of the floor that it was    *)
(* suspended over (voice/session.py, run).                                   *)
THEOREM HearsItselfOnlyLateHolds == Spec => []HearsItselfOnlyLate
<1>1. Inv /\ Inv' /\ EchoInv /\ [Next]_vars => EchoInv'
  <2> SUFFICES ASSUME Inv, Inv', EchoInv, [Next]_vars PROVE EchoInv'
    OBVIOUS
  <2>1. CASE (\E m \in Messages : Submit(m)) \/ Interrupt \/ Speaker \/ Thread
    BY <2>1, FloorEcho
  <2>2. CASE Capture
    BY <2>2, CaptureEcho
  <2>3. CASE Session
    BY <2>3, DropEcho, HearEcho, ResumeEcho DEF Session
  <2>4. CASE UNCHANGED vars
    BY <2>4 DEF vars, controller, engine, listening, EchoInv, CleanInv, GuardInv, Held, Speaking
  <2> QED
    BY <2>1, <2>2, <2>3, <2>4 DEF Next
<1>2. EchoInv => HearsItselfOnlyLate
  BY DEF EchoInv, CleanInv, HearsItselfOnlyLate
<1> QED
  BY <1>1, <1>2, InitEcho, InvHolds, PTL DEF Spec
=============================================================================
