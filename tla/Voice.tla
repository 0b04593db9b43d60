-------------------------------- MODULE Voice --------------------------------
(***************************************************************************)
(* `aca chat --voice': the agent speaks and the human is listened to in one   *)
(* process, on one audio floor (DESIGN 36).                                  *)
(*                                                                         *)
(*   agent message -> SpeechController -> engine thread -> loudspeaker        *)
(*                       | speaking?                          | echo          *)
(*   chat_send <- assembler <- transcriber <- segmenter <- gate <- microphone *)
(*                                                                         *)
(* The controller, its speaker task and the voice session are coroutines of   *)
(* one event loop: the session keeps the CPU ("run") until it suspends in a   *)
(* transcription, in chat_send, or in the capture queue.  The engine's worker *)
(* and the microphone are threads.  Audio is counted in frames; a frame is    *)
(* what was to be heard in it.  The end of the stream (quitting) is left out. *)
(***************************************************************************)
EXTENDS Naturals, Sequences, FiniteSets, SequencesExt

CONSTANTS
  Messages,         \* agent messages that may be spoken
  Chunks,           \* bound: pieces of audio an engine makes of a message
  Guard,            \* voice.echo_guard, in frames
  Room,             \* how long the room echoes, in frames
  StartFrames,      \* voice.start_speech: onset run
  SilenceFrames,    \* voice.silence: hangover
  MinSpeech,        \* voice.min_speech
  MaxFrames,        \* voice.max_utterance
  PreRoll,          \* voice.pre_roll
  TurnGap,          \* voice.turn_gap
  ContinuationGap,  \* voice.continuation_gap
  MaxTurn,          \* voice.max_turn
  MaxBacklog        \* bound: frames captured during one suspension

(* config.py, and the echo dying before the guard ends.                       *)
ASSUME VoiceAssumption ==
  /\ StartFrames \in Nat \ {0} /\ SilenceFrames \in Nat \ {0} /\ PreRoll \in Nat
  /\ MinSpeech \in Nat /\ MaxFrames \in Nat
  /\ {TurnGap, ContinuationGap, MaxTurn} \subseteq Nat
  /\ TurnGap > SilenceFrames /\ ContinuationGap >= TurnGap /\ MaxTurn >= MaxFrames
ASSUME EchoAssumption == Guard \in Nat /\ Room \in Nat /\ Room < Guard
ASSUME BoundsAssumption == Chunks \in Nat /\ MaxBacklog \in Nat
ASSUME MessagesAssumption == "get" \notin Messages

VARIABLES
  (* SpeechController *)
  queue,     \* messages waiting to be spoken
  speaker,   \* the message its task is speaking, or "get"
  inflight,  \* _inflight
  failed,    \* _failed, the latch
  (* the engine *)
  cut,       \* _interrupt
  thread,    \* the worker: "off", "render", "about" to play, "play", "ended", "raised"
  chunk,     \* pieces of the message played so far
  (* the microphone *)
  room,      \* frames of echo left in the room
  backlog,   \* the capture queue
  (* VoiceSession, Segmenter, VoiceTurnAssembler *)
  session,   \* "wait", "run", "transcribing", "sending", "ended"
  tail,      \* mute_tail
  context,   \* _context, of the segmenter
  seg,       \* the utterance it is in, if any
  silence,   \* silence_seconds
  utterance, \* what is being transcribed, and whether its last frame was silent
  turn,      \* the assembler's parts
  (* history *)
  said,      \* messages that were submitted
  dropped,   \* those submitted before the last interrupt
  after,     \* pieces of the message being spoken that were begun since it is one of them
  late,      \* whether the floor was released while the session was suspended
  own,       \* whether a turn with the agent's own speech was committed
  deaf       \* whether the session ended

controller == <<queue, speaker, inflight, failed>>
engine     == <<cut, thread, chunk>>
listening  == <<tail, context, seg, silence, utterance, turn>>
vars == <<controller, engine, room, backlog, session, listening, said, dropped, after, late, own, deaf>>

Frame == {"voice", "quiet", "echo"}   \* a human, nobody, or the agent is heard
(* Of what is buffered the model keeps whether the agent is heard in it.      *)
Heard == SUBSET {"echo"}
Agents(f) == {f} \cap {"echo"}
Capped(n, max) == IF n > max THEN max ELSE n
NoSeg  == [in |-> FALSE, run |-> 0, len |-> 0, count |-> 0, trailing |-> 0, heard |-> {}]
NoTurn == [heard |-> {}, parts |-> FALSE, unfinished |-> FALSE, length |-> 0]
NoUtterance == [heard |-> {}, length |-> 0, silent |-> FALSE]

Speaking == inflight > 0
(* The loop runs another coroutine; a frame that wakes the session was queued *)
(* before what happens now.                                                 *)
LoopFree == session # "run"
(* The floor becomes free while the session is suspended elsewhere.           *)
NotesRelease ==
  late' = (late \/ (Speaking /\ inflight' = 0 /\ session \in {"transcribing", "sending"}))

-----------------------------------------------------------------------------
(* The controller.                                                          *)

(* on_message: submit().                                                     *)
Submit(m) ==
  /\ LoopFree /\ m \in Messages \ said
  /\ said' = said \cup {m}
  /\ IF failed THEN UNCHANGED <<queue, inflight>>
     ELSE queue' = Append(queue, m) /\ inflight' = inflight + 1
  /\ UNCHANGED <<speaker, failed, engine, room, backlog, session, listening, dropped, after, late, own, deaf>>

BacklogUncounted == inflight        \* faulty variant
BacklogDropped == inflight - Len(queue)

(* A line typed while the agent speaks: interrupt(); sd.stop() ends a wait    *)
(* that has begun, not one that is about to.                                 *)
Interrupt ==
  /\ LoopFree /\ Speaking /\ ~failed
  /\ queue' = <<>> /\ inflight' = BacklogDropped
  /\ cut' = TRUE
  /\ thread' = IF thread = "play" THEN "render" ELSE thread
  /\ dropped' = said /\ NotesRelease
  /\ UNCHANGED <<speaker, failed, chunk, room, backlog, session, listening, said, after, own, deaf>>

LatchedKeeps == inflight   \* faulty variant: `continue' outside the try
(* _run's finally, for a message dropped because the latch is set.            *)
LatchedDrops == inflight - 1

NotCleared == cut          \* faulty variant: an interrupt outlives its utterance
FreshUtterance == FALSE    \* _interrupt.clear()

(* _run: dequeue, then speak() up to the start of its thread.                 *)
Take ==
  /\ LoopFree /\ speaker = "get" /\ queue # <<>>
  /\ queue' = Tail(queue)
  /\ IF failed
       THEN inflight' = LatchedDrops /\ UNCHANGED <<speaker, engine>>
       ELSE /\ speaker' = Head(queue)
            /\ cut' = FreshUtterance /\ thread' = "render" /\ chunk' = 0
            /\ UNCHANGED inflight
  /\ NotesRelease
  /\ UNCHANGED <<failed, room, backlog, session, listening, said, dropped, after, own, deaf>>

(* The thread is over and its future delivered: the floor is released, unless *)
(* more is queued.                                                          *)
Finish ==
  /\ LoopFree /\ ~(session = "wait" /\ backlog # <<>>)
  /\ thread \in {"ended", "raised"}
  /\ speaker' = "get" /\ inflight' = inflight - 1
  /\ failed' = (failed \/ thread = "raised")
  /\ thread' = "off" /\ chunk' = 0 /\ after' = 0
  /\ NotesRelease
  /\ UNCHANGED <<queue, cut, room, backlog, session, listening, said, dropped, own, deaf>>

-----------------------------------------------------------------------------
(* The engine's thread: _render_and_play.                                     *)

Abandoned == cut

Render ==
  /\ thread = "render"
  /\ thread' \in IF Abandoned THEN {"ended", "raised"}
                 ELSE IF chunk < Chunks THEN {"about", "ended", "raised"} ELSE {"ended", "raised"}
  /\ UNCHANGED <<controller, cut, chunk, room, backlog, session, listening, said, dropped, after, late, own, deaf>>

Play ==
  /\ thread = "about" /\ thread' = "play" /\ chunk' = chunk + 1
  /\ after' = IF speaker \in dropped THEN after + 1 ELSE after
  /\ UNCHANGED <<controller, cut, room, backlog, session, listening, said, dropped, late, own, deaf>>

ChunkEnds ==
  /\ thread = "play" /\ thread' = "render"
  /\ UNCHANGED <<controller, cut, chunk, room, backlog, session, listening, said, dropped, after, late, own, deaf>>

-----------------------------------------------------------------------------
(* The microphone.  The session handles a frame in less than a frame's time.  *)

Capture ==
  /\ session # "ended" /\ LoopFree /\ Len(backlog) < MaxBacklog
  /\ \E f \in Frame :
       /\ f = "echo" <=> (thread = "play" \/ room > 0)
       /\ backlog' = Append(backlog, f)
  /\ room' = IF thread = "play" THEN Room ELSE IF room > 0 THEN room - 1 ELSE 0
  /\ UNCHANGED <<controller, engine, session, listening, said, dropped, after, late, own, deaf>>

(* queue.get returns in the session.                                         *)
Listen ==
  /\ session = "wait" /\ backlog # <<>>
  /\ session' = "run"
  /\ UNCHANGED <<controller, engine, room, backlog, listening, said, dropped, after, late, own, deaf>>

-----------------------------------------------------------------------------
(* The session's loop over frames.                                           *)

NoGuard == 0   \* faulty variant: no mute after the floor is released
(* mute_tail for the frame at hand                                          *)
MuteTail == IF Speaking THEN Guard ELSE IF tail > 0 THEN tail - 1 ELSE 0

Muted == Speaking \/ MuteTail > 0
Resume == session' = IF Len(backlog) > 1 THEN "run" ELSE "wait"

(* The gate drops the frame, the partial utterance (_reset_silence) and the    *)
(* partial turn (assembler.clear).                                           *)
DropFrame ==
  /\ session = "run" /\ Muted
  /\ backlog' = Tail(backlog) /\ Resume
  /\ tail' = MuteTail
  /\ seg' = NoSeg /\ context' = <<>>
  /\ turn' = NoTurn /\ silence' = 0
  /\ UNCHANGED <<controller, engine, room, utterance, said, dropped, after, late, own, deaf>>

(* Segmenter.push before an onset; _begin_utterance.                          *)
Recent(f) == LET all == Append(context, Agents(f))
                 keep == PreRoll + StartFrames
             IN IF Len(all) > keep THEN Tail(all) ELSE all
Onset(f, speech) ==
  LET run == IF speech THEN seg.run + 1 ELSE 0 IN
  IF run < StartFrames THEN [seg EXCEPT !.run = run]
  ELSE [in |-> TRUE, run |-> run, len |-> Len(Recent(f)), count |-> run, trailing |-> 0,
        heard |-> UNION ToSet(Recent(f))]
(* ... and within an utterance.                                              *)
Extended(f, speech) ==
  [in |-> TRUE, run |-> seg.run, len |-> seg.len + 1, heard |-> seg.heard \cup Agents(f),
   count |-> IF speech THEN seg.count + 1 ELSE seg.count,
   trailing |-> IF speech THEN 0 ELSE seg.trailing + 1]
Closes(s) == s.in /\ (s.trailing >= SilenceFrames \/ s.len >= MaxFrames)

(* VoiceTurnAssembler.on_silence: has the human yielded the floor?            *)
Yielded(t, s) ==
  t.parts /\ (s >= (IF t.unfinished THEN ContinuationGap ELSE TurnGap) \/ t.length >= MaxTurn)

(* _commit hands the turn to on_turn, which prints it and sends it.           *)
Commit(t) ==
  /\ session' = "sending"
  /\ turn' = NoTurn
  /\ own' = (own \/ t.heard # {})

Hear ==
  /\ session = "run" /\ ~Muted
  /\ backlog' = Tail(backlog) /\ tail' = MuteTail
  /\ \E speech \in BOOLEAN :
       /\ Head(backlog) = "voice" => speech
       /\ Head(backlog) = "quiet" => ~speech
       /\ silence' = IF speech THEN 0 ELSE Capped(silence + 1, ContinuationGap)
       /\ LET f == Head(backlog)
              s == IF seg.in THEN Extended(f, speech) ELSE Onset(f, speech)
              over == seg.in /\ Closes(s)
              whole == over /\ s.count >= MinSpeech
          IN /\ seg' = IF over THEN NoSeg ELSE s
             /\ context' = IF seg.in THEN IF over THEN <<>> ELSE context ELSE Recent(f)
             /\ utterance' = IF whole THEN [heard |-> s.heard, length |-> s.len, silent |-> ~speech]
                             ELSE NoUtterance
             /\ IF whole THEN session' = "transcribing" /\ UNCHANGED <<turn, own>>
                ELSE IF ~speech /\ Yielded(turn, silence') THEN Commit(turn)
                ELSE Resume /\ UNCHANGED <<turn, own>>
  /\ UNCHANGED <<controller, engine, room, said, dropped, after, late, deaf>>

Continue == session' = IF backlog = <<>> THEN "wait" ELSE "run"

(* _emit after the transcription: the text joins the turn; or it is too short *)
(* or the transcriber raised, which is reported.  Then the silence of the      *)
(* utterance's last frame is looked at, as of before.                        *)
Transcribed ==
  /\ session = "transcribing"
  /\ \E text \in BOOLEAN, unfinished \in BOOLEAN :
       LET t == IF ~text THEN turn
                ELSE [heard |-> turn.heard \cup utterance.heard, parts |-> TRUE,
                      unfinished |-> unfinished, length |-> Capped(turn.length + utterance.length, MaxTurn)]
       IN IF utterance.silent /\ Yielded(t, silence) THEN Commit(t)
          ELSE turn' = t /\ Continue /\ UNCHANGED own
  /\ utterance' = NoUtterance
  /\ UNCHANGED <<controller, engine, room, backlog, tail, context, seg, silence, said, dropped, after,
                 late, deaf>>

(* An exception of on_turn passes through on_silence, outside of _emit's try, *)
(* to the handler of run(), which ends the session.                          *)
EndsSession == session' = "ended" /\ deaf' = TRUE

Sent ==
  /\ session = "sending"
  /\ \/ Continue /\ UNCHANGED deaf
     \/ EndsSession
  /\ UNCHANGED <<controller, engine, room, backlog, listening, said, dropped, after, late, own>>

-----------------------------------------------------------------------------
Init ==
  /\ queue = <<>> /\ speaker = "get" /\ inflight = 0 /\ failed = FALSE
  /\ cut = FALSE /\ thread = "off" /\ chunk = 0
  /\ room = 0 /\ backlog = <<>>
  /\ session = "wait" /\ tail = 0 /\ context = <<>> /\ seg = NoSeg /\ silence = 0
  /\ utterance = NoUtterance /\ turn = NoTurn
  /\ said = {} /\ dropped = {} /\ after = 0 /\ late = FALSE /\ own = FALSE /\ deaf = FALSE

Speaker == Take \/ Finish
Thread  == Render \/ Play \/ ChunkEnds
Session == Listen \/ DropFrame \/ Hear \/ Transcribed \/ Sent

Next == (\E m \in Messages : Submit(m)) \/ Interrupt \/ Capture \/ Speaker \/ Thread \/ Session

Spec == Init /\ [][Next]_vars

(* Coroutines and threads run: a ready coroutine although others keep taking  *)
(* the loop.  A synthesis ends, a transcription and a chat_send return.       *)
FairSpec == Spec /\ SF_vars(Speaker) /\ WF_vars(Thread) /\ WF_vars(Session)

-----------------------------------------------------------------------------
(* Properties.                                                              *)

TypeOK ==
  /\ queue \in Seq(Messages) /\ speaker \in Messages \cup {"get"}
  /\ inflight \in Nat /\ failed \in BOOLEAN /\ cut \in BOOLEAN
  /\ thread \in {"off", "render", "about", "play", "ended", "raised"} /\ chunk \in 0..Chunks
  /\ room \in 0..Room /\ backlog \in Seq(Frame)
  /\ session \in {"wait", "run", "transcribing", "sending", "ended"}
  /\ session = "run" => backlog # <<>>
  /\ tail \in 0..Guard /\ context \in Seq(Heard)
  /\ seg \in [in : BOOLEAN, run : Nat, len : Nat, count : Nat, trailing : Nat, heard : Heard]
  /\ turn \in [heard : Heard, parts : BOOLEAN, unfinished : BOOLEAN, length : 0..MaxTurn]
  /\ utterance \in [heard : Heard, length : Nat, silent : BOOLEAN]
  /\ silence \in 0..ContinuationGap
  /\ said \subseteq Messages /\ dropped \subseteq said /\ after \in Nat
  /\ {late, own, deaf} \subseteq BOOLEAN

(* `speaking' is the one authority on who holds the floor (36.5): it counts    *)
(* exactly what is queued or being spoken, through interrupts, failures and   *)
(* the latch, and while anything sounds the agent holds the floor.           *)
FloorIsExact ==
  /\ inflight = Len(queue) + (IF speaker = "get" THEN 0 ELSE 1)
  /\ thread # "off" => Speaking

(* A barge-in is obeyed, and only by what it was meant for: of a message that  *)
(* was submitted before it at most one more piece is begun, the one that was   *)
(* past its look at the flag when sd.stop() found nothing to stop              *)
(* (NoPieceAfterBargeIn), and nothing that came later is abandoned for it.     *)
BargeInIsObeyed ==
  /\ after <= 1
  /\ thread = "render" /\ cut => speaker \in dropped

(* DESIGN 36.5: "any input line while the agent is speaking reclaims the floor *)
(* immediately".  Violated: the worker looks at the flag, the line is typed,   *)
(* and the piece the worker was about to play is begun and played to its end.  *)
NoPieceAfterBargeIn == after = 0

(* The session hears the agent only if the floor became free while it was      *)
(* suspended: frames are judged when they are dequeued, and a transcription   *)
(* or a send keeps them waiting.  Without that, gate, guard and resets let    *)
(* no echo into a turn, by the pre-roll, a partial utterance or a partial     *)
(* turn.                                                                    *)
HearsItselfOnlyLate == own => late

(* However speech fails, is cut off or is latched off, the floor is given back *)
(* and the human is heard again.                                            *)
FloorIsGivenBack == Speaking ~> ~Speaking

(* DESIGN 36.5: "The agent's own speech therefore never reaches ingress."      *)
(* Violated: a message spoken while an utterance is transcribed.              *)
NeverHearsItself == ~own

(* session.py: "a per-utterance error (transcribe or ingress) is reported via   *)
(* on_error and the capture loop continues".  Violated: the assembler commits *)
(* outside of the handler that reports.                                      *)
IngressErrorKeepsListening == ~deaf
=============================================================================
