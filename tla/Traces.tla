-------------------------------- MODULE Traces --------------------------------
(***************************************************************************)
(* What the agent records of its own cycles, and what is read back.          *)
(*                                                                         *)
(*   handler --> insert_trace --> (model call) --> finalize_trace            *)
(*                     |                                                     *)
(*                     +--> trace_metrics, proactive_block_reasons           *)
(*                     +--> advance rate, dominance   (aca metrics)          *)
(*                     +--> outcome_note (what the model is told became of   *)
(*                          a human message that got no reply)               *)
(*                                                                         *)
(* The readers have only the row; the row's notes are text, rewritten by a   *)
(* later handler.  The truth a reading is compared with is kept in verdict.  *)
(*                                                                         *)
(* A note is the set of the words the readers look for in it: LIKE '%w%' is   *)
(* membership, and = is equality.  The row of a cycle is its index in log,   *)
(* which is in the order of created_at.                                     *)
(*                                                                         *)
(* TraceInit, TraceNext and TraceSpec leave the short names to Budgets, with  *)
(* which this module shares its proofs: both are about the same cycles.       *)
(***************************************************************************)
EXTENDS Naturals, Sequences, FiniteSets, SequencesExt

CONSTANTS
  Candidates,   \* topics, memories and intents a proactive cycle may be about
  Model,        \* Model[c]: the model that embedded c, 0 if nothing did
  Same,         \* pairs whose cosine reaches topic_dedup_cosine
  Near,         \* pairs whose cosine reaches semantic_neighbor_threshold
  Blank,        \* candidates whose vector is zero: to the default embedding worker, texts
                \* without a letter a-z, a digit or an apostrophe
  MaxCycles     \* bound: cycles in a behaviour

ASSUME ModelAssumption == Model \in [Candidates -> Nat]
ASSUME PairsAssumption == Same \subseteq SUBSET Candidates /\ Near \subseteq SUBSET Candidates
ASSUME BlankAssumption == Blank \subseteq Candidates
ASSUME BoundsAssumption == MaxCycles \in Nat \ {0}

VARIABLES
  log,       \* cognition_traces, in the order of created_at
  work,      \* work[i]: the model call of cycle i: "none", "open", "silent" (dispatched
             \* with output_eligible False), "over", "lost"
  verdict,   \* history: what really became of cycle i, "open" while nobody knows
  window     \* rows older than `since': window rows are out of it

traceVars == <<log, work, verdict, window>>

None == "none"        \* NULL in an action, a cycle_type or a candidate
NoNote == {}          \* NULL in notes

Proactive(row) == row.trigger = "wake"

Gates == {"budget", "cooldown", "mode_suppresses", "quiet_hours"}
Stale == {"newer_human", "candidate_resolved"}

-----------------------------------------------------------------------------
(* Writing.                                                                 *)

Room == Len(log) < MaxCycles

(* insert_trace, with the work of the cycle if it has any.                   *)
Insert(row, w, v) ==
  /\ log' = Append(log, row)
  /\ work' = Append(work, w)
  /\ verdict' = Append(verdict, v)
  /\ UNCHANGED window

NewNote(old, new) == new   \* faulty variant: SET notes=?, without the COALESCE
(* COALESCE(?, notes)                                                        *)
NoteAfter(old, new) == IF new = NoNote THEN old ELSE new

(* finalize_trace; the cycle's work is over.  The candidate is in the row     *)
(* since the wake; the readers look at it in rows that spoke, so it is left   *)
(* open until then.                                                         *)
Finalize(i, action, invalidated, note, v) ==
  /\ \E c \in IF Proactive(log[i]) /\ action = "speak" THEN Candidates ELSE {None} :
       log' = [log EXCEPT ![i].action = action, ![i].invalidated = invalidated,
                          ![i].note = NoteAfter(@, note), ![i].candidate = c]
  /\ work' = [work EXCEPT ![i] = "over"]
  /\ verdict' = [verdict EXCEPT ![i] = v]
  /\ UNCHANGED window

(* _trace of the wake handler, and of the human one.                         *)
WakeTrace(llm, action, note) ==
  [trigger |-> "wake", type |-> "proactive", candidate |-> None, llm |-> llm,
   action |-> action, invalidated |-> FALSE, note |-> note]
HumanTrace(type, llm, action, note) ==
  [trigger |-> "human", type |-> type, candidate |-> None, llm |-> llm,
   action |-> action, invalidated |-> FALSE, note |-> note]

(* A wake that ends before a model call.                                     *)
WakeEnds(note, v) == Insert(WakeTrace(FALSE, "silence", note), "none", v)

(* Nothing selected, too little worth, no call left in the budget.           *)
WakeIdle ==
  /\ Room
  /\ \/ WakeEnds({"nothing"}, "nothing")
     \/ WakeEnds({"low_worth"}, "low_worth")
     \/ WakeEnds({"llm", "budget"}, "budget")

(* The bucket of a gate: capability and mode share one.                      *)
GateBucket(g) == IF g = "mode_suppresses" THEN "mode_suppressed" ELSE g

(* _suppressed_note: the gate's reason first, then the discourse, then         *)
(* continuity.  For a RAW memory that was not worth enriching either, the     *)
(* note names that and not the gate, whichever it was.                       *)
WakeSuppressed ==
  /\ Room
  /\ \/ \E g \in Gates, note \in {"blocked", "enrichment_gated"} :
          WakeEnds(IF note = "blocked" THEN {note, g} ELSE {note}, GateBucket(g))
     \/ WakeEnds({"discourse_orphan"}, "discourse_orphan_wake")
     \/ WakeEnds({"continuity_repeat"}, "continuity_repeat_wake")

(* A proactive model call, to speak or only to enrich a memory.              *)
WakeDispatch ==
  /\ Room
  /\ \E w \in {"open", "silent"} :
       Insert(WakeTrace(TRUE, None, {"proactive_dispatch"}), w, "open")

(* _mandatory_path and _optional_path (silence_nothing, silence_low_worth or  *)
(* silence_stochastic).                                                     *)
Human ==
  /\ Room
  /\ \/ Insert(HumanTrace("mandatory", TRUE, None, {"mandatory_response"}), "open", "open")
     \/ Insert(HumanTrace("reactive", TRUE, None, {"reactive_optional"}), "open", "open")
     \/ Insert(HumanTrace("reactive", FALSE, "silence", {"silence"}), "none", "chose_silence")

Calling(i) == i \in DOMAIN log /\ work[i] \in {"open", "silent"}

(* _on_worker_failure, _on_parse_failure: only a mandatory cycle "failed".    *)
Fails(i) ==
  \E note \in {"worker_failure", "parse_failure"} :
    Finalize(i, IF log[i].type = "mandatory" THEN "failed" ELSE "silence", FALSE, {note}, "failed")

(* _apply_focus_transition's note: focus_set, focus_closed, ... or None      *)
FocusNotes == {NoNote, {"focus"}}

(* _finish_mandatory                                                         *)
FinishMandatory(i) ==
  /\ log[i].type = "mandatory"
  /\ \/ Finalize(i, "failed", FALSE, {"non_speak_for_mandatory"}, "failed")
     \/ \E note \in FocusNotes : Finalize(i, "speak", FALSE, note, "spoke")

(* _finish_reactive                                                          *)
FinishReactive(i) ==
  /\ log[i].type = "reactive"
  /\ \/ \E note \in FocusNotes : Finalize(i, "silence", FALSE, note, "chose_silence")
     \/ \E why \in Stale : Finalize(i, "silence", TRUE, {why}, "superseded")
     \/ \E note \in FocusNotes : Finalize(i, "speak", FALSE, note, "spoke")

(* _finish_proactive's checks, in the order in which they are made.          *)
Dropped(i, words, v) == Finalize(i, "silence", TRUE, {"pre_outbox"} \cup words, v)
FinishProactive(i) ==
  /\ log[i].type = "proactive"
  /\ \/ Finalize(i, "silence", FALSE, NoNote, "model_silence")
     \/ /\ work[i] = "silent"
        /\ Finalize(i, "silence", TRUE, {"enrichment_only"}, "enrichment_only")
     \/ /\ work[i] = "open"
        /\ \/ \E why \in Stale : Dropped(i, {why}, "superseded")
           \/ \E g \in Gates : Dropped(i, {g}, GateBucket(g))
           \/ Dropped(i, {"continuity_repeat"}, "continuity_repeat_recheck")
           \/ Dropped(i, {"discourse_orphan"}, "discourse_orphan_recheck")
           \/ \E r \in {"orphan", "repeat"} : Dropped(i, {"advancement", r}, "advancement")
           \/ Finalize(i, "speak", FALSE, NoNote, "spoke")

(* handle_llm_result, for a work item that is not COMPLETED.                 *)
ReduceResult(i) ==
  /\ Calling(i)
  /\ Fails(i) \/ FinishMandatory(i) \/ FinishReactive(i) \/ FinishProactive(i)

(* A crash between _fail_terminal's commit and the failure result's          *)
(* reduction: nobody runs the work again and its row is never finalized.     *)
ResultLost(i) ==
  /\ Calling(i)
  /\ work' = [work EXCEPT ![i] = "lost"]
  /\ UNCHANGED <<log, verdict, window>>

(* Time passes, and the oldest row is no longer recent.                      *)
RowAges == window < Len(log) /\ window' = window + 1 /\ UNCHANGED <<log, work, verdict>>

(* A database may hold rows written before cycle_type was a column.          *)
Legacy(row, v) ==
  log = <<[row EXCEPT !.type = None]>> /\ work = <<"none">> /\ verdict = <<v>>

TraceInit ==
  /\ \/ log = <<>> /\ work = <<>> /\ verdict = <<>>
     \/ Legacy(WakeTrace(FALSE, "silence", {"nothing"}), "nothing")
     \/ Legacy(HumanTrace(None, TRUE, "speak", {"mandatory_response"}), "spoke")
     \/ Legacy(HumanTrace(None, TRUE, "failed", {"parse_failure"}), "failed")
  /\ window = 0

TraceNext ==
  \/ WakeIdle \/ WakeSuppressed \/ WakeDispatch
  \/ Human
  \/ \E i \in 1..MaxCycles : ReduceResult(i) \/ ResultLost(i)
  \/ RowAges

TraceSpec == TraceInit /\ [][TraceNext]_traceVars

-----------------------------------------------------------------------------
(* Reading: aca metrics.                                                     *)

Rows(P(_)) == {i \in DOMAIN log : P(log[i])}
Count(P(_)) == Cardinality(Rows(P))

Spoke(row) == row.action = "speak"

(* The ratio's denominators by the notes, which finalize_trace rewrites.     *)
ByNotes ==   \* faulty variant
  [reactive  |-> Count(LAMBDA r : "reactive_optional" \in r.note),
   mandatory |-> Count(LAMBDA r : "mandatory_response" \in r.note)]
(* ... by cycle_type                                                         *)
HumanTotals ==
  [reactive  |-> Count(LAMBDA r : r.type = "reactive"),
   mandatory |-> Count(LAMBDA r : r.type = "mandatory")]

(* trace_metrics' counts over the whole log                                  *)
TraceMetrics ==
  [total           |-> Len(log),
   proactive       |-> Count(Proactive),
   dispatched      |-> Count(LAMBDA r : Proactive(r) /\ r.llm),
   proactive_spoke |-> Count(LAMBDA r : Proactive(r) /\ Spoke(r)),
   blocked         |-> Count(LAMBDA r : Proactive(r) /\ ~r.llm),
   reactive        |-> HumanTotals.reactive,
   mandatory       |-> HumanTotals.mandatory,
   unclassified    |-> Count(LAMBDA r : r.trigger = "human" /\ r.type = None),
   worker_failures |-> Count(LAMBDA r : "worker_failure" \in r.note)]

(* The candidates of the recent proactive rows that spoke, oldest first:     *)
(* proactive_spoken_candidates.                                             *)
Spoken ==
  FoldLeft(LAMBDA said, r : IF Proactive(r) /\ Spoke(r) THEN Append(said, r.candidate) ELSE said,
           <<>>, SubSeq(log, window + 1, Len(log)))

(* COUNT(candidate_id) - COUNT(DISTINCT candidate_id)                        *)
Repeated == Len(Spoken) - Cardinality({Spoken[k] : k \in DOMAIN Spoken})

(* _spoken_candidate_slots: a candidate without a vector is a hole.          *)
Hole(c) == Model[c] = 0

(* Cosines are compared within one model only.  A vector's cosine with itself  *)
(* is 1; a zero vector's is 0 with every vector, itself included.             *)
Within(pairs, c, d) ==
  /\ Model[c] = Model[d] /\ {c, d} \cap Blank = {}
  /\ c = d \/ {c, d} \in pairs

(* _advance_rate's band of a pair of consecutive speaks                      *)
Band(c, d) ==
  CASE Hole(c) \/ Hole(d) \/ Model[c] # Model[d] -> "broken"
    [] OTHER -> IF Within(Same, c, d) THEN "repetition"
                ELSE IF Within(Near, c, d) THEN "advance" ELSE "switch"

AdvanceRate ==
  [band \in {"repetition", "advance", "switch"} |->
     Cardinality({k \in 1..(Len(Spoken) - 1) : Band(Spoken[k], Spoken[k+1]) = band})]

(* dominant_cluster_fraction: a vector joins the first cluster whose first    *)
(* member it is near to; a hole is dropped.  A cluster is the sequence of its *)
(* members.                                                                 *)
NearTo(clusters, c) == {j \in DOMAIN clusters : Within(Near, c, Head(clusters[j]))}
Join(clusters, c) ==
  IF Hole(c) THEN clusters
  ELSE IF NearTo(clusters, c) = {} THEN Append(clusters, <<c>>)
  ELSE [clusters EXCEPT ![Min(NearTo(clusters, c))] = Append(@, c)]

(* _semantic_dominance: of the candidates that have a vector, at least two   *)
Dominance(spoken) ==
  LET clusters == FoldLeft(Join, <<>>, spoken)
  IN  IF Cardinality({k \in DOMAIN spoken : ~Hole(spoken[k])}) < 2
        THEN 0 ELSE Max({Len(clusters[j]) : j \in DOMAIN clusters})

-----------------------------------------------------------------------------
(* Reading: why a proactive cycle did not speak.                             *)

Buckets == {"nothing", "low_worth", "budget", "cooldown", "quiet_hours", "mode_suppressed",
            "enrichment_gated", "discourse_orphan_wake", "continuity_repeat_wake",
            "discourse_orphan_recheck", "continuity_repeat_recheck", "advancement",
            "superseded", "model_silence", "enrichment_only", "failed", "other"}

(* _BLOCK_REASON_CASE, its conditions in their order                         *)
Bucket(row) ==
  LET note == row.note IN
  IF "advancement" \in note THEN "advancement"
  ELSE IF note \cap Stale # {} THEN "superseded"
  ELSE IF {"pre_outbox", "discourse_orphan"} \subseteq note THEN "discourse_orphan_recheck"
  ELSE IF {"pre_outbox", "continuity_repeat"} \subseteq note THEN "continuity_repeat_recheck"
  ELSE IF note = {"discourse_orphan"} THEN "discourse_orphan_wake"
  ELSE IF note = {"continuity_repeat"} THEN "continuity_repeat_wake"
  ELSE IF "enrichment_gated" \in note THEN "enrichment_gated"
  ELSE IF "budget" \in note THEN "budget"
  ELSE IF "cooldown" \in note THEN "cooldown"
  ELSE IF "quiet_hours" \in note THEN "quiet_hours"
  ELSE IF "mode_suppresses" \in note THEN "mode_suppressed"
  ELSE IF note = {"low_worth"} THEN "low_worth"
  ELSE IF note = {"nothing"} THEN "nothing"
  ELSE IF "enrichment_only" \in note THEN "enrichment_only"
  ELSE IF note = {"proactive_dispatch"} THEN "model_silence"
  ELSE IF note \cap {"worker_failure", "parse_failure"} # {} \/ row.action = "failed" THEN "failed"
  ELSE "other"

Resolved(row) == row.action \in {"silence", "failed"}

(* proactive_block_reasons                                                   *)
BlockReasons ==
  [b \in Buckets |-> Count(LAMBDA r : Proactive(r) /\ Resolved(r) /\ Bucket(r) = b)]

-----------------------------------------------------------------------------
(* Reading: what the model is told of a human message without a reply.       *)

SilenceNote(row) ==
  IF row.invalidated THEN "superseded"
  ELSE IF row.note \cap {"worker_failure", "parse_failure"} # {} THEN "failed" ELSE "chose_silence"
OutcomeNote(row) ==
  CASE row.action = "failed"               -> "failed"
    [] row.action = "silence"              -> SilenceNote(row)
    [] row.action \notin {"failed", "silence"} -> "no note"

-----------------------------------------------------------------------------
(* Properties.                                                              *)

Sum(f) == FoldFunction(LAMBDA x, y : x + y, 0, f)

(* The classes of cycles add up to the log whatever later results wrote into  *)
(* the rows (work_store.py: "proactive+reactive+mandatory+unclassified ==     *)
(* total reconciles").                                                      *)
ClassesAddUp ==
  LET m == TraceMetrics IN
  /\ m.proactive + m.reactive + m.mandatory + m.unclassified = m.total
  /\ m.dispatched + m.blocked = m.proactive

(* The reasons for silence add up to the proactive cycles that neither spoke  *)
(* nor wait (proactive_block_reasons: "the values therefore sum to ...").     *)
ReasonsAddUp ==
  Sum(BlockReasons)
    = TraceMetrics.proactive - TraceMetrics.proactive_spoke
        - Count(LAMBDA r : Proactive(r) /\ r.action = None)

(* What can be compared; the speaks that repeat the one before               *)
Placed(c) == ~Hole(c) /\ c \notin Blank
PairsOf(P(_)) == {k \in 1..(Len(Spoken) - 1) : Spoken[k] = Spoken[k+1] /\ P(Spoken[k])}

(* A candidate the agent keeps voicing shows as a repetition and, if it has a *)
(* vector other than zero, as a theme at least as large, however the others   *)
(* fall around it; two in a row do not pass for an advance or a new thread.   *)
RepetitionShows ==
  /\ \A c \in Candidates :
       LET times == Cardinality({k \in DOMAIN Spoken : Spoken[k] = c})
       IN  times > 1 => /\ Repeated >= times - 1
                        /\ Placed(c) => Dominance(Spoken) >= times
  /\ Cardinality(PairsOf(Placed)) <= AdvanceRate["repetition"]

(* _advance_rate leaves out "an un-embeddable speak (a hole)" and calls a      *)
(* "near-paraphrase" a repetition.  A candidate with a zero vector is no hole, *)
(* and voiced twice in a row it is counted as a switch to a new thread.       *)
EveryRepetitionShows ==
  Cardinality(PairsOf(LAMBDA c : ~Hole(c))) <= AdvanceRate["repetition"]

(* The numbers of one report agree with each other, whichever handlers wrote  *)
(* and rewrote the rows, and in whatever order.                             *)
ReportReconciles == ClassesAddUp /\ ReasonsAddUp /\ RepetitionShows

(* The report blames the check that did stop the cycle, at the stage where it *)
(* did: the reader's order of patterns undoes what the handlers wrote.  Only  *)
(* under "enrichment_gated" it does not tell which of the gates it was.  And  *)
(* the agent is never told that it chose a silence that was a failure, or     *)
(* that a silence was a failure (conversation_notes.py).                     *)
ReasonIsTrue ==
  \A i \in DOMAIN log :
    /\ Proactive(log[i]) /\ Resolved(log[i]) =>
         \/ Bucket(log[i]) = verdict[i]
         \/ Bucket(log[i]) = "enrichment_gated" /\ \E g \in Gates : verdict[i] = GateBucket(g)
    /\ ~Proactive(log[i]) =>
         OutcomeNote(log[i]) = IF verdict[i] \in {"open", "spoke"} THEN "no note" ELSE verdict[i]

(* conversation_notes.py says of the outcome "superseded" "a newer message    *)
(* arrived before the reply".  It is also given when the candidate of an     *)
(* optional reply was merged or resolved meanwhile and no message came.      *)
SupersededByMessage ==
  \A i \in DOMAIN log :
    ~Proactive(log[i]) /\ OutcomeNote(log[i]) = "superseded" => "newer_human" \in log[i].note

(* server.py says of the dominance "Order is irrelevant here".  It is not:    *)
(* which vector opens a cluster decides who joins it.                        *)
DominanceIgnoresOrder == Dominance(Spoken) = Dominance(Reverse(Spoken))

=============================================================================
