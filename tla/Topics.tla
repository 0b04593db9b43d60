-------------------------------- MODULE Topics --------------------------------
(***************************************************************************)
(* The topics a memory is enriched into: their summary vectors, the merging  *)
(* of duplicates, the deferred intents that keep a topic open, and the        *)
(* suppression of what was just voiced.                                      *)
(*                                                                         *)
(*   memory --enrich--> topic --embedding job--> vector --> merge            *)
(*                        |                                   |              *)
(*              intents, in-flight rows, expressions, evidence move along    *)
(*                                                                         *)
(* Every action is one transaction of the reducer (or of the dispatcher, for *)
(* a lease and a failure).  A topic is named by the memory it was made from:  *)
(* that is its source_memory_id, for good.  Activation decays with time, so   *)
(* any item may be above the floor or below it; deferred intents as           *)
(* candidates of their own have no vector and take no part in merges, and     *)
(* are left out.  A wake's gates are in WakeScheduler and Discourse, the way  *)
(* of a row to the human in Delivery; here a row is what a merge and a result *)
(* make of it: pending, or superseded while its result is still to come.     *)
(***************************************************************************)
EXTENDS Integers, FiniteSets, FiniteSetsExt

CONSTANTS
  Memories,    \* provisional memories
  Intents,     \* ids of deferred intents
  Near,        \* pairs of candidates whose vectors reach topic_dedup_cosine
  Clash,       \* pairs of topics whose summaries conflict in polarity
  Embedded,    \* memories with a vector (it lands as Discourse describes)
  MaxModels,   \* bound: versions of the embedding model
  MaxOpen      \* bound: proactive calls, their rows and expressions at a time

Candidate == {"TOPIC", "MEMORY"} \X Memories

ASSUME EmbeddedAssumption == Embedded \subseteq Memories
ASSUME PairsAssumption == Near \subseteq SUBSET Candidate /\ Clash \subseteq SUBSET Memories
ASSUME BoundsAssumption == {MaxModels, MaxOpen} \subseteq Nat \ {0}
ASSUME NoneAssumption == "none" \notin Memories
ASSUME MemoriesAssumption == IsFiniteSet(Memories)

VARIABLES
  (* durable *)
  enrichment, \* enrichment[m]: ENRICHED or RAW, which stands for CLAIMED and
              \* DO_NOT_ENRICH too: they are enriched and compete alike
  topics,     \* live topics
  evidence,   \* evidence[t]: topic.evidence_count
  unfinished, \* topics with an open thread
  vector,     \* vector[c]: the model of the stored vector, 0 without one
  queued,     \* queued[t]: PENDING embedding jobs of topic t
  leased,     \* leased[t]: RUNNING ones
  intent,     \* intent[i]: status and topic_id
  thoughts,   \* thoughts[c]: proactive model calls about candidate c
  rows,       \* rows[c]: PENDING proactive rows about candidate c
  late,       \* late[c]: SUPERSEDED ones whose result is still to come: on the air,
              \* in the list of a suspended pass, or with the result in the queue
  expressed,  \* candidates with an expression inside the repeat window
  model,      \* the configured embedding model
  (* history *)
  stands,     \* stands[m]: the topic that stands for the enriched memory m
  voiced,     \* topics voiced inside the window, by the name they had then
  merged,     \* topics merged away
  overtaken,  \* those of them that a late row was about
  failed      \* topics whose last embedding job failed for good

work  == <<queued, leased, failed>>
speech == <<rows, late, expressed, voiced>>
pool  == <<thoughts, speech>>
graph == <<topics, evidence, unfinished, stands, merged, overtaken>>
vars  == <<enrichment, topics, evidence, unfinished, vector, queued, leased, intent,
           thoughts, rows, late, expressed, model, stands, voiced, merged,
           overtaken, failed>>

None == "none"
Topic(t) == <<"TOPIC", t>>
Memory(m) == <<"MEMORY", m>>
Open == MapThenSumSet(LAMBDA c : thoughts[c] + rows[c] + late[c], Candidate) + Cardinality(expressed)

-----------------------------------------------------------------------------
(* Proposals of a model result.                                             *)

(* _enrich_memory, for a summary that is lexically that of an existing topic  *)
(* without a polarity conflict, or of none: all that is known of the summary *)
(* is what _find_similar_topic makes of it.                                 *)
EnrichNew(m) ==
  /\ topics' = topics \cup {m}
  /\ evidence' = [evidence EXCEPT ![m] = 1]
  /\ queued' = [queued EXCEPT ![m] = @ + 1]
  /\ stands' = [stands EXCEPT ![m] = m]
Reinforce(m, t) ==
  /\ evidence' = [evidence EXCEPT ![t] = @ + 1]
  /\ stands' = [stands EXCEPT ![m] = t]
  /\ UNCHANGED <<topics, queued>>

Enrichable(m) == enrichment[m] # "ENRICHED"

EnrichMemory(m) ==
  /\ Enrichable(m)
  /\ enrichment' = [enrichment EXCEPT ![m] = "ENRICHED"]
  /\ EnrichNew(m) \/ \E t \in topics : Reinforce(m, t)
  /\ UNCHANGED <<unfinished, vector, leased, intent, pool, model, merged, overtaken, failed>>

(* _create_intent: the topic id comes from the model's snapshot, and may be    *)
(* that of a topic merged away since.                                        *)
CreateIntent(i, t) ==
  /\ intent[i].status = "none" /\ t \in topics \cup merged \cup {None}
  /\ intent' = [intent EXCEPT ![i] = [status |-> "pending", topic |-> t]]
  /\ unfinished' = unfinished \cup ({t} \cap topics)
  /\ UNCHANGED <<enrichment, topics, evidence, stands, merged, overtaken, vector, work, pool, model>>

OpenWithout(t, i) == \E j \in Intents \ {i} : intent[j] = [status |-> "pending", topic |-> t]
(* has_pending_intent_for_topic(exclude)                                     *)
StillOpen(t, i) == OpenWithout(t, i)

(* _resolve_intent, of an intent in any status                               *)
ResolveIntent(i) ==
  /\ intent[i].status # "none"
  /\ intent' = [intent EXCEPT ![i].status = "resolved"]
  /\ unfinished' = IF StillOpen(intent[i].topic, i) THEN unfinished
                   ELSE unfinished \ {intent[i].topic}
  /\ UNCHANGED <<enrichment, topics, evidence, stands, merged, overtaken, vector, work, pool, model>>

-----------------------------------------------------------------------------
(* Embedding.                                                               *)

Lease(t) ==
  /\ queued[t] > 0
  /\ queued' = [queued EXCEPT ![t] = @ - 1]
  /\ leased' = [leased EXCEPT ![t] = @ + 1]
  /\ UNCHANGED <<enrichment, graph, vector, intent, pool, model, failed>>

(* _fail_terminal: no event follows.                                        *)
JobFails(t) ==
  /\ leased[t] > 0
  /\ leased' = [leased EXCEPT ![t] = @ - 1]
  /\ failed' = failed \cup {t}
  /\ UNCHANGED <<enrichment, graph, vector, queued, intent, pool, model>>

HotDuplicates(t) ==   \* faulty variant: only hot topics are compared
  {o \in topics \ {t} : vector[Topic(o)] = model /\ {Topic(t), Topic(o)} \in Near
                        /\ {t, o} \notin Clash /\ o \in unfinished}
(* The topics embedded under the same model that t duplicates                *)
Duplicates(t) ==
  {o \in topics \ {t} : /\ vector[Topic(o)] = model
                        /\ {Topic(t), Topic(o)} \in Near
                        /\ {t, o} \notin Clash}

IntentsStay(t, best) == intent   \* faulty variant: intents keep the dead topic
(* reassign_topic_for_intents                                               *)
IntentsMoved(t, best) ==
  [i \in Intents |-> IF intent[i].topic = t THEN [intent[i] EXCEPT !.topic = best]
                     ELSE intent[i]]

ExpressionDropped(t, best) == expressed \ {Topic(t)}   \* faulty variant
(* merge_expression, and what delete_topic drops                             *)
ExpressionMoved(t, best) ==
  (expressed \ {Topic(t)}) \cup (IF Topic(t) \in expressed THEN {Topic(best)} ELSE {})

(* reassign_proactive_candidate: of the rows that are still pending            *)
RowsMoved(t, best) ==
  [rows EXCEPT ![Topic(best)] = @ + rows[Topic(t)], ![Topic(t)] = 0]

EvidenceOfBest(t, best) == [evidence EXCEPT ![t] = 0]   \* faulty variant
EvidenceMoved(t, best) ==
  [evidence EXCEPT ![best] = @ + evidence[t], ![t] = 0]

BestWasOpen(t, best) == best \in unfinished   \* faulty variant
(* best.unfinished, or has_pending_intent_for_topic(best), the intents moved    *)
OpenAfterMerge(t, best) ==
  \/ best \in unfinished
  \/ \E i \in Intents : IntentsMoved(t, best)[i] = [status |-> "pending", topic |-> best]

(* _merge_duplicate_topic.  A late row keeps naming the topic that goes.      *)
Merge(t, best) ==
  /\ intent' = IntentsMoved(t, best)
  /\ expressed' = ExpressionMoved(t, best)
  /\ rows' = RowsMoved(t, best)
  /\ unfinished' = (unfinished \ {t}) \cup (IF OpenAfterMerge(t, best) THEN {best} ELSE {})
  /\ evidence' = EvidenceMoved(t, best)
  /\ topics' = topics \ {t}
  /\ vector' = [vector EXCEPT ![Topic(t)] = 0]
  /\ stands' = [m \in Memories |-> IF stands[m] = t THEN best ELSE stands[m]]
  /\ merged' = merged \cup {t}
  /\ overtaken' = IF late[Topic(t)] > 0 THEN overtaken \cup {t} ELSE overtaken

(* handle_embedding_result, of a topic: the vector, then the merge into the   *)
(* most similar duplicate.                                                  *)
EmbedTopic(t) ==
  /\ leased[t] > 0
  /\ leased' = [leased EXCEPT ![t] = @ - 1]
  /\ IF t \in topics /\ Duplicates(t) # {}
       THEN \E best \in Duplicates(t) : Merge(t, best)
       ELSE /\ vector' = IF t \in topics THEN [vector EXCEPT ![Topic(t)] = model] ELSE vector
            /\ UNCHANGED <<intent, expressed, rows, graph>>
  /\ UNCHANGED <<enrichment, queued, thoughts, late, model, voiced, failed>>

PendingOnly == {t \in Memories : queued[t] > 0}   \* faulty variant: a leased job is missed
(* active_embedding_topic_ids                                               *)
InFlightJobs == {t \in Memories : queued[t] + leased[t] > 0}

(* handle_reconcile_embeddings, on demand; fewer than _MAX_PER_RECONCILE       *)
Backfill == {t \in topics : vector[Topic(t)] = 0} \ InFlightJobs
Reconcile ==
  /\ Backfill # {}
  /\ queued' = [t \in Memories |-> IF t \in Backfill THEN queued[t] + 1 ELSE queued[t]]
  /\ failed' = failed \ Backfill
  /\ UNCHANGED <<enrichment, graph, vector, leased, intent, pool, model>>

(* A restart requeues the leased jobs; the configured model may change.  The    *)
(* results under way are lost: what was late stays superseded.               *)
Restart ==
  /\ queued' = [t \in Memories |-> queued[t] + leased[t]]
  /\ leased' = [t \in Memories |-> 0]
  /\ \E v \in {model, model + 1} : v <= MaxModels /\ model' = v
  /\ late' = [c \in Candidate |-> 0]
  /\ UNCHANGED <<enrichment, graph, vector, intent, thoughts, rows, expressed, voiced, failed>>

-----------------------------------------------------------------------------
(* Proactive cycles.                                                        *)

Suppressed(c) == c \in expressed \/ rows[c] > 0
(* build_candidates, up to the activation of each item                       *)
Pool ==
  {Topic(t) : t \in {u \in topics : ~Suppressed(Topic(u)) /\ ~Suppressed(Memory(u))}}
    \cup {Memory(m) : m \in {n \in Memories : enrichment[n] # "ENRICHED" /\ ~Suppressed(Memory(n))}}

(* is_semantic_repeat                                                        *)
IsRepeat(c) ==
  /\ vector[c] # 0
  /\ \E o \in Candidate \ {c} :
       Suppressed(o) /\ vector[o] = vector[c] /\ {c, o} \in Near

(* handle_stochastic_wake, when it dispatches a call that may speak           *)
Wake(c) ==
  /\ c \in Pool /\ ~IsRepeat(c) /\ Open < MaxOpen
  /\ thoughts' = [thoughts EXCEPT ![c] = @ + 1]
  /\ UNCHANGED <<enrichment, graph, vector, work, intent, speech, model>>

(* _candidate_invalidated                                                   *)
Invalidated(c) == c[1] = "TOPIC" /\ c[2] \notin topics

(* create_outbound, of a row about c: it supersedes every pending one, and of  *)
(* those the rows about L are still to have a result.                        *)
Supersede(c, L) ==
  /\ rows' = [d \in Candidate |-> IF d = c THEN 1 ELSE 0]
  /\ late' = [d \in Candidate |-> IF d \in L THEN late[d] + rows[d] ELSE late[d]]

(* _finish_proactive: silence, or a row.                                     *)
FinishThought(c) ==
  /\ thoughts[c] > 0
  /\ thoughts' = [thoughts EXCEPT ![c] = @ - 1]
  /\ \/ UNCHANGED <<rows, late>>
     \/ /\ ~Invalidated(c) /\ ~IsRepeat(c)
        /\ \E L \in SUBSET {d \in Candidate : rows[d] > 0} : Supersede(c, L)
  /\ UNCHANGED <<enrichment, graph, vector, work, intent, expressed, voiced, model>>

(* record_expression, for the candidate the row names.                        *)
Voice(c) ==
  /\ expressed' = expressed \cup {c}
  /\ voiced' = IF c[1] = "TOPIC" THEN voiced \cup {c[2]} ELSE voiced

Beside == <<enrichment, graph, vector, work, intent, thoughts, model>>

(* handle_delivery_result, of a pending row: delivered, or dropped on the way.  *)
Deliver(c) ==
  /\ rows[c] > 0
  /\ rows' = [rows EXCEPT ![c] = @ - 1]
  /\ Voice(c)
  /\ UNCHANGED <<Beside, late>>
Drop(c) ==
  /\ rows[c] > 0
  /\ rows' = [rows EXCEPT ![c] = @ - 1]
  /\ UNCHANGED <<Beside, late, expressed, voiced>>

(* The same of a row superseded meanwhile, whose status is not looked at: it is *)
(* delivered all the same, pending again when no client was there, or dropped. *)
LateDelivered(c) ==
  /\ late[c] > 0
  /\ late' = [late EXCEPT ![c] = @ - 1]
  /\ Voice(c)
  /\ UNCHANGED <<Beside, rows>>
LateHeld(c) ==
  /\ late[c] > 0
  /\ late' = [late EXCEPT ![c] = @ - 1]
  /\ rows' = [rows EXCEPT ![c] = @ + 1]
  /\ UNCHANGED <<Beside, expressed, voiced>>
LateDropped(c) ==
  /\ late[c] > 0
  /\ late' = [late EXCEPT ![c] = @ - 1]
  /\ UNCHANGED <<Beside, rows, expressed, voiced>>

(* repeat_suppression_seconds pass since c was voiced.                        *)
WindowPasses(c) ==
  /\ c \in expressed
  /\ expressed' = expressed \ {c}
  /\ voiced' = IF c[1] = "TOPIC" THEN {t \in voiced : c[2] \notin {t, stands[t]}} ELSE voiced
  /\ UNCHANGED <<Beside, rows, late>>

-----------------------------------------------------------------------------
Init ==
  /\ enrichment = [m \in Memories |-> "RAW"]
  /\ topics = {} /\ unfinished = {} /\ merged = {} /\ overtaken = {} /\ voiced = {} /\ failed = {}
  /\ evidence = [m \in Memories |-> 0]
  /\ vector = [c \in Candidate |-> IF c \in {Memory(m) : m \in Embedded} THEN 1 ELSE 0]
  /\ queued = [m \in Memories |-> 0] /\ leased = queued
  /\ intent = [i \in Intents |-> [status |-> "none", topic |-> None]]
  /\ thoughts = [c \in Candidate |-> 0] /\ rows = thoughts /\ late = thoughts
  /\ expressed = {} /\ model = 1
  /\ stands = [m \in Memories |-> None]

Next ==
  \/ \E m \in Memories :
       \/ EnrichMemory(m)
       \/ Lease(m) \/ JobFails(m) \/ EmbedTopic(m)
  \/ \E i \in Intents : ResolveIntent(i) \/ \E t \in Memories \cup {None} : CreateIntent(i, t)
  \/ \E c \in Candidate :
       \/ Wake(c) \/ FinishThought(c) \/ Deliver(c) \/ Drop(c) \/ WindowPasses(c)
       \/ LateDelivered(c) \/ LateHeld(c) \/ LateDropped(c)
  \/ Reconcile \/ Restart

Spec == Init /\ [][Next]_vars

-----------------------------------------------------------------------------
(* Properties.                                                              *)

TypeOK ==
  /\ enrichment \in [Memories -> {"RAW", "ENRICHED"}]
  /\ topics \subseteq Memories /\ unfinished \subseteq topics
  /\ evidence \in [Memories -> Nat]
  /\ vector \in [Candidate -> 0..MaxModels]
  /\ queued \in [Memories -> Nat] /\ leased \in [Memories -> Nat]
  /\ intent \in [Intents -> [status : {"none", "pending", "resolved"}, topic : Memories \cup {None}]]
  /\ thoughts \in [Candidate -> Nat] /\ rows \in [Candidate -> Nat]
  /\ late \in [Candidate -> Nat]
  /\ expressed \subseteq Candidate /\ model \in 1..MaxModels
  /\ stands \in [Memories -> topics \cup {None}]
  /\ voiced \subseteq Memories /\ failed \subseteq Memories
  /\ merged \subseteq Memories \ topics /\ overtaken \subseteq merged

(* Dedup is identity (12.3): whatever the order in which vectors arrive, no    *)
(* two live topics embedded under one model are near-duplicates, unless their *)
(* polarity conflicts.                                                      *)
NoLiveDuplicates ==
  \A t \in topics : \A o \in topics \ {t} :
    (vector[Topic(t)] # 0 /\ vector[Topic(t)] = vector[Topic(o)]) =>
      {Topic(t), Topic(o)} \notin Near \/ {t, o} \in Clash

(* Every topic without a vector has exactly one embedding job, or none after  *)
(* a final failure, however enrichment, restarts and reconciliations mix      *)
(* (active_embedding_topic_ids); a topic with a vector has none.             *)
OneJobPerBlindTopic ==
  \A t \in topics :
    IF vector[Topic(t)] # 0 THEN queued[t] + leased[t] = 0
    ELSE queued[t] + leased[t] = (IF t \in failed THEN 0 ELSE 1)

(* A topic is unfinished exactly when a pending intent points at it (12.7),    *)
(* through creations, resolutions and merges.                               *)
UnfinishedIffOpen ==
  unfinished = {t \in topics : \E i \in Intents :
                   intent[i] = [status |-> "pending", topic |-> t]}

(* Every enriched memory counts once: the evidence of the live topics is the   *)
(* number of enriched memories, and of each the number of memories it stands  *)
(* for (invariant 23, 12.3).                                                *)
EvidenceConserved ==
  \A t \in Memories : evidence[t] = Cardinality({m \in Memories : stands[m] = t})

(* A thread is not dropped by a merge: an intent attached to a live topic stays *)
(* attached to one (reassign_topic_for_intents).                             *)
IntentsStayAttached ==
  [][\A i \in Intents : intent[i].topic \in topics => intent'[i].topic \in topics']_vars

(* What was voiced is not voiced again under another name: a topic voiced       *)
(* inside the window is suppressed under whatever topic it was merged into    *)
(* since (merge_expression), and no pending row or expression, which would    *)
(* suppress nothing, names a topic that is gone (reassign_proactive_candidate).*)
(* Except for a topic merged away while a superseded row about it had its      *)
(* result still to come: the merge does not reassign that row, and its result *)
(* is recorded for the topic that is gone (SuppressionFollowsMerge).  Of such *)
(* a topic the expression is at least on record, under its old name.         *)
VoicedStaysSuppressed ==
  /\ \A t \in voiced :
       \/ Topic(stands[t]) \in expressed
       \/ t \in overtaken /\ Topic(t) \in expressed
  /\ \A t \in Memories \ (topics \cup overtaken) :
       rows[Topic(t)] = 0 /\ late[Topic(t)] = 0 /\ Topic(t) \notin expressed

(* What the merge's comment says without that exception (embedding_result.py): *)
(* "Suppression must follow the merge, or the *consolidated* identity becomes  *)
(* the one that nags".  Violated: a row about t is superseded while it is on  *)
(* the air, t is merged into another topic, then the row's result arrives.    *)
SuppressionFollowsMerge ==
  \A t \in merged : rows[Topic(t)] = 0 /\ Topic(t) \notin expressed

-----------------------------------------------------------------------------
(* What it all comes to.                                                    *)

(* The memories a topic stands for                                          *)
Of(t) == {m \in Memories : stands[m] = t}

(* The subject behind a topic id; a topic that is gone has none.               *)
SubjectOf(t) == IF t \in topics THEN Of(t) ELSE {}

Interests == INSTANCE Subjects WITH
  subjects <- {Of(t) : t \in topics},
  thread   <- [i \in Intents |-> [status |-> intent[i].status,
                                 about  |-> SubjectOf(intent[i].topic)]],
  quiet    <- {Of(t) : t \in {u \in topics : Topic(u) \in expressed}}

(* Enrichment, embedding jobs, merges, restarts and proactive cycles keep what *)
(* Subjects promises: each of their steps is one of its steps or none.  In     *)
(* particular a merge takes the intents and the recent expression of the topic *)
(* it deletes along, at once, and only a merge ever unites two subjects.  A    *)
(* late result about a topic that is gone is none of its steps: no subject     *)
(* falls silent for it.                                                     *)
KeepsSubjects == Interests!Spec
=============================================================================
