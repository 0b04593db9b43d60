---------------------------- MODULE TopicsProofs ----------------------------
(***************************************************************************)
(* TLAPS proofs about Topics, for any finite set of memories, any intents,    *)
(* any resemblance of their vectors and any bounds: type correctness, and     *)
(* that topics, their jobs, intents, evidence and expressions stay consistent *)
(* through enrichment, merging, restarts and proactive cycles, and that Topics *)
(* implements Subjects.                                                     *)
(***************************************************************************)
EXTENDS Topics, FiniteSetTheorems, TLAPS

IntentType == [status : {"none", "pending", "resolved"}, topic : Memories \cup {None}]

(* Only an enriched memory made a topic.                                     *)
EnrichedInv == \A m \in topics \cup merged : enrichment[m] = "ENRICHED"
Types == TypeOK /\ EnrichedInv

(* Names of candidates.                                                     *)
LEMMA Names ==
  ASSUME NEW t \in Memories, NEW u \in Memories
  PROVE  /\ Topic(t) \in Candidate /\ Memory(t) \in Candidate
         /\ Topic(t) = Topic(u) => t = u
         /\ Topic(t) # Memory(u)
         /\ Topic(t)[1] = "TOPIC" /\ Topic(t)[2] = t
BY DEF Topic, Memory, Candidate

LEMMA Split ==
  ASSUME NEW c \in Candidate
  PROVE  /\ c[2] \in Memories
         /\ c[1] = "TOPIC" => c = Topic(c[2])
         /\ c[1] # "TOPIC" => \A t \in Memories : c # Topic(t)
BY DEF Topic, Candidate

-----------------------------------------------------------------------------
(* Types.                                                                   *)

LEMMA InitTypes == Init => Types
<1> SUFFICES ASSUME Init PROVE Types
  OBVIOUS
<1>1. MaxModels \in Nat \ {0}
  BY BoundsAssumption
<1>2. vector \in [Candidate -> 0..MaxModels] /\ model \in 1..MaxModels
  BY <1>1 DEF Init
<1>3. intent \in [Intents -> IntentType]
  BY DEF Init, IntentType
<1>4. stands \in [Memories -> topics \cup {None}]
  BY DEF Init
<1> QED
  BY <1>2, <1>3, <1>4 DEF Init, Types, TypeOK, EnrichedInv, IntentType

(* The merge of t into a live topic.                                         *)
LEMMA MergeTypes ==
  ASSUME TypeOK, NEW t \in topics, NEW best \in topics \ {t}, Merge(t, best)
  PROVE  /\ topics' = topics \ {t} /\ unfinished' \subseteq topics' /\ merged' = merged \cup {t}
         /\ overtaken' \subseteq merged'
         /\ evidence' \in [Memories -> Nat] /\ vector' \in [Candidate -> 0..MaxModels]
         /\ intent' \in [Intents -> IntentType] /\ rows' \in [Candidate -> Nat]
         /\ expressed' \subseteq Candidate /\ stands' \in [Memories -> topics' \cup {None}]
<1>1. /\ t \in Memories /\ best \in Memories /\ Topic(t) \in Candidate /\ Topic(best) \in Candidate
      /\ MaxModels \in Nat
  BY Names, BoundsAssumption DEF TypeOK
<1>2. topics' = topics \ {t} /\ unfinished' \subseteq topics' /\ merged' = merged \cup {t}
      /\ overtaken' \subseteq merged'
  BY DEF Merge, TypeOK
<1>3. evidence' \in [Memories -> Nat]
  BY <1>1 DEF Merge, EvidenceMoved, TypeOK
<1>4. vector' \in [Candidate -> 0..MaxModels]
  BY <1>1 DEF Merge, TypeOK
<1>5. intent' \in [Intents -> IntentType]
  <2>1. \A i \in Intents : IntentsMoved(t, best)[i] \in IntentType
    BY <1>1 DEF IntentsMoved, IntentType, TypeOK
  <2> QED
    BY <2>1 DEF Merge, IntentsMoved
<1>6. rows' \in [Candidate -> Nat]
  BY <1>1 DEF Merge, RowsMoved, TypeOK
<1>7. expressed' \subseteq Candidate
  BY <1>1 DEF Merge, ExpressionMoved, TypeOK
<1>8. stands' \in [Memories -> topics' \cup {None}]
  BY <1>1, <1>2 DEF Merge, TypeOK
<1> QED
  BY <1>2, <1>3, <1>4, <1>5, <1>6, <1>7, <1>8

LEMMA StepTypes == Types /\ [Next]_vars => Types'
<1> SUFFICES ASSUME Types, [Next]_vars PROVE Types'
  OBVIOUS
<1> USE DEF IntentType
<1> USE DEF Types
<1>0. intent \in [Intents -> IntentType] /\ MaxModels \in Nat \ {0}
  BY BoundsAssumption DEF TypeOK, EnrichedInv
<1>1. ASSUME NEW m \in Memories, EnrichMemory(m) PROVE Types'
  <2>1. CASE EnrichNew(m)
    BY <1>1, <2>1 DEF EnrichMemory, Enrichable, EnrichNew, TypeOK, EnrichedInv, pool, speech
  <2>2. ASSUME NEW t \in topics, Reinforce(m, t) PROVE Types'
    BY <1>1, <2>2 DEF EnrichMemory, Enrichable, Reinforce, TypeOK, EnrichedInv, pool, speech
  <2> QED
    BY <1>1, <2>1, <2>2 DEF EnrichMemory
<1>3. ASSUME NEW i \in Intents, NEW t \in Memories \cup {None}, CreateIntent(i, t) PROVE Types'
  BY <1>3 DEF CreateIntent, TypeOK, EnrichedInv, work, pool, speech
<1>4. ASSUME NEW i \in Intents, ResolveIntent(i) PROVE Types'
  BY <1>0, <1>4 DEF ResolveIntent, TypeOK, EnrichedInv, work, pool, speech
<1>5. ASSUME NEW t \in Memories, Lease(t) PROVE Types'
  BY <1>5 DEF Lease, TypeOK, EnrichedInv, graph, pool, speech
<1>6. ASSUME NEW t \in Memories, JobFails(t) PROVE Types'
  BY <1>6 DEF JobFails, TypeOK, EnrichedInv, graph, pool, speech
<1>7. ASSUME NEW t \in Memories, EmbedTopic(t) PROVE Types'
  <2>1. leased' \in [Memories -> Nat]
    BY <1>7 DEF EmbedTopic, TypeOK, EnrichedInv
  <2>2. ASSUME t \in topics, NEW best \in Duplicates(t), Merge(t, best) PROVE Types'
    <3>1. best \in topics \ {t}
      BY <2>2 DEF Duplicates
    <3>2. /\ topics' = topics \ {t} /\ unfinished' \subseteq topics' /\ merged' = merged \cup {t}
          /\ overtaken' \subseteq merged'
          /\ evidence' \in [Memories -> Nat] /\ vector' \in [Candidate -> 0..MaxModels]
          /\ intent' \in [Intents -> IntentType] /\ rows' \in [Candidate -> Nat]
          /\ expressed' \subseteq Candidate /\ stands' \in [Memories -> topics' \cup {None}]
      BY <2>2, <3>1, MergeTypes
    <3>3. UNCHANGED <<enrichment, queued, thoughts, late, model, voiced, failed>>
      BY <1>7 DEF EmbedTopic
    <3> QED
      BY <2>1, <2>2, <3>2, <3>3 DEF TypeOK, EnrichedInv
  <2>3. CASE UNCHANGED <<intent, expressed, rows, graph>>
             /\ vector' = IF t \in topics THEN [vector EXCEPT ![Topic(t)] = model] ELSE vector
    <3>1. model \in 0..MaxModels /\ vector \in [Candidate -> 0..MaxModels]
      BY <1>0 DEF TypeOK
    <3>2. vector' \in [Candidate -> 0..MaxModels]
      BY <2>3, <3>1
    <3> QED
      BY <1>7, <2>1, <2>3, <3>2 DEF EmbedTopic, TypeOK, EnrichedInv, graph
  <2> QED
    BY <1>7, <2>2, <2>3 DEF EmbedTopic
<1>8. CASE Reconcile
  BY <1>8 DEF Reconcile, TypeOK, EnrichedInv, graph, pool, speech
<1>9. CASE Restart
  BY <1>0, <1>9 DEF Restart, TypeOK, EnrichedInv, graph, pool, speech
<1>10. ASSUME NEW c \in Candidate, Wake(c) PROVE Types'
  BY <1>10 DEF Wake, TypeOK, EnrichedInv, graph, work, speech
<1>11. ASSUME NEW c \in Candidate, FinishThought(c) PROVE Types'
  <2>1. rows' \in [Candidate -> Nat] /\ late' \in [Candidate -> Nat]
    <3>1. CASE UNCHANGED <<rows, late>>
      BY <3>1 DEF TypeOK
    <3>2. ASSUME NEW L \in SUBSET {d \in Candidate : rows[d] > 0}, Supersede(c, L)
          PROVE  rows' \in [Candidate -> Nat] /\ late' \in [Candidate -> Nat]
      BY <3>2 DEF Supersede, TypeOK
    <3> QED
      BY <1>11, <3>1, <3>2 DEF FinishThought
  <2>2. /\ thoughts' = [thoughts EXCEPT ![c] = @ - 1] /\ thoughts[c] > 0
        /\ UNCHANGED <<enrichment, graph, vector, work, intent, expressed, voiced, model>>
    BY <1>11 DEF FinishThought
  <2> QED
    BY <2>1, <2>2 DEF TypeOK, EnrichedInv, graph, work
<1>12. ASSUME NEW c \in Candidate, Deliver(c) \/ LateDelivered(c) PROVE Types'
  <2>1. voiced' \subseteq Memories /\ expressed' \subseteq Candidate
    BY <1>12, Split DEF Deliver, LateDelivered, Voice, TypeOK, EnrichedInv
  <2> QED
    BY <1>12, <2>1 DEF Deliver, LateDelivered, Beside, TypeOK, EnrichedInv, graph, work
<1>13. ASSUME NEW c \in Candidate, Drop(c) \/ LateHeld(c) \/ LateDropped(c) PROVE Types'
  BY <1>13 DEF Drop, LateHeld, LateDropped, Beside, TypeOK, EnrichedInv, graph, work
<1>14. ASSUME NEW c \in Candidate, WindowPasses(c) PROVE Types'
  <2>1. voiced' \subseteq voiced
    BY <1>14 DEF WindowPasses
  <2> QED
    BY <1>14, <2>1 DEF WindowPasses, Beside, TypeOK, EnrichedInv, graph, work
<1>15. CASE UNCHANGED vars
  BY <1>15 DEF vars, TypeOK, EnrichedInv
<1> QED
  BY <1>1, <1>3, <1>4, <1>5, <1>6, <1>7, <1>8, <1>9, <1>10, <1>11, <1>12, <1>13, <1>14, <1>15
     DEF Next

LEMMA TypesHold == Spec => []Types
BY InitTypes, StepTypes, PTL DEF Spec

(* Every reachable state is well typed: unfinished topics are live, a merged   *)
(* memory stands for a live topic, a topic merged away stays gone.            *)
THEOREM TypeCorrect == Spec => []TypeOK
<1>1. Types => TypeOK
  BY DEF Types
<1> QED
  BY <1>1, TypesHold, PTL

-----------------------------------------------------------------------------
(* Topics, intents and evidence.                                             *)

(* A live topic stands for its own memory, a memory not yet enriched for none. *)
HomeInv  == /\ \A t \in topics : stands[t] = t
            /\ \A m \in Memories : enrichment[m] # "ENRICHED" => stands[m] = None
(* An intent points at a topic that is or was.                               *)
AttachedInv == \A i \in Intents : /\ intent[i].topic \in topics \cup merged \cup {None}
                                  /\ intent[i].status = "none" => intent[i].topic = None
GraphInv == HomeInv /\ AttachedInv /\ UnfinishedIffOpen /\ EvidenceConserved

LEMMA InitGraph == Init => GraphInv
<1> SUFFICES ASSUME Init PROVE GraphInv
  OBVIOUS
<1>1. HomeInv /\ AttachedInv /\ UnfinishedIffOpen
  BY DEF Init, HomeInv, AttachedInv, UnfinishedIffOpen
<1>2. \A t \in Memories : {m \in Memories : stands[m] = t} = {}
  BY NoneAssumption DEF Init, None
<1>3. EvidenceConserved
  BY <1>2, FS_EmptySet DEF Init, EvidenceConserved
<1> QED
  BY <1>1, <1>3 DEF GraphInv

(* The steps that touch neither topics nor intents.                           *)
LEMMA GraphFrame ==
  ASSUME Types, [Next]_vars
  PROVE  \/ \E m \in Memories : EnrichMemory(m)
         \/ \E i \in Intents : ResolveIntent(i) \/ \E t \in Memories \cup {None} : CreateIntent(i, t)
         \/ \E t \in Memories : EmbedTopic(t)
         \/ /\ UNCHANGED <<topics, merged, intent, unfinished, evidence, stands>>
            /\ \A m \in Memories : enrichment'[m] # "ENRICHED" => enrichment[m] # "ENRICHED"
<1> DEFINE Same == /\ UNCHANGED <<topics, merged, intent, unfinished, evidence, stands>>
                   /\ \A m \in Memories : enrichment'[m] # "ENRICHED" => enrichment[m] # "ENRICHED"
<1>2. ASSUME NEW m \in Memories, Lease(m) \/ JobFails(m) PROVE Same
  BY <1>2 DEF Lease, JobFails, graph
<1>3. ASSUME NEW c \in Candidate,
             \/ Wake(c) \/ FinishThought(c) \/ Deliver(c) \/ Drop(c) \/ WindowPasses(c)
             \/ LateDelivered(c) \/ LateHeld(c) \/ LateDropped(c)
      PROVE  Same
  BY <1>3 DEF Wake, FinishThought, Deliver, Drop, WindowPasses, LateDelivered, LateHeld,
              LateDropped, Beside, graph
<1>4. CASE Reconcile \/ Restart \/ UNCHANGED vars
  BY <1>4 DEF Reconcile, Restart, graph, vars
<1> QED
  BY <1>2, <1>3, <1>4 DEF Next

(* Enrichment gives one memory to one topic.                                  *)
LEMMA EnrichGraph ==
  ASSUME Types, GraphInv, NEW m \in Memories, EnrichMemory(m)
  PROVE  GraphInv'
<1>1. /\ m \notin topics /\ m \notin merged /\ stands[m] = None
      /\ enrichment' = [enrichment EXCEPT ![m] = "ENRICHED"]
      /\ intent' = intent /\ unfinished' = unfinished /\ merged' = merged
      /\ enrichment \in [Memories -> {"RAW", "ENRICHED"}]
      /\ evidence \in [Memories -> Nat] /\ stands \in [Memories -> topics \cup {None}]
      /\ topics \subseteq Memories /\ None \notin Memories
  BY NoneAssumption DEF EnrichMemory, Enrichable, Types, TypeOK, EnrichedInv, GraphInv, HomeInv, None
<1>2. ASSUME NEW t \in Memories, stands' = [stands EXCEPT ![m] = t]
      PROVE  /\ \A u \in Memories \ {t} : Of(u)' = Of(u)
             /\ Of(t)' = Of(t) \cup {m} /\ Cardinality(Of(t)') = Cardinality(Of(t)) + 1
  <2>1. Of(t)' = Of(t) \cup {m}
    BY <1>1, <1>2 DEF Of
  <2>2. \A u \in Memories \ {t} : Of(u)' = Of(u)
    BY <1>1, <1>2 DEF Of
  <2>3. IsFiniteSet(Of(t)) /\ m \notin Of(t)
    BY <1>1, <1>2, MemoriesAssumption, FS_Subset DEF Of
  <2>4. Cardinality(Of(t) \cup {m}) = Cardinality(Of(t)) + 1
    BY <2>3, FS_AddElement
  <2> QED
    BY <2>1, <2>2, <2>4
<1>3. CASE EnrichNew(m)
  <2>1. topics' = topics \cup {m} /\ evidence' = [evidence EXCEPT ![m] = 1]
        /\ stands' = [stands EXCEPT ![m] = m]
    BY <1>3 DEF EnrichNew
  <2>2. HomeInv'
    BY <1>1, <2>1 DEF GraphInv, HomeInv
  <2>3. AttachedInv'
    BY <1>1, <2>1 DEF GraphInv, AttachedInv
  <2>4. UnfinishedIffOpen'
    <3>1. \A i \in Intents : intent[i] # [status |-> "pending", topic |-> m]
      BY <1>1 DEF GraphInv, AttachedInv
    <3> QED
      BY <1>1, <2>1, <3>1 DEF GraphInv, UnfinishedIffOpen
  <2>5. Of(m) = {} /\ Cardinality({}) = 0
    BY <1>1, FS_EmptySet DEF Of
  <2>6. EvidenceConserved'
    <3>0. Cardinality(Of(m)') = Cardinality(Of(m)) + 1 /\ \A u \in Memories \ {m} : Of(u)' = Of(u)
      BY <1>2, <2>1
    <3>1. Cardinality(Of(m)') = 1 /\ \A u \in Memories \ {m} : Of(u)' = Of(u)
      BY <2>5, <3>0
    <3>2. \A u \in Memories : evidence'[u] = IF u = m THEN 1 ELSE evidence[u]
      BY <1>1, <2>1
    <3>3. \A u \in Memories : evidence'[u] = Cardinality(Of(u)')
      BY <3>1, <3>2 DEF GraphInv, EvidenceConserved, Of
    <3> QED
      BY <3>3 DEF EvidenceConserved, Of
  <2> QED
    BY <2>2, <2>3, <2>4, <2>6 DEF GraphInv
<1>4. ASSUME NEW t \in topics, Reinforce(m, t) PROVE GraphInv'
  <2>1. topics' = topics /\ evidence' = [evidence EXCEPT ![t] = @ + 1]
        /\ stands' = [stands EXCEPT ![m] = t] /\ t \in Memories
    BY <1>1, <1>4 DEF Reinforce
  <2>2. HomeInv'
    BY <1>1, <2>1 DEF GraphInv, HomeInv
  <2>3. AttachedInv' /\ UnfinishedIffOpen'
    BY <1>1, <2>1 DEF GraphInv, AttachedInv, UnfinishedIffOpen
  <2>4. EvidenceConserved'
    <3>1. /\ Cardinality(Of(t)') = Cardinality(Of(t)) + 1
          /\ \A u \in Memories \ {t} : Of(u)' = Of(u)
      BY <1>2, <2>1
    <3>2. \A u \in Memories : evidence'[u] = IF u = t THEN evidence[u] + 1 ELSE evidence[u]
      BY <1>1, <2>1
    <3>3. \A u \in Memories : evidence[u] = Cardinality(Of(u))
      BY DEF GraphInv, EvidenceConserved, Of
    <3>4. \A u \in Memories : evidence'[u] = Cardinality(Of(u)')
      BY <3>1, <3>2, <3>3
    <3> QED
      BY <3>4 DEF EvidenceConserved, Of
  <2> QED
    BY <2>2, <2>3, <2>4 DEF GraphInv
<1> QED
  BY <1>3, <1>4 DEF EnrichMemory

(* A merge moves intents and evidence, and loses neither.                     *)
LEMMA MergeGraph ==
  ASSUME Types, GraphInv, NEW t \in topics, NEW best \in topics \ {t}, Merge(t, best),
         enrichment' = enrichment
  PROVE  GraphInv'
<1>1. /\ topics' = topics \ {t} /\ merged' = merged \cup {t}
      /\ unfinished' = (unfinished \ {t}) \cup (IF OpenAfterMerge(t, best) THEN {best} ELSE {})
      /\ t \in Memories /\ best \in Memories /\ topics \subseteq Memories /\ None \notin Memories
      /\ evidence' = [evidence EXCEPT ![best] = @ + evidence[t], ![t] = 0]
      /\ evidence \in [Memories -> Nat]
  BY NoneAssumption DEF Merge, EvidenceMoved, Types, TypeOK, None
<1>2. \A i \in Intents : intent'[i] = IF intent[i].topic = t THEN [intent[i] EXCEPT !.topic = best]
                                      ELSE intent[i]
  BY DEF Merge, IntentsMoved
<1>3. \A i \in Intents : intent[i] \in IntentType
  BY DEF Types, TypeOK, IntentType
<1>4. \A i \in Intents : /\ intent'[i].status = intent[i].status
                         /\ intent'[i].topic = IF intent[i].topic = t THEN best ELSE intent[i].topic
                         /\ intent'[i] \in IntentType
  BY <1>1, <1>2, <1>3 DEF IntentType
<1>5. \A m \in Memories : stands'[m] = IF stands[m] = t THEN best ELSE stands[m]
  BY DEF Merge
<1>6. HomeInv'
  BY <1>1, <1>5 DEF GraphInv, HomeInv
<1>7. AttachedInv'
  BY <1>1, <1>4 DEF GraphInv, AttachedInv
<1>8. UnfinishedIffOpen'
  <2>1. \A i \in Intents, u \in Memories :
          intent'[i] = [status |-> "pending", topic |-> u]
            <=> intent'[i].status = "pending" /\ intent'[i].topic = u
    BY <1>4 DEF IntentType
  <2>2. \A i \in Intents, u \in Memories :
          intent[i] = [status |-> "pending", topic |-> u]
            <=> intent[i].status = "pending" /\ intent[i].topic = u
    BY <1>3 DEF IntentType
  <2>3. OpenAfterMerge(t, best) <=>
          \/ best \in unfinished
          \/ \E i \in Intents : intent'[i] = [status |-> "pending", topic |-> best]
    BY DEF OpenAfterMerge, Merge
  <2>4. \A u \in topics \ {t, best} :
          (\E i \in Intents : intent'[i] = [status |-> "pending", topic |-> u])
            <=> (\E i \in Intents : intent[i] = [status |-> "pending", topic |-> u])
    <3>1. \A i \in Intents, u \in topics \ {t, best} :
            u \in Memories /\ (intent'[i].topic = u <=> intent[i].topic = u)
      BY <1>1, <1>4
    <3>2. ASSUME NEW i \in Intents, NEW u \in topics \ {t, best}
          PROVE  intent'[i] = [status |-> "pending", topic |-> u]
                   <=> intent[i] = [status |-> "pending", topic |-> u]
      <4>1. u \in Memories /\ (intent'[i].topic = u <=> intent[i].topic = u)
            /\ intent'[i].status = intent[i].status
        BY <1>4, <3>1
      <4>2. intent'[i] = [status |-> "pending", topic |-> u]
              <=> intent'[i].status = "pending" /\ intent'[i].topic = u
        BY <2>1, <4>1
      <4>3. intent[i] = [status |-> "pending", topic |-> u]
              <=> intent[i].status = "pending" /\ intent[i].topic = u
        BY <2>2, <4>1
      <4> QED
        BY <4>1, <4>2, <4>3
    <3> QED
      BY <3>2
  <2>5. best \in unfinished
          => \E i \in Intents : intent'[i] = [status |-> "pending", topic |-> best]
    BY <1>1, <1>4, <2>1, <2>2, <2>3 DEF GraphInv, UnfinishedIffOpen
  <2>6. \A u \in topics' : u \in unfinished'
          <=> \E i \in Intents : intent'[i] = [status |-> "pending", topic |-> u]
    BY <1>1, <2>3, <2>4, <2>5 DEF GraphInv, UnfinishedIffOpen
  <2>7. unfinished' \subseteq topics'
    BY <1>1 DEF GraphInv, UnfinishedIffOpen
  <2> QED
    BY <2>6, <2>7 DEF UnfinishedIffOpen
<1>9. EvidenceConserved'
  <2>1. /\ Of(best)' = Of(best) \cup Of(t) /\ Of(t)' = {}
        /\ \A u \in Memories \ {t, best} : Of(u)' = Of(u)
    BY <1>1, <1>5 DEF Of
  <2>2. \A u \in Memories : IsFiniteSet(Of(u)) /\ Cardinality(Of(u)) \in Nat
    BY MemoriesAssumption, FS_Subset, FS_CardinalityType DEF Of
  <2>3. Cardinality(Of(best) \cap Of(t)) = 0
    <3>1. Of(best) \cap Of(t) = {}
      BY DEF Of
    <3> QED
      BY <3>1, FS_EmptySet
  <2>4. Cardinality(Of(best)') = Cardinality(Of(best)) + Cardinality(Of(t))
    <3>1. Cardinality(Of(best) \cup Of(t))
            = Cardinality(Of(best)) + Cardinality(Of(t)) - Cardinality(Of(best) \cap Of(t))
      BY <1>1, <2>2, FS_Union
    <3> QED
      BY <1>1, <2>1, <2>2, <2>3, <3>1
  <2>5. \A u \in Memories : evidence[u] = Cardinality(Of(u))
    BY DEF GraphInv, EvidenceConserved, Of
  <2>6. evidence'[best] = evidence[best] + evidence[t] /\ evidence'[t] = 0
        /\ \A u \in Memories \ {t, best} : evidence'[u] = evidence[u]
    BY <1>1
  <2>7. evidence'[best] = Cardinality(Of(best)')
    BY <1>1, <2>4, <2>5, <2>6
  <2>8. evidence'[t] = Cardinality(Of(t)')
    BY <2>1, <2>6, FS_EmptySet
  <2>9. \A u \in Memories \ {t, best} : evidence'[u] = Cardinality(Of(u)')
    BY <2>1, <2>5, <2>6
  <2> QED
    BY <2>7, <2>8, <2>9 DEF EvidenceConserved, Of
<1> QED
  BY <1>6, <1>7, <1>8, <1>9 DEF GraphInv

LEMMA StepGraph == Types /\ GraphInv /\ [Next]_vars => GraphInv'
<1> SUFFICES ASSUME Types, GraphInv, [Next]_vars PROVE GraphInv'
  OBVIOUS
<1>0. /\ topics \subseteq Memories /\ None \notin Memories /\ unfinished \subseteq topics
      /\ intent \in [Intents -> IntentType]
  BY NoneAssumption DEF Types, TypeOK, IntentType, None
<1>1. ASSUME NEW m \in Memories, EnrichMemory(m) PROVE GraphInv'
  BY <1>1, EnrichGraph
<1>2. ASSUME NEW i \in Intents, NEW t \in Memories \cup {None}, CreateIntent(i, t) PROVE GraphInv'
  <2>1. /\ intent[i].status = "none" /\ t \in topics \cup merged \cup {None}
        /\ intent' = [intent EXCEPT ![i] = [status |-> "pending", topic |-> t]]
        /\ unfinished' = unfinished \cup ({t} \cap topics)
        /\ UNCHANGED <<enrichment, topics, evidence, stands, merged>>
    BY <1>2 DEF CreateIntent
  <2>2. HomeInv' /\ EvidenceConserved'
    BY <2>1 DEF GraphInv, HomeInv, EvidenceConserved
  <2>3. AttachedInv'
    BY <1>0, <2>1 DEF GraphInv, AttachedInv
  <2>4. UnfinishedIffOpen'
    <3>1. \A u \in topics : (\E j \in Intents : intent'[j] = [status |-> "pending", topic |-> u])
            <=> u = t \/ \E j \in Intents : intent[j] = [status |-> "pending", topic |-> u]
      <4>1. intent'[i] = [status |-> "pending", topic |-> t]
            /\ \A j \in Intents \ {i} : intent'[j] = intent[j]
        BY <1>0, <2>1
      <4>2. \A u \in topics : intent[i] # [status |-> "pending", topic |-> u]
        BY <2>1
      <4>3. \A u \in topics : [status |-> "pending", topic |-> t] = [status |-> "pending", topic |-> u]
              <=> u = t
        OBVIOUS
      <4>4. ASSUME NEW u \in topics, NEW j \in Intents, intent'[j] = [status |-> "pending", topic |-> u]
            PROVE  u = t \/ \E k \in Intents : intent[k] = [status |-> "pending", topic |-> u]
        BY <4>1, <4>3, <4>4
      <4>5. ASSUME NEW u \in topics, NEW j \in Intents, intent[j] = [status |-> "pending", topic |-> u]
            PROVE  \E k \in Intents : intent'[k] = [status |-> "pending", topic |-> u]
        BY <4>1, <4>2, <4>5
      <4> QED
        BY <4>1, <4>4, <4>5
    <3> QED
      BY <1>0, <2>1, <3>1 DEF GraphInv, UnfinishedIffOpen
  <2> QED
    BY <2>2, <2>3, <2>4 DEF GraphInv
<1>3. ASSUME NEW i \in Intents, ResolveIntent(i) PROVE GraphInv'
  <2>1. /\ intent[i].status # "none"
        /\ intent' = [intent EXCEPT ![i].status = "resolved"]
        /\ unfinished' = IF StillOpen(intent[i].topic, i) THEN unfinished
                         ELSE unfinished \ {intent[i].topic}
        /\ UNCHANGED <<enrichment, topics, evidence, stands, merged>>
    BY <1>3 DEF ResolveIntent
  <2>2. HomeInv' /\ EvidenceConserved'
    BY <2>1 DEF GraphInv, HomeInv, EvidenceConserved
  <2>3. /\ intent'[i].status = "resolved" /\ intent'[i].topic = intent[i].topic
        /\ \A j \in Intents \ {i} : intent'[j] = intent[j]
    BY <1>0, <2>1 DEF IntentType
  <2>4. AttachedInv'
    BY <2>1, <2>3 DEF GraphInv, AttachedInv
  <2>5. UnfinishedIffOpen'
    <3>1. \A u : intent'[i] # [status |-> "pending", topic |-> u]
      BY <2>3
    <3>2. \A u \in topics : (\E j \in Intents : intent'[j] = [status |-> "pending", topic |-> u])
                              <=> OpenWithout(u, i)
      BY <2>3, <3>1 DEF OpenWithout
    <3>3. \A u \in topics : u # intent[i].topic =>
            ((\E j \in Intents : intent[j] = [status |-> "pending", topic |-> u])
               <=> OpenWithout(u, i))
      BY DEF OpenWithout
    <3>4. \A u \in topics : OpenWithout(u, i)
            => \E j \in Intents : intent[j] = [status |-> "pending", topic |-> u]
      BY DEF OpenWithout
    <3>5. \A u \in topics : u \in unfinished'
            <=> \E j \in Intents : intent'[j] = [status |-> "pending", topic |-> u]
      BY <2>1, <3>2, <3>3, <3>4 DEF GraphInv, UnfinishedIffOpen, StillOpen
    <3>6. unfinished' \subseteq topics'
      BY <1>0, <2>1
    <3> QED
      BY <2>1, <3>5, <3>6 DEF UnfinishedIffOpen
  <2> QED
    BY <2>2, <2>4, <2>5 DEF GraphInv
<1>4. ASSUME UNCHANGED <<topics, merged, intent, unfinished, evidence, stands>>,
             \A m \in Memories : enrichment'[m] # "ENRICHED" => enrichment[m] # "ENRICHED"
      PROVE  GraphInv'
  BY <1>4 DEF GraphInv, HomeInv, AttachedInv, UnfinishedIffOpen, EvidenceConserved
<1>5. ASSUME NEW t \in Memories, EmbedTopic(t) PROVE GraphInv'
  <2>1. ASSUME t \in topics, NEW best \in Duplicates(t), Merge(t, best) PROVE GraphInv'
    <3>1. best \in topics \ {t} /\ enrichment' = enrichment
      BY <1>5, <2>1 DEF Duplicates, EmbedTopic
    <3> QED
      BY <2>1, <3>1, MergeGraph
  <2>2. CASE UNCHANGED <<intent, expressed, rows, graph>>
    BY <1>4, <1>5, <2>2 DEF EmbedTopic, graph
  <2> QED
    BY <1>5, <2>1, <2>2 DEF EmbedTopic
<1> QED
  BY <1>1, <1>2, <1>3, <1>4, <1>5, GraphFrame

LEMMA GraphHolds == Spec => [](Types /\ GraphInv)
BY InitTypes, InitGraph, StepTypes, StepGraph, PTL DEF Spec

(* A topic is unfinished exactly when a pending intent points at it, through   *)
(* any mix of proposals and merges.                                          *)
THEOREM UnfinishedIffOpenHolds == Spec => []UnfinishedIffOpen
<1>1. GraphInv => UnfinishedIffOpen
  BY DEF GraphInv
<1> QED
  BY <1>1, GraphHolds, PTL

(* The evidence of a topic is the number of enriched memories it stands for.   *)
THEOREM EvidenceConservedHolds == Spec => []EvidenceConserved
<1>1. GraphInv => EvidenceConserved
  BY DEF GraphInv
<1> QED
  BY <1>1, GraphHolds, PTL

(* An intent attached to a live topic stays attached to one.                  *)
THEOREM IntentsStayAttachedHolds == Spec => IntentsStayAttached
<1> DEFINE Kept == \A i \in Intents : intent[i].topic \in topics => intent'[i].topic \in topics'
<1>1. ASSUME Types, GraphInv, [Next]_vars PROVE Kept
  <2>0. intent \in [Intents -> IntentType] /\ topics \subseteq Memories /\ None \notin Memories
    BY <1>1, NoneAssumption DEF Types, TypeOK, IntentType, None
  <2>1. ASSUME NEW m \in Memories, EnrichMemory(m) PROVE Kept
    BY <2>1 DEF EnrichMemory, EnrichNew, Reinforce
  <2>2. ASSUME NEW i \in Intents, NEW t \in Memories \cup {None}, CreateIntent(i, t) PROVE Kept
    <3>1. intent[i].topic = None /\ topics' = topics
          /\ \A j \in Intents \ {i} : intent'[j] = intent[j]
      BY <1>1, <2>0, <2>2 DEF CreateIntent, GraphInv, AttachedInv
    <3> QED
      BY <2>0, <3>1
  <2>3. ASSUME NEW i \in Intents, ResolveIntent(i) PROVE Kept
    BY <2>0, <2>3 DEF ResolveIntent, IntentType
  <2>4. ASSUME NEW t \in Memories, EmbedTopic(t) PROVE Kept
    <3>1. ASSUME t \in topics, NEW best \in Duplicates(t), Merge(t, best) PROVE Kept
      <4>1. topics' = topics \ {t} /\ best \in topics \ {t}
        BY <3>1 DEF Merge, Duplicates
      <4>2. \A i \in Intents : intent'[i].topic = IF intent[i].topic = t THEN best
                                                ELSE intent[i].topic
        BY <2>0, <3>1 DEF Merge, IntentsMoved, IntentType
      <4> QED
        BY <4>1, <4>2
    <3>2. CASE UNCHANGED <<intent, expressed, rows, graph>>
      BY <3>2 DEF graph
    <3> QED
      BY <2>4, <3>1, <3>2 DEF EmbedTopic
  <2> QED
    BY <1>1, <2>1, <2>2, <2>3, <2>4, GraphFrame
<1>2. [Next]_vars /\ Types /\ GraphInv => [Kept]_vars
  BY <1>1
<1> QED
  BY <1>2, GraphHolds, PTL DEF Spec, IntentsStayAttached

-----------------------------------------------------------------------------
(* Embedding jobs and vectors.                                               *)

(* What is not a topic has no vector, and no row or expression of a topic      *)
(* unless it was overtaken; what is not enriched has no job.                  *)
JobInv  == /\ OneJobPerBlindTopic
           /\ \A m \in Memories : enrichment[m] # "ENRICHED" =>
                queued[m] = 0 /\ leased[m] = 0 /\ m \notin failed
VectorInv == NoLiveDuplicates /\ \A t \in Memories \ topics : vector[Topic(t)] = 0
SuppressInv == VoicedStaysSuppressed /\ voiced \subseteq topics \cup merged

ItemInv == JobInv /\ VectorInv /\ SuppressInv

LEMMA InitItems == Init => ItemInv
<1> SUFFICES ASSUME Init PROVE ItemInv
  OBVIOUS
<1>1. topics = {} /\ voiced = {} /\ expressed = {} /\ failed = {}
      /\ \A m \in Memories : queued[m] = 0 /\ leased[m] = 0
  BY DEF Init
<1>2. \A t \in Memories : vector[Topic(t)] = 0 /\ rows[Topic(t)] = 0 /\ late[Topic(t)] = 0
  <2>1. ASSUME NEW t \in Memories PROVE Topic(t) \notin {Memory(m) : m \in Embedded}
    BY EmbeddedAssumption, Names
  <2>2. \A t \in Memories : Topic(t) \in Candidate
    BY Names
  <2> QED
    BY <2>1, <2>2 DEF Init
<1> QED
  BY <1>1, <1>2 DEF ItemInv, JobInv, VectorInv, SuppressInv, OneJobPerBlindTopic,
                    NoLiveDuplicates, VoicedStaysSuppressed

(* A new topic has one job and no vector.                                     *)
LEMMA EnrichItems ==
  ASSUME Types, GraphInv, ItemInv, NEW m \in Memories, EnrichMemory(m)
  PROVE  ItemInv'
<1>1. /\ m \notin topics /\ m \notin merged /\ enrichment[m] # "ENRICHED"
      /\ enrichment' = [enrichment EXCEPT ![m] = "ENRICHED"]
      /\ UNCHANGED <<vector, leased, rows, late, expressed, voiced, merged, overtaken, failed, model>>
      /\ enrichment \in [Memories -> {"RAW", "ENRICHED"}]
      /\ queued \in [Memories -> Nat] /\ leased \in [Memories -> Nat] /\ topics \subseteq Memories
      /\ stands \in [Memories -> topics \cup {None}]
  BY DEF EnrichMemory, Enrichable, Types, TypeOK, EnrichedInv, pool, speech
<1>2. queued[m] = 0 /\ leased[m] = 0 /\ m \notin failed /\ vector[Topic(m)] = 0
  BY <1>1 DEF ItemInv, JobInv, VectorInv
<1>3. CASE EnrichNew(m)
  <2>1. topics' = topics \cup {m} /\ queued' = [queued EXCEPT ![m] = @ + 1]
        /\ stands' = [stands EXCEPT ![m] = m]
    BY <1>3 DEF EnrichNew
  <2>2. JobInv'
    <3>1. \A u \in Memories \ {m} : queued'[u] = queued[u]
      BY <1>1, <2>1
    <3>2. queued'[m] = 1
      BY <1>1, <1>2, <2>1
    <3>3. \A u \in topics' : IF vector[Topic(u)] # 0 THEN queued'[u] + leased[u] = 0
                             ELSE queued'[u] + leased[u] = (IF u \in failed THEN 0 ELSE 1)
      BY <1>1, <1>2, <2>1, <3>1, <3>2 DEF ItemInv, JobInv, OneJobPerBlindTopic
    <3> QED
      BY <1>1, <3>1, <3>3 DEF ItemInv, JobInv, OneJobPerBlindTopic
  <2>3. VectorInv'
    BY <1>1, <1>2, <2>1 DEF ItemInv, VectorInv, NoLiveDuplicates
  <2>4. SuppressInv'
    <3>1. \A t \in voiced : stands'[t] = stands[t]
      BY <1>1, <2>1 DEF ItemInv, SuppressInv
    <3> QED
      BY <1>1, <2>1, <3>1 DEF ItemInv, SuppressInv, VoicedStaysSuppressed
  <2> QED
    BY <2>2, <2>3, <2>4 DEF ItemInv
<1>4. ASSUME NEW t \in topics, Reinforce(m, t) PROVE ItemInv'
  <2>1. topics' = topics /\ queued' = queued /\ stands' = [stands EXCEPT ![m] = t]
    BY <1>4 DEF Reinforce
  <2>2. \A u \in voiced : stands'[u] = stands[u]
    BY <1>1, <2>1 DEF ItemInv, SuppressInv
  <2> QED
    BY <1>1, <2>1, <2>2 DEF ItemInv, JobInv, VectorInv, SuppressInv, OneJobPerBlindTopic,
                            NoLiveDuplicates, VoicedStaysSuppressed
<1> QED
  BY <1>3, <1>4 DEF EnrichMemory

(* A merged topic leaves nothing behind.                                      *)
LEMMA MergeItems ==
  ASSUME Types, GraphInv, ItemInv, NEW t \in topics, NEW best \in topics \ {t}, Merge(t, best),
         leased' = [leased EXCEPT ![t] = @ - 1], leased[t] > 0,
         UNCHANGED <<enrichment, queued, thoughts, late, model, voiced, failed>>
  PROVE  ItemInv'
<1>1. /\ t \in Memories /\ best \in Memories /\ topics \subseteq Memories
      /\ topics' = topics \ {t} /\ merged' = merged \cup {t}
      /\ vector' = [vector EXCEPT ![Topic(t)] = 0]
      /\ rows' = [rows EXCEPT ![Topic(best)] = @ + rows[Topic(t)], ![Topic(t)] = 0]
      /\ expressed' = (expressed \ {Topic(t)})
                        \cup (IF Topic(t) \in expressed THEN {Topic(best)} ELSE {})
      /\ vector \in [Candidate -> 0..MaxModels] /\ rows \in [Candidate -> Nat]
      /\ leased \in [Memories -> Nat] /\ enrichment[t] = "ENRICHED"
      /\ stands \in [Memories -> topics \cup {None}] /\ None \notin Memories
  BY NoneAssumption DEF Merge, RowsMoved, ExpressionMoved, Types, TypeOK, EnrichedInv, None
<1>2. \A m \in Memories : stands'[m] = IF stands[m] = t THEN best ELSE stands[m]
  BY DEF Merge
<1>3. \A u \in Memories : Topic(u) \in Candidate /\ (Topic(u) = Topic(t) => u = t)
                          /\ (Topic(u) = Topic(best) => u = best)
  BY <1>1, Names
<1>4. \A u \in Memories \ {t} : vector'[Topic(u)] = vector[Topic(u)] /\ leased'[u] = leased[u]
  BY <1>1, <1>3
<1>5. JobInv'
  BY <1>1, <1>4 DEF ItemInv, JobInv, OneJobPerBlindTopic
<1>6. VectorInv'
  <2>1. \A u \in Memories \ topics' : vector'[Topic(u)] = 0
    BY <1>1, <1>3, <1>4 DEF ItemInv, VectorInv
  <2> QED
    BY <1>1, <1>4, <2>1 DEF ItemInv, VectorInv, NoLiveDuplicates
<1>7. \A u \in Memories \ (topics' \cup overtaken') :
        rows'[Topic(u)] = 0 /\ late[Topic(u)] = 0 /\ Topic(u) \notin expressed'
  <2>1. rows'[Topic(t)] = 0 /\ Topic(t) \notin expressed' /\ (t \notin overtaken' => late[Topic(t)] = 0)
    <3>1. late[Topic(t)] \in Nat
      BY <1>1, <1>3 DEF Types, TypeOK
    <3>2. t \notin overtaken' => ~(late[Topic(t)] > 0)
      BY DEF Merge
    <3> QED
      BY <1>1, <1>3, <3>1, <3>2
  <2>2. \A u \in Memories \ {t, best} : rows'[Topic(u)] = rows[Topic(u)]
    BY <1>1, <1>3
  <2>3. \A u \in Memories \ {t, best} : Topic(u) \in expressed' => Topic(u) \in expressed
    BY <1>1, <1>3
  <2>4. overtaken \subseteq overtaken'
    BY DEF Merge
  <2> QED
    BY <1>1, <2>1, <2>2, <2>3, <2>4 DEF ItemInv, SuppressInv, VoicedStaysSuppressed
<1>8. SuppressInv'
  <2>1. voiced' \subseteq topics' \cup merged'
    BY <1>1 DEF ItemInv, SuppressInv
  <2>2. ASSUME NEW u \in voiced
        PROVE  Topic(stands'[u]) \in expressed' \/ (u \in overtaken' /\ Topic(u) \in expressed')
    <3>1. u \in Memories /\ overtaken \subseteq overtaken' /\ overtaken \subseteq Memories \ topics
      BY DEF Merge, Types, TypeOK
    <3>2. CASE Topic(stands[u]) \in expressed /\ stands[u] = t
      BY <1>1, <1>2, <3>1, <3>2
    <3>3. CASE Topic(stands[u]) \in expressed /\ stands[u] # t
      <4>1. Topic(stands[u]) # Topic(t)
        BY <3>3 DEF Topic
      <4> QED
        BY <1>1, <1>2, <3>1, <3>3, <4>1
    <3>4. CASE u \in overtaken /\ Topic(u) \in expressed
      <4>1. Topic(u) # Topic(t)
        BY <1>3, <3>1, <3>4
      <4> QED
        BY <1>1, <3>1, <3>4, <4>1
    <3> QED
      BY <3>2, <3>3, <3>4 DEF ItemInv, SuppressInv, VoicedStaysSuppressed
  <2> QED
    BY <1>7, <2>1, <2>2 DEF SuppressInv, VoicedStaysSuppressed
<1> QED
  BY <1>5, <1>6, <1>8 DEF ItemInv

(* The vector of a topic that duplicates none.                                *)
LEMMA StoreItems ==
  ASSUME Types, GraphInv, ItemInv, NEW t \in Memories, leased[t] > 0,
         ~(t \in topics /\ Duplicates(t) # {}),
         leased' = [leased EXCEPT ![t] = @ - 1],
         vector' = IF t \in topics THEN [vector EXCEPT ![Topic(t)] = model] ELSE vector,
         UNCHANGED <<intent, expressed, rows, graph>>,
         UNCHANGED <<enrichment, queued, thoughts, late, model, voiced, failed>>
  PROVE  ItemInv'
<1>1. /\ topics \subseteq Memories /\ vector \in [Candidate -> 0..MaxModels]
      /\ queued \in [Memories -> Nat] /\ leased \in [Memories -> Nat]
      /\ model \in 1..MaxModels /\ MaxModels \in Nat
  BY BoundsAssumption DEF Types, TypeOK
<1>2. \A u \in Memories : Topic(u) \in Candidate /\ (Topic(u) = Topic(t) => u = t)
  BY Names
<1>3. \A u \in Memories \ {t} : vector'[Topic(u)] = vector[Topic(u)] /\ leased'[u] = leased[u]
  BY <1>1, <1>2
<1>4. t \in topics => vector'[Topic(t)] = model
  BY <1>1, <1>2
<1>5. t \in topics => leased'[t] + queued[t] = 0
  <2> SUFFICES ASSUME t \in topics PROVE leased'[t] + queued[t] = 0
    OBVIOUS
  <2>1. queued[t] + leased[t] = 1
    BY <1>1 DEF ItemInv, JobInv, OneJobPerBlindTopic
  <2> QED
    BY <1>1, <2>1
<1>6. enrichment[t] = "ENRICHED"
  BY <1>1 DEF ItemInv, JobInv
<1>7. JobInv'
  <2>1. \A m \in Memories : enrichment[m] # "ENRICHED" => leased'[m] = leased[m]
    BY <1>3, <1>6
  <2>2. \A u \in topics : IF vector'[Topic(u)] # 0 THEN queued[u] + leased'[u] = 0
                          ELSE queued[u] + leased'[u] = (IF u \in failed THEN 0 ELSE 1)
    <3>1. \A u \in topics \ {t} : IF vector'[Topic(u)] # 0 THEN queued[u] + leased'[u] = 0
                          ELSE queued[u] + leased'[u] = (IF u \in failed THEN 0 ELSE 1)
      BY <1>1, <1>3 DEF ItemInv, JobInv, OneJobPerBlindTopic
    <3>2. t \in topics => vector'[Topic(t)] # 0 /\ queued[t] + leased'[t] = 0
      BY <1>1, <1>4, <1>5
    <3> QED
      BY <3>1, <3>2
  <2> QED
    BY <2>1, <2>2 DEF ItemInv, JobInv, OneJobPerBlindTopic, graph
<1>8. \A u \in Memories \ topics' : vector'[Topic(u)] = 0
  <2>1. \A u \in Memories \ topics : vector'[Topic(u)] = vector[Topic(u)]
    BY <1>3
  <2> QED
    BY <2>1 DEF ItemInv, VectorInv, graph
<1>9. NoLiveDuplicates'
  <2> SUFFICES ASSUME NEW a \in topics, NEW b \in topics \ {a},
                      vector'[Topic(a)] # 0, vector'[Topic(a)] = vector'[Topic(b)]
      PROVE  {Topic(a), Topic(b)} \notin Near \/ {a, b} \in Clash
    BY DEF NoLiveDuplicates, graph
  <2>1. CASE a # t /\ b # t
    BY <1>1, <1>3, <2>1 DEF ItemInv, VectorInv, NoLiveDuplicates
  <2>2. CASE a = t
    <3>1. b \notin Duplicates(t) /\ vector[Topic(b)] = model
      BY <1>1, <1>3, <1>4, <2>2
    <3> QED
      BY <2>2, <3>1 DEF Duplicates
  <2>3. CASE b = t
    <3>1. a \notin Duplicates(t) /\ vector[Topic(a)] = model
      BY <1>1, <1>3, <1>4, <2>3
    <3>2. {Topic(t), Topic(a)} = {Topic(a), Topic(b)} /\ {t, a} = {a, b}
      BY <2>3
    <3> QED
      BY <2>3, <3>1, <3>2 DEF Duplicates
  <2> QED
    BY <2>1, <2>2, <2>3
<1>10. SuppressInv'
  BY DEF ItemInv, SuppressInv, VoicedStaysSuppressed, graph
<1> QED
  BY <1>7, <1>8, <1>9, <1>10 DEF ItemInv, VectorInv

LEMMA StepItems == Types /\ GraphInv /\ ItemInv /\ [Next]_vars => ItemInv'
<1> SUFFICES ASSUME Types, GraphInv, ItemInv, [Next]_vars PROVE ItemInv'
  OBVIOUS
<1>0. /\ queued \in [Memories -> Nat] /\ leased \in [Memories -> Nat] /\ topics \subseteq Memories
      /\ rows \in [Candidate -> Nat] /\ expressed \subseteq Candidate
      /\ stands \in [Memories -> topics \cup {None}] /\ None \notin Memories /\ voiced \subseteq Memories
      /\ JobInv /\ VectorInv
  BY NoneAssumption DEF Types, TypeOK, ItemInv, None
<1>00. /\ \A t \in Memories \ (topics \cup overtaken) :
            rows[Topic(t)] = 0 /\ late[Topic(t)] = 0 /\ Topic(t) \notin expressed
       /\ \A t \in voiced : Topic(stands[t]) \in expressed \/ (t \in overtaken /\ Topic(t) \in expressed)
       /\ voiced \subseteq topics \cup merged
  BY DEF ItemInv, SuppressInv, VoicedStaysSuppressed
<1>1. ASSUME NEW m \in Memories, EnrichMemory(m) PROVE ItemInv'
  BY <1>1, EnrichItems
<1>2. ASSUME UNCHANGED <<topics, merged, overtaken, vector, queued, leased, failed, rows, late,
                         expressed, voiced, stands>>,
             \A m \in Memories : enrichment'[m] # "ENRICHED" => enrichment[m] # "ENRICHED"
      PROVE  ItemInv'
  BY <1>0, <1>00, <1>2 DEF ItemInv, JobInv, VectorInv, SuppressInv, OneJobPerBlindTopic,
                    NoLiveDuplicates, VoicedStaysSuppressed
<1>4. ASSUME NEW i \in Intents, ResolveIntent(i) \/ \E t \in Memories \cup {None} : CreateIntent(i, t)
      PROVE  ItemInv'
  BY <1>2, <1>4 DEF ResolveIntent, CreateIntent, work, pool, speech
<1>5. ASSUME UNCHANGED <<enrichment, topics, merged, overtaken, vector, rows, expressed, voiced,
                         stands>>,
             \A t \in Memories : late[Topic(t)] = 0 => late'[Topic(t)] = 0,
             JobInv'
      PROVE  ItemInv'
  BY <1>0, <1>00, <1>5 DEF ItemInv, VectorInv, SuppressInv, NoLiveDuplicates, VoicedStaysSuppressed
<1>6. ASSUME NEW t \in Memories, Lease(t) PROVE ItemInv'
  <2>1. \A u \in Memories : /\ queued'[u] = 0 /\ leased'[u] = 0 <=> queued[u] = 0 /\ leased[u] = 0
                            /\ queued'[u] + leased'[u] = queued[u] + leased[u]
    BY <1>0, <1>6 DEF Lease
  <2>2. JobInv'
    BY <1>0, <1>6, <2>1 DEF Lease, JobInv, OneJobPerBlindTopic, graph
  <2> QED
    BY <1>5, <1>6, <2>2 DEF Lease, graph, pool, speech
<1>7. ASSUME NEW t \in Memories, JobFails(t) PROVE ItemInv'
  <2>1. /\ leased[t] > 0 /\ failed' = failed \cup {t} /\ leased'[t] = leased[t] - 1
        /\ \A u \in Memories \ {t} : leased'[u] = leased[u]
        /\ UNCHANGED <<enrichment, topics, vector, queued>>
    BY <1>0, <1>7 DEF JobFails, graph
  <2>2. t \in topics => vector[Topic(t)] = 0 /\ queued[t] + leased[t] = 1
    BY <1>0, <2>1 DEF JobInv, OneJobPerBlindTopic
  <2>3. t \in topics => queued[t] + leased'[t] = 0
    BY <1>0, <2>1, <2>2
  <2>4. OneJobPerBlindTopic'
    BY <1>0, <2>1, <2>2, <2>3 DEF JobInv, OneJobPerBlindTopic
  <2>5. enrichment[t] = "ENRICHED"
    BY <1>0, <2>1 DEF JobInv
  <2>6. JobInv'
    BY <1>0, <2>1, <2>4, <2>5 DEF JobInv
  <2> QED
    BY <1>5, <1>7, <2>6 DEF JobFails, graph, pool, speech
<1>8. ASSUME NEW t \in Memories, EmbedTopic(t) PROVE ItemInv'
  <2>1. leased[t] > 0 /\ leased' = [leased EXCEPT ![t] = @ - 1]
        /\ UNCHANGED <<enrichment, queued, thoughts, late, model, voiced, failed>>
    BY <1>8 DEF EmbedTopic
  <2>2. CASE t \in topics /\ Duplicates(t) # {}
    <3>1. PICK best \in Duplicates(t) : Merge(t, best)
      BY <1>8, <2>2 DEF EmbedTopic
    <3>2. best \in topics \ {t}
      BY DEF Duplicates
    <3> QED
      BY <2>1, <2>2, <3>1, <3>2, MergeItems
  <2>3. CASE ~(t \in topics /\ Duplicates(t) # {})
    <3>1. vector' = IF t \in topics THEN [vector EXCEPT ![Topic(t)] = model] ELSE vector
      BY <1>8, <2>3 DEF EmbedTopic
    <3>2. UNCHANGED <<intent, expressed, rows, graph>>
      BY <1>8, <2>3 DEF EmbedTopic
    <3> QED
      BY <2>1, <2>3, <3>1, <3>2, StoreItems
  <2> QED
    BY <2>2, <2>3
<1>9. CASE Reconcile
  <2>1. /\ queued' = [t \in Memories |-> IF t \in Backfill THEN queued[t] + 1 ELSE queued[t]]
        /\ failed' = failed \ Backfill
        /\ UNCHANGED <<enrichment, topics, vector, leased>>
    BY <1>9 DEF Reconcile, graph
  <2>2. Backfill \subseteq {t \in topics : vector[Topic(t)] = 0 /\ queued[t] = 0 /\ leased[t] = 0}
    BY <1>0 DEF Backfill, InFlightJobs
  <2>3. \A t \in Memories : queued'[t] = IF t \in Backfill THEN 1 ELSE queued[t]
    BY <1>0, <2>1, <2>2
  <2>4. OneJobPerBlindTopic'
    BY <1>0, <2>1, <2>2, <2>3 DEF JobInv, OneJobPerBlindTopic
  <2>5. \A m \in Memories : enrichment[m] # "ENRICHED" => m \notin Backfill
    BY <2>2 DEF Types, EnrichedInv
  <2>6. JobInv'
    BY <1>0, <2>1, <2>3, <2>4, <2>5 DEF JobInv
  <2> QED
    BY <1>5, <1>9, <2>6 DEF Reconcile, graph, pool, speech
<1>10. CASE Restart
  <2>1. \A t \in Memories : leased'[t] = 0 /\ queued'[t] = queued[t] + leased[t]
    BY <1>10 DEF Restart
  <2>2. UNCHANGED <<enrichment, topics, vector, failed>>
    BY <1>10 DEF Restart, graph
  <2>3. JobInv'
    BY <1>0, <2>1, <2>2 DEF JobInv, OneJobPerBlindTopic
  <2>4. \A t \in Memories : late'[Topic(t)] = 0
    BY <1>10, Names DEF Restart
  <2> QED
    BY <1>5, <1>10, <2>3, <2>4 DEF Restart, graph
<1>11. ASSUME NEW c \in Candidate, Wake(c) PROVE ItemInv'
  BY <1>2, <1>11 DEF Wake, graph, work, speech
<1>12. ASSUME UNCHANGED <<enrichment, topics, merged, overtaken, vector, queued, leased, failed,
                          stands>>,
              \A t \in Memories \ (topics \cup overtaken) :
                rows'[Topic(t)] = 0 /\ late'[Topic(t)] = 0 /\ Topic(t) \notin expressed',
              voiced' \subseteq topics \cup merged,
              \A t \in voiced' : Topic(stands[t]) \in expressed' \/ (t \in overtaken /\ Topic(t) \in expressed')
       PROVE  ItemInv'
  BY <1>0, <1>12 DEF ItemInv, JobInv, VectorInv, SuppressInv, OneJobPerBlindTopic,
                     NoLiveDuplicates, VoicedStaysSuppressed
<1>13. ASSUME NEW c \in Candidate, FinishThought(c) PROVE ItemInv'
  <2>1. \A t \in Memories \ (topics \cup overtaken) : rows'[Topic(t)] = 0 /\ late'[Topic(t)] = 0
    <3>1. CASE UNCHANGED <<rows, late>>
      BY <3>1 DEF ItemInv, SuppressInv, VoicedStaysSuppressed
    <3>2. ASSUME ~Invalidated(c), NEW L \in SUBSET {d \in Candidate : rows[d] > 0}, Supersede(c, L)
          PROVE  \A t \in Memories \ (topics \cup overtaken) :
                   rows'[Topic(t)] = 0 /\ late'[Topic(t)] = 0
      <4>1. \A t \in Memories \ topics : c # Topic(t)
        BY <3>2, Names DEF Invalidated
      <4>2. \A t \in Memories \ (topics \cup overtaken) : Topic(t) \notin L
        BY <3>2, Names DEF ItemInv, SuppressInv, VoicedStaysSuppressed
      <4> QED
        BY <3>2, <4>1, <4>2, Names DEF Supersede, ItemInv, SuppressInv, VoicedStaysSuppressed
    <3> QED
      BY <1>13, <3>1, <3>2 DEF FinishThought
  <2>2. UNCHANGED <<enrichment, topics, merged, overtaken, vector, queued, leased, failed, stands,
                    expressed, voiced>>
    BY <1>13 DEF FinishThought, graph, work
  <2> QED
    BY <1>00, <1>12, <2>1, <2>2
(* A result says delivered of a row about c, pending or late.                *)
<1>14. ASSUME NEW c \in Candidate, Voice(c), UNCHANGED Beside, rows[c] > 0 \/ late[c] > 0,
              \A d \in Candidate : (rows[d] = 0 => rows'[d] = 0) /\ (late[d] = 0 => late'[d] = 0)
       PROVE  ItemInv'
  <2>1. /\ expressed' = expressed \cup {c}
        /\ voiced' = IF c[1] = "TOPIC" THEN voiced \cup {c[2]} ELSE voiced
        /\ UNCHANGED <<enrichment, topics, merged, overtaken, vector, queued, leased, failed, stands>>
        /\ overtaken \subseteq merged
    BY <1>14 DEF Voice, Beside, graph, work, Types, TypeOK
  <2>2. \A t \in Memories \ (topics \cup overtaken) : c # Topic(t)
    BY <1>00, <1>14
  <2>3. \A t \in Memories \ (topics \cup overtaken) :
          rows'[Topic(t)] = 0 /\ late'[Topic(t)] = 0 /\ Topic(t) \notin expressed'
    <3> SUFFICES ASSUME NEW t \in Memories \ (topics \cup overtaken)
                 PROVE  rows'[Topic(t)] = 0 /\ late'[Topic(t)] = 0 /\ Topic(t) \notin expressed'
      OBVIOUS
    <3>1. Topic(t) \in Candidate /\ c # Topic(t)
      BY <2>2, Names
    <3>2. rows[Topic(t)] = 0 /\ late[Topic(t)] = 0 /\ Topic(t) \notin expressed
      BY <1>00
    <3> QED
      BY <1>14, <2>1, <3>1, <3>2
  <2>4. c[1] = "TOPIC" => /\ Topic(c[2]) = c
                          /\ \/ c[2] \in topics /\ stands[c[2]] = c[2]
                             \/ c[2] \in overtaken
    BY <2>2, Split DEF GraphInv, HomeInv
  <2>5. /\ voiced' \subseteq topics \cup merged
        /\ \A t \in voiced' : Topic(stands[t]) \in expressed' \/ (t \in overtaken /\ Topic(t) \in expressed')
    BY <1>00, <2>1, <2>4
  <2> QED
    BY <1>12, <2>1, <2>3, <2>5
<1>15. ASSUME NEW c \in Candidate, Deliver(c) \/ LateDelivered(c) PROVE ItemInv'
  <2>1. \A d \in Candidate : (rows[d] = 0 => rows'[d] = 0) /\ (late[d] = 0 => late'[d] = 0)
    BY <1>15 DEF Deliver, LateDelivered, Types, TypeOK
  <2> QED
    BY <1>14, <1>15, <2>1 DEF Deliver, LateDelivered
(* A result says something else of it.                                       *)
<1>16. ASSUME NEW c \in Candidate, Drop(c) \/ LateHeld(c) \/ LateDropped(c) PROVE ItemInv'
  <2>1. UNCHANGED <<enrichment, topics, merged, overtaken, vector, queued, leased, failed, stands,
                    expressed, voiced>>
    BY <1>16 DEF Drop, LateHeld, LateDropped, Beside, graph, work
  <2>2. \A d \in Candidate : rows[d] = 0 /\ late[d] = 0 => rows'[d] = 0 /\ late'[d] = 0
    BY <1>0, <1>16 DEF Drop, LateHeld, LateDropped, Types, TypeOK
  <2>3. \A t \in Memories \ (topics \cup overtaken) : rows'[Topic(t)] = 0 /\ late'[Topic(t)] = 0
    BY <2>2, Names DEF ItemInv, SuppressInv, VoicedStaysSuppressed
  <2> QED
    BY <1>00, <1>12, <2>1, <2>3
<1>17. ASSUME NEW c \in Candidate, WindowPasses(c) PROVE ItemInv'
  <2>1. /\ expressed' = expressed \ {c}
        /\ voiced' = IF c[1] = "TOPIC" THEN {t \in voiced : c[2] \notin {t, stands[t]}} ELSE voiced
        /\ UNCHANGED <<enrichment, topics, merged, overtaken, vector, queued, leased, failed, stands,
                       rows, late>>
    BY <1>17 DEF WindowPasses, Beside, graph, work
  <2>2. ASSUME NEW t \in voiced'
        PROVE  /\ t \in voiced
               /\ Topic(stands[t]) \in expressed' \/ (t \in overtaken /\ Topic(t) \in expressed')
    <3>1. /\ t \in voiced
          /\ Topic(stands[t]) \in expressed \/ (t \in overtaken /\ Topic(t) \in expressed)
      BY <1>00, <2>1, <2>2
    <3>2. Topic(stands[t]) # c /\ Topic(t) # c
      BY <2>1, <2>2 DEF Topic
    <3> QED
      BY <2>1, <3>1, <3>2
  <2> QED
    BY <1>00, <1>12, <2>1, <2>2
<1>18. CASE UNCHANGED vars
  BY <1>2, <1>18 DEF vars
<1> QED
  BY <1>1, <1>4, <1>6, <1>7, <1>8, <1>9, <1>10, <1>11, <1>13, <1>15, <1>16, <1>17, <1>18
     DEF Next

LEMMA ItemsHold == Spec => []ItemInv
BY InitTypes, InitGraph, InitItems, StepTypes, StepGraph, StepItems, PTL DEF Spec

(* Every topic without a vector has its one embedding job, or has failed.      *)
THEOREM OneJobPerBlindTopicHolds == Spec => []OneJobPerBlindTopic
<1>1. ItemInv => OneJobPerBlindTopic
  BY DEF ItemInv, JobInv
<1> QED
  BY <1>1, ItemsHold, PTL

(* No two live topics of one model are near-duplicates, whatever resembles     *)
(* what.                                                                    *)
THEOREM NoLiveDuplicatesHolds == Spec => []NoLiveDuplicates
<1>1. ItemInv => NoLiveDuplicates
  BY DEF ItemInv, VectorInv
<1> QED
  BY <1>1, ItemsHold, PTL

(* What was voiced stays suppressed under the name it has now, or under its    *)
(* own when it was merged away while a superseded row about it was still to   *)
(* have its result; nothing else names a topic that is gone.                  *)
THEOREM VoicedStaysSuppressedHolds == Spec => []VoicedStaysSuppressed
<1>1. ItemInv => VoicedStaysSuppressed
  BY DEF ItemInv, SuppressInv
<1> QED
  BY <1>1, ItemsHold, PTL

-----------------------------------------------------------------------------
(* The subjects.                                                            *)

(* Live topics stand for disjoint sets of memories, each for its own.         *)
LEMMA SubjectsApart ==
  ASSUME Types, GraphInv, NEW t \in topics, NEW u \in topics
  PROVE  /\ t \in Memories /\ t \in Of(t) /\ Of(t) # {}
         /\ Of(t) = Of(u) => t = u
BY DEF Types, TypeOK, GraphInv, HomeInv, Of

(* Of a subject is known which topic it is behind.                            *)
LEMMA AboutTopic ==
  ASSUME Types, GraphInv, NEW O \in SUBSET topics, NEW t
  PROVE  SubjectOf(t) \in {Of(u) : u \in O} <=> t \in O
BY SubjectsApart DEF SubjectOf

(* The topics O become one, r, with their intents and expressions: a topic made *)
(* from a memory (O empty), one reinforced, or two merged.                    *)
Gathers(O, r) ==
  /\ r \notin topics \ O /\ topics' = (topics \ O) \cup {r}
  /\ \A u \in topics \ O : Of(u)' = Of(u)
  /\ \A i \in Intents : /\ intent'[i].status = intent[i].status
                        /\ intent'[i].topic = IF intent[i].topic \in O THEN r ELSE intent[i].topic
                        /\ intent[i].topic = r => r \in O
  /\ \A u \in topics \ O : Topic(u) \in expressed' <=> Topic(u) \in expressed
  /\ Topic(r) \in expressed' <=> \E u \in O : Topic(u) \in expressed

LEMMA TopicsBecome ==
  ASSUME Types, GraphInv, NEW O \in SUBSET topics, NEW r \in Memories, Gathers(O, r),
         NEW old, old = {Of(u) : u \in O}, NEW new, Of(r)' = new
  PROVE  Interests!Become(old, new)
<1> DEFINE subs == {Of(t) : t \in topics}
           hush == {Of(t) : t \in {u \in topics : Topic(u) \in expressed}}
           said(i) == [status |-> intent[i].status, about |-> SubjectOf(intent[i].topic)]
           thr  == [i \in Intents |-> said(i)]
<1> USE DEF Gathers
<1>1. subs' = (subs \ old) \cup {new}
  <2>1. \A t \in topics : Of(t) \in old <=> t \in O
    BY SubjectsApart
  <2>2. subs \ old = {Of(t) : t \in topics \ O}
    BY <2>1
  <2>3. subs' = {Of(t)' : t \in topics \ O} \cup {new}
    OBVIOUS
  <2> QED
    BY <2>2, <2>3
<1>2. hush' = (hush \ old) \cup (IF hush \cap old = {} THEN {} ELSE {new})
  <2>1. \A t \in topics : Of(t) \in old <=> t \in O
    BY SubjectsApart
  <2>2. hush \ old = {Of(t) : t \in {u \in topics \ O : Topic(u) \in expressed}}
    BY <2>1
  <2>3. hush \cap old # {} <=> \E u \in O : Topic(u) \in expressed
    BY <2>1
  <2>4. hush' = {Of(t)' : t \in {u \in topics \ O : Topic(u) \in expressed}}
                  \cup (IF Topic(r) \in expressed' THEN {new} ELSE {})
    OBVIOUS
  <2> QED
    BY <2>2, <2>3, <2>4
<1>3. thr' = [i \in Intents |-> IF thr[i].about \in old
                                  THEN [thr[i] EXCEPT !.about = new] ELSE thr[i]]
  <2> SUFFICES ASSUME NEW i \in Intents
               PROVE  said(i)' = IF said(i).about \in old
                                   THEN [said(i) EXCEPT !.about = new] ELSE said(i)
    OBVIOUS
  <2>1. said(i).about \in old <=> intent[i].topic \in O
    BY AboutTopic
  <2>2. CASE intent[i].topic \in O
    <3>1. SubjectOf(r)' = new /\ intent'[i].topic = r /\ intent'[i].status = intent[i].status
      BY <2>2 DEF SubjectOf
    <3>2. said(i)' = [status |-> intent[i].status, about |-> new]
      BY <3>1
    <3> QED
      BY <2>1, <2>2, <3>2
  <2>3. CASE intent[i].topic \notin O
    <3>1. intent'[i].topic = intent[i].topic /\ intent'[i].status = intent[i].status
          /\ intent[i].topic # r
      BY <2>3
    <3>2. SubjectOf(intent[i].topic)' = SubjectOf(intent[i].topic)
      <4>1. intent'[i].topic \in topics' <=> intent[i].topic \in topics
        BY <2>3, <3>1
      <4>2. intent[i].topic \in topics => Of(intent[i].topic)' = Of(intent[i].topic)
        BY <2>3, <3>1
      <4> QED
        BY <4>1, <4>2 DEF SubjectOf
    <3> QED
      BY <2>1, <2>3, <3>1, <3>2
  <2> QED
    BY <2>2, <2>3
<1> QED
  BY <1>1, <1>2, <1>3 DEF Interests!Become

(* A memory is enriched: its subject is new, or an old one has learned.        *)
LEMMA EnrichLearns ==
  ASSUME Types, GraphInv, ItemInv, NEW m \in Memories, EnrichMemory(m)
  PROVE  Interests!Learn(m)
<1>1. /\ m \notin topics /\ m \notin merged /\ stands[m] = None
      /\ intent' = intent /\ expressed' = expressed
      /\ stands \in [Memories -> topics \cup {None}]
      /\ topics \subseteq Memories /\ None \notin Memories
  BY NoneAssumption DEF EnrichMemory, Enrichable, Types, TypeOK, EnrichedInv, GraphInv, HomeInv,
                        None, pool, speech
<1>2. m \notin UNION {Of(t) : t \in topics}
  BY <1>1 DEF Of
<1>3. \A i \in Intents : intent[i].topic # m
  BY <1>1 DEF GraphInv, AttachedInv
<1>4. CASE EnrichNew(m)
  <2>1. topics' = topics \cup {m} /\ stands' = [stands EXCEPT ![m] = m]
    BY <1>4 DEF EnrichNew
  <2>2. Of(m)' = {m} /\ \A u \in topics : Of(u)' = Of(u)
    BY <1>1, <2>1 DEF Of
  <2>3. Topic(m) \notin expressed
    BY <1>1 DEF ItemInv, SuppressInv, VoicedStaysSuppressed, Types, TypeOK
  <2>4. {} \in SUBSET topics /\ {} = {Of(u) : u \in {}}
    OBVIOUS
  <2>5. Gathers({}, m)
    BY <1>1, <1>3, <2>1, <2>2, <2>3 DEF Gathers
  <2>6. Interests!Become({}, {m})
    BY <2>2, <2>4, <2>5, TopicsBecome
  <2> QED
    BY <1>2, <2>6 DEF Interests!Learn, Interests!Known
<1>5. ASSUME NEW t \in topics, Reinforce(m, t) PROVE Interests!Learn(m)
  <2>1. topics' = topics /\ stands' = [stands EXCEPT ![m] = t] /\ t \in Memories
    BY <1>1, <1>5 DEF Reinforce
  <2>2. Of(t)' = Of(t) \cup {m} /\ \A u \in topics \ {t} : Of(u)' = Of(u)
    BY <1>1, <2>1 DEF Of
  <2>3. Gathers({t}, t)
    BY <1>1, <2>1, <2>2 DEF Gathers
  <2>4. PICK s \in {Of(u) : u \in topics} : s = Of(t)
    OBVIOUS
  <2>5. {t} \in SUBSET topics /\ {s} = {Of(u) : u \in {t}}
    BY <2>4
  <2>6. Interests!Become({s}, s \cup {m})
    BY <2>1, <2>2, <2>3, <2>4, <2>5, TopicsBecome
  <2> QED
    BY <1>2, <2>6 DEF Interests!Learn, Interests!Known
<1> QED
  BY <1>4, <1>5 DEF EnrichMemory

(* A merge unites two subjects, with the threads and the silence of both.      *)
LEMMA MergeUnites ==
  ASSUME Types, GraphInv, ItemInv, NEW t \in topics, NEW best \in topics \ {t}, Merge(t, best)
  PROVE  \E a, b \in {Of(u) : u \in topics} : Interests!Unite(a, b)
<1> DEFINE O == {t, best}
<1>1. /\ topics' = topics \ {t} /\ topics \subseteq Memories /\ best \in Memories
      /\ stands \in [Memories -> topics \cup {None}]
      /\ \A m \in Memories : stands'[m] = IF stands[m] = t THEN best ELSE stands[m]
  BY DEF Merge, Types, TypeOK
<1>2. O \in SUBSET topics /\ best \notin topics \ O /\ topics' = (topics \ O) \cup {best}
  BY <1>1
<1>3. Of(best)' = Of(t) \cup Of(best) /\ \A u \in topics \ O : Of(u)' = Of(u)
  BY <1>1 DEF Of
<1>4. \A i \in Intents : /\ intent'[i].status = intent[i].status
                         /\ intent'[i].topic = IF intent[i].topic \in O THEN best ELSE intent[i].topic
                         /\ intent[i].topic = best => best \in O
  <2>1. \A i \in Intents : intent[i] \in IntentType
    BY DEF Types, TypeOK, IntentType
  <2>2. \A i \in Intents : intent'[i] = IF intent[i].topic = t THEN [intent[i] EXCEPT !.topic = best]
                                        ELSE intent[i]
    BY DEF Merge, IntentsMoved
  <2> QED
    BY <2>1, <2>2 DEF IntentType
<1>5. /\ \A u \in topics \ O : Topic(u) \in expressed' <=> Topic(u) \in expressed
      /\ Topic(best) \in expressed' <=> \E u \in O : Topic(u) \in expressed
  <2>1. expressed' = (expressed \ {Topic(t)}) \cup (IF Topic(t) \in expressed THEN {Topic(best)} ELSE {})
    BY DEF Merge, ExpressionMoved
  <2>2. \A u \in topics : (Topic(u) = Topic(t) => u = t) /\ (Topic(u) = Topic(best) => u = best)
    BY <1>1, Names
  <2> QED
    BY <2>1, <2>2
<1>6. Gathers(O, best)
  <2> HIDE DEF O
  <2> QED
    BY <1>2, <1>3, <1>4, <1>5 DEF Gathers
<1>7. PICK a, b \in {Of(u) : u \in topics} : a = Of(t) /\ b = Of(best)
  OBVIOUS
<1>8. Interests!Become({a, b}, a \cup b)
  <2>1. {a, b} = {Of(u) : u \in O}
    BY <1>7
  <2> HIDE DEF O
  <2> QED
    BY <1>1, <1>2, <1>3, <1>6, <1>7, <2>1, TopicsBecome
<1>9. a # b
  BY <1>7, SubjectsApart
<1> QED
  BY <1>8, <1>9 DEF Interests!Unite

(* What leaves topics, intents and expressions alone leaves the subjects alone. *)
LEMMA KnownStays ==
  ASSUME UNCHANGED <<topics, stands, intent, expressed>>
  PROVE  UNCHANGED Interests!known
BY DEF Interests!known, Of, SubjectOf

(* What is voiced is a live topic, voiced as a subject, or it is none.         *)
LEMMA VoicingShows ==
  ASSUME Types, GraphInv, UNCHANGED <<topics, stands, intent>>, NEW c \in Candidate
  PROVE  /\ expressed' = expressed \cup {c} => [Interests!Next]_(Interests!known)
         /\ expressed' = expressed \ {c} => [Interests!Next]_(Interests!known)
<1> DEFINE hush == {Of(t) : t \in {u \in topics : Topic(u) \in expressed}}
           subs == {Of(t) : t \in topics}
           thr  == [i \in Intents |-> [status |-> intent[i].status,
                                       about |-> SubjectOf(intent[i].topic)]]
<1>1. UNCHANGED <<subs, thr>> /\ \A t \in topics : Of(t)' = Of(t)
  BY DEF Of, SubjectOf
<1>2. CASE \A t \in topics : Topic(t) # c
  <2>2. expressed' = expressed \cup {c} \/ expressed' = expressed \ {c} => hush' = hush
    BY <1>1, <1>2
  <2> QED
    BY <1>1, <2>2 DEF Interests!known
<1>3. ASSUME NEW t \in topics, c = Topic(t)
      PROVE  /\ expressed' = expressed \cup {c} => [Interests!Next]_(Interests!known)
             /\ expressed' = expressed \ {c} => [Interests!Next]_(Interests!known)
  <2>2. \A u \in topics : (Topic(u) = c <=> u = t) /\ (Of(u) = Of(t) <=> u = t)
    BY <1>3, Names, SubjectsApart
  <2>3. expressed' = expressed \cup {c} => Interests!Speak(Of(t))
    <3>1. expressed' = expressed \cup {c} => hush' = hush \cup {Of(t)}
      BY <1>1, <2>2
    <3> QED
      BY <1>1, <3>1 DEF Interests!Speak
  <2>4. expressed' = expressed \ {c} => Interests!Pass(Of(t))
    <3>1. expressed' = expressed \ {c} => hush' = hush \ {Of(t)}
      BY <1>1, <2>2
    <3> QED
      BY <1>1, <3>1 DEF Interests!Pass
  <2>5. Of(t) \in subs
    OBVIOUS
  <2> QED
    BY <2>3, <2>4, <2>5 DEF Interests!Next
<1> QED
  BY <1>2, <1>3

LEMMA StepKeeps ==
  Types /\ GraphInv /\ ItemInv /\ [Next]_vars => [Interests!Next]_(Interests!known)
<1> SUFFICES ASSUME Types, GraphInv, ItemInv, [Next]_vars
             PROVE  [Interests!Next]_(Interests!known)
  OBVIOUS
<1> DEFINE subs == {Of(t) : t \in topics}
           hush == {Of(t) : t \in {u \in topics : Topic(u) \in expressed}}
           said(i) == [status |-> intent[i].status, about |-> SubjectOf(intent[i].topic)]
           thr  == [i \in Intents |-> said(i)]
<1>1. ASSUME NEW m \in Memories, EnrichMemory(m) PROVE Interests!Next
  BY <1>1, EnrichLearns DEF Interests!Next
<1>2. ASSUME NEW t \in Memories, EmbedTopic(t) PROVE [Interests!Next]_(Interests!known)
  <2>1. CASE t \in topics /\ Duplicates(t) # {}
    <3>1. PICK best \in Duplicates(t) : Merge(t, best)
      BY <1>2, <2>1 DEF EmbedTopic
    <3>2. best \in topics \ {t}
      BY <3>1 DEF Duplicates
    <3>3. PICK a, b \in subs : Interests!Unite(a, b)
      BY <2>1, <3>1, <3>2, MergeUnites
    <3> QED
      BY <3>3 DEF Interests!Next
  <2>2. CASE ~(t \in topics /\ Duplicates(t) # {})
    BY <1>2, <2>2, KnownStays DEF EmbedTopic, graph
  <2> QED
    BY <2>1, <2>2
<1>3. ASSUME NEW i \in Intents, NEW t \in Memories \cup {None}, CreateIntent(i, t)
      PROVE  Interests!Next
  <2>1. /\ intent \in [Intents -> IntentType] /\ intent[i].status = "none"
        /\ intent' = [intent EXCEPT ![i] = [status |-> "pending", topic |-> t]]
        /\ UNCHANGED <<topics, stands, expressed>>
    BY <1>3 DEF CreateIntent, pool, speech, Types, TypeOK, IntentType
  <2>2. PICK s \in subs \cup {{}} : s = SubjectOf(t)
    BY DEF SubjectOf
  <2>3. \A j \in Intents \ {i} : said(j)' = said(j)
    BY <2>1 DEF SubjectOf, Of
  <2>4. said(i)' = [status |-> "pending", about |-> s]
    <3>1. intent'[i] = [status |-> "pending", topic |-> t]
      BY <2>1
    <3>2. SubjectOf(t)' = SubjectOf(t)
      BY <2>1 DEF SubjectOf, Of
    <3> QED
      BY <2>2, <3>1, <3>2
  <2>5. said(i).status = "none" /\ UNCHANGED <<subs, hush>>
    BY <2>1 DEF Of
  <2>6. thr' = [thr EXCEPT ![i] = [status |-> "pending", about |-> s]] /\ thr[i].status = "none"
    BY <2>3, <2>4, <2>5
  <2>7. Interests!Begin(i, s)
    BY <2>5, <2>6 DEF Interests!Begin
  <2> QED
    BY <2>2, <2>7 DEF Interests!Next
<1>4. ASSUME NEW i \in Intents, ResolveIntent(i) PROVE Interests!Next
  <2>1. /\ intent \in [Intents -> IntentType] /\ intent[i].status # "none"
        /\ intent' = [intent EXCEPT ![i].status = "resolved"]
        /\ UNCHANGED <<topics, stands, expressed>>
    BY <1>4 DEF ResolveIntent, pool, speech, Types, TypeOK, IntentType
  <2>2. \A j \in Intents \ {i} : said(j)' = said(j)
    BY <2>1 DEF SubjectOf, Of
  <2>3. said(i)' = [said(i) EXCEPT !.status = "resolved"]
    <3>1. intent'[i].status = "resolved" /\ intent'[i].topic = intent[i].topic
      BY <2>1 DEF IntentType
    <3>2. SubjectOf(intent[i].topic)' = SubjectOf(intent[i].topic)
      BY <2>1, <3>1 DEF SubjectOf, Of
    <3> QED
      BY <3>1, <3>2
  <2>4. said(i).status # "none" /\ UNCHANGED <<subs, hush>>
    BY <2>1 DEF Of
  <2>5. thr' = [thr EXCEPT ![i].status = "resolved"] /\ thr[i].status # "none"
    BY <2>2, <2>3, <2>4
  <2>6. Interests!Resolve(i)
    BY <2>4, <2>5 DEF Interests!Resolve
  <2> QED
    BY <2>6 DEF Interests!Next
<1>5. ASSUME NEW c \in Candidate, Deliver(c) \/ LateDelivered(c)
      PROVE  [Interests!Next]_(Interests!known)
  <2>1. expressed' = expressed \cup {c} /\ UNCHANGED <<topics, stands, intent>>
    BY <1>5 DEF Deliver, LateDelivered, Voice, Beside, graph
  <2> QED
    BY <2>1, VoicingShows
<1>6. ASSUME NEW c \in Candidate, WindowPasses(c) PROVE [Interests!Next]_(Interests!known)
  <2>1. expressed' = expressed \ {c} /\ UNCHANGED <<topics, stands, intent>>
    BY <1>6 DEF WindowPasses, Beside, graph
  <2> QED
    BY <2>1, VoicingShows
<1>7. ASSUME NEW m \in Memories, Lease(m) \/ JobFails(m)
      PROVE  UNCHANGED <<topics, stands, intent, expressed>>
  BY <1>7 DEF Lease, JobFails, graph, pool, speech
<1>8. ASSUME NEW c \in Candidate,
             Wake(c) \/ FinishThought(c) \/ Drop(c) \/ LateHeld(c) \/ LateDropped(c)
      PROVE  UNCHANGED <<topics, stands, intent, expressed>>
  BY <1>8 DEF Wake, FinishThought, Drop, LateHeld, LateDropped, Beside, graph, speech
<1>9. ASSUME Reconcile \/ Restart \/ UNCHANGED vars
      PROVE  UNCHANGED <<topics, stands, intent, expressed>>
  BY <1>9 DEF Reconcile, Restart, graph, pool, speech, vars
<1> HIDE DEF subs, hush, said, thr
<1> QED
  BY <1>1, <1>2, <1>3, <1>4, <1>5, <1>6, <1>7, <1>8, <1>9, KnownStays DEF Next

LEMMA InitKeeps == Init => Interests!Init
BY DEF Init, Interests!Init, SubjectOf

(* Topics implements Subjects: whatever enrichments, embedding results in any  *)
(* order, merges, restarts and wakes do, subjects only grow and unite, a merge *)
(* (_merge_duplicate_topic) takes the threads and the recent expression of the *)
(* topic it deletes along, and only a delivered thought silences a subject.    *)
THEOREM KeepsSubjectsHolds == Spec => KeepsSubjects
<1>1. Init => Interests!Init
  BY InitKeeps
<1>2. Types /\ GraphInv /\ ItemInv /\ [Next]_vars => [Interests!Next]_(Interests!known)
  BY StepKeeps
<1> QED
  BY <1>1, <1>2, GraphHolds, ItemsHold, PTL DEF Spec, KeepsSubjects, Interests!Spec
=============================================================================
